---------------------------- MODULE MCChainSync ----------------------------
(***************************************************************************)
(* Small chains and bounds for TLC.                                        *)
(***************************************************************************)
EXTENDS ChainSync, TLC

SymmetricPtrs == Permutations(Ptrs)

\* Every block but the last has a transaction that matches the filter.
SmallMatches == [h \in Heights |-> IF h < MaxHeight THEN 1 ELSE 0]

Matched == {<<h, 1>> : h \in 1..MaxHeight - 1}

\* Only the first block has one.
FirstMatches == [h \in Heights |-> IF h = 1 THEN 1 ELSE 0]

FirstWanted == {<<1, 1>>}

None == [e \in Events |-> 0]

Drop == [None EXCEPT !["drop"] = 1]

DropRestart == [None EXCEPT !["drop"] = 1, !["restart"] = 1]

Changes == [e \in Events |-> IF e \in {"drop", "restart"} THEN 0 ELSE 1]
=============================================================================
