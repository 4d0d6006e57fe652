---------------------------- MODULE MCBlockStore ----------------------------
(***************************************************************************)
(* A small block tree for TLC.  0 is the first block and 6, at height 2,   *)
(* the checkpoint; every other pair of blocks of a height has a larger and *)
(* a smaller one.                                                          *)
(*                                                                         *)
(*      0 --- 5 --- 8 --- 7                                                *)
(*       \                                                                 *)
(*        3 --- 6 --- 2                                                    *)
(***************************************************************************)
EXTENDS BlockStore, TLC

TreePrev == (5 :> 0) @@ (3 :> 0) @@ (8 :> 5) @@ (6 :> 3) @@ (7 :> 8) @@ (2 :> 6)

TreeHashes == {0} \cup DOMAIN TreePrev

TreeDepth == (0 :> 0) @@ (5 :> 1) @@ (3 :> 1) @@ (8 :> 2) @@ (6 :> 2) @@ (7 :> 3) @@ (2 :> 3)

\* Every block has a prefix of its own, in the order of the hashes.
OwnPrefix == [b \in TreeHashes |-> b]

\* A height at which three blocks compete.
ForkHashes == {0, 1, 2, 3}

ForkPrev == (1 :> 0) @@ (2 :> 0) @@ (3 :> 0)

ForkDepth == (0 :> 0) @@ (1 :> 1) @@ (2 :> 1) @@ (3 :> 1)

ForkPrefix == [b \in ForkHashes |-> b]
=============================================================================
