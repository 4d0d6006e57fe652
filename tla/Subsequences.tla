---------------------------- MODULE Subsequences ----------------------------
(***************************************************************************)
(* The elements of a sequence that are in a set: what is left of an array  *)
(* when the code takes elements out of it (DatasRemoveIndex, RemoveClient, *)
(* `delete from nodes where`), or passes over them in a loop.              *)
(***************************************************************************)
EXTENDS Integers, Sequences

\* The loop over the array s that keeps the elements in S, in their order.
Within(s, S) ==
    LET kept[i \in 0 .. Len(s)] ==
            IF i = 0 THEN <<>>
            ELSE IF s[i] \in S THEN Append(kept[i - 1], s[i]) ELSE kept[i - 1]
    IN  kept[Len(s)]
=============================================================================
