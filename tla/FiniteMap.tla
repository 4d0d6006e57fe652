------------------------------ MODULE FiniteMap ------------------------------
(***************************************************************************)
(* What a Dictionary promises (Data.h): a finite map.  The map is its set  *)
(* of pairs; a pair that is put replaces the one of its key, and a lookup  *)
(* answers with the value of the key, or with none (DataNull).             *)
(***************************************************************************)
CONSTANTS MapKeys, MapValues, NoValue

VARIABLES pairs,    \* the pairs <<key, value>>
          request,  \* the call under way: [op, key, value], or NoRequest
          reply     \* what the last lookup answered

mapVars == <<pairs, request, reply>>

NoRequest == [op |-> "idle"]

MapInit == pairs = {} /\ request = NoRequest /\ reply = NoValue

Without(k) == {p \in pairs : p[1] # k}

\* A call begins.
Ask(op, k, v) ==
    /\ request = NoRequest
    /\ request' = [op |-> op, key |-> k, value |-> v]
    /\ UNCHANGED <<pairs, reply>>

Put ==
    /\ request.op = "add"
    /\ pairs' = Without(request.key) \cup {<<request.key, request.value>>}
    /\ UNCHANGED reply

Drop ==
    /\ request.op = "remove"
    /\ pairs' = Without(request.key)
    /\ UNCHANGED reply

Look ==
    /\ request.op = "get"
    /\ \/ \E v \in MapValues : <<request.key, v>> \in pairs /\ reply' = v
       \/ (\A v \in MapValues : <<request.key, v>> \notin pairs) /\ reply' = NoValue
    /\ UNCHANGED pairs

\* The call takes effect and returns.
Return ==
    /\ request # NoRequest /\ request' = NoRequest
    /\ Put \/ Drop \/ Look

\* A pair is removed by its place.
Discard(k) ==
    /\ request = NoRequest
    /\ pairs' = Without(k)
    /\ UNCHANGED <<request, reply>>

MapNext ==
    \/ \E op \in {"add", "remove", "get"}, k \in MapKeys, v \in MapValues : Ask(op, k, v)
    \/ Return
    \/ \E k \in MapKeys : Discard(k)

MapSpec == MapInit /\ [][MapNext]_mapVars
=============================================================================
