---------------------------- MODULE TaskExecutor ----------------------------
(***************************************************************************)
(* What a work queue promises to the code that posts functions to it,     *)
(* with no thread, lock or condition variable in sight: posted work waits  *)
(* until it is due, is performed one item at a time, the earliest posted   *)
(* due item first, each item at most once, and never after it has been     *)
(* withdrawn.  WorkQueue.tla is shown to implement this specification.     *)
(***************************************************************************)
EXTENDS Integers

CONSTANTS
    Tasks           \* what can be posted: records with fields id and due

VARIABLES
    clock,          \* the time of day
    submitted,      \* how many tasks were ever posted
    pending,        \* posted, neither begun nor withdrawn
    active,         \* begun and not yet finished: at most one
    finished        \* performed to the end

execVars == <<clock, submitted, pending, active, finished>>

Init ==
    /\ clock \in Nat
    /\ submitted = 0
    /\ pending = {}
    /\ active = {}
    /\ finished = {}

Advance ==
    /\ clock' = clock + 1
    /\ UNCHANGED <<submitted, pending, active, finished>>

\* A task gets the next number: numbers are never reused.
Submit(task) ==
    /\ task.id = submitted + 1
    /\ submitted' = submitted + 1
    /\ pending' = pending \cup {task}
    /\ UNCHANGED <<clock, active, finished>>

\* The earliest posted task among the due ones, and only when none is active.
Begin(task) ==
    /\ active = {}
    /\ task \in pending
    /\ task.due <= clock
    /\ \A other \in pending : other.due <= clock => task.id <= other.id
    /\ pending' = pending \ {task}
    /\ active' = {task}
    /\ UNCHANGED <<clock, submitted, finished>>

Finish ==
    /\ active # {}
    /\ finished' = finished \cup active
    /\ active' = {}
    /\ UNCHANGED <<clock, submitted, pending>>

\* Removing a function's items, and destroying the queue, withdraw pending work.
Withdraw ==
    /\ pending' \in SUBSET pending
    /\ UNCHANGED <<clock, submitted, active, finished>>

Next ==
    \/ Advance
    \/ \E task \in Tasks : Submit(task) \/ Begin(task)
    \/ Finish
    \/ Withdraw

Spec == Init /\ [][Next]_execVars
=============================================================================
