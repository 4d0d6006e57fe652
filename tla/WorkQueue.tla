------------------------------ MODULE WorkQueue ------------------------------
(***************************************************************************)
(* code/WorkQueue.c: a queue of functions to call, its two mutexes and its *)
(* condition variable, the thread that drains it (or the main thread that  *)
(* polls it), and the threads that post to it, withdraw from it, wait for  *)
(* it to drain and destroy it.                                             *)
(*                                                                         *)
(* Every section under queueLock is one step.  executionLock is held over  *)
(* several steps and is modelled as execOwner.  A broadcast is what it does*)
(* to the threads blocked at that moment, so one that comes too early is   *)
(* lost, as it is in the program.                                          *)
(*                                                                         *)
(* The array self->queue is a set of items numbered in the order in which  *)
(* they were appended; nothing in the code reorders it, so "first in the   *)
(* array" is "smallest number".                                            *)
(***************************************************************************)
EXTENDS Integers, FiniteSets

CONSTANTS
    Funcs,          \* the functions that are posted
    Delays,         \* the delays they are posted with (0: no delay)
    Workers,        \* the queue's own thread, for a queue that has one
    Pollers,        \* the threads that call WorkQueueExecuteAll themselves
    Callers,        \* the threads that add and remove items
    Waiters,        \* the threads that call WorkQueueWaitUntilEmpty
    Destroyers,     \* the threads that call WorkQueueThreadWaitAndDestroy
    NoThread,       \* executionLock is free
    NoItem,         \* no function is being called
    MaxItems,       \* bound: how many items are ever posted
    MaxNow          \* bound: the last time of day

ASSUME ConstantsAssumption ==
    /\ Delays \subseteq Nat
    /\ MaxItems \in Nat
    /\ MaxNow \in Nat
    /\ NoThread \notin Workers \cup Pollers \cup Callers \cup Waiters \cup Destroyers

\* workQueueExecute runs in the thread created with the queue, and only there.
ASSUME WorkersAssumption ==
    /\ Workers \cap (Pollers \cup Callers \cup Waiters \cup Destroyers) = {}
    /\ \A v, w \in Workers : v = w

\* Each named queue is destroyed by one thread, the one that runs the node manager.
ASSUME DestroyersAssumption == \A v, w \in Destroyers : v = w

Threads == Workers \cup Pollers \cup Callers \cup Waiters \cup Destroyers

\* struct WorkQueueItem, and the order in which it was appended.
Items == [id : 1..MaxItems, fn : Funcs, due : 0..MaxNow]

ASSUME NoItemAssumption == NoItem \notin Items

VARIABLES
    queue,              \* self->queue
    waitingToDestroy,   \* self->waitingToDestroy
    freed,              \* WorkQueueFree was called and the name forgotten
    execOwner,          \* who holds executionLock
    pc,                 \* where each thread is
    running,            \* the item whose function a thread is calling
    deadline,           \* when a thread's timed wait ends (0: it is not timed)
    aborted,            \* the program called abort()
    now,                \* gettimeofday, in seconds
    submitted,          \* history: how many items were posted
    started,            \* history: the items whose function was called
    since               \* history: the value of submitted when a waiter called

queueVars == <<queue, submitted, started>>
threadVars == <<execOwner, pc, running, deadline, since>>
lifeVars == <<waitingToDestroy, freed, aborted>>
vars == <<queue, waitingToDestroy, freed, execOwner, pc, running, deadline,
          aborted, now, submitted, started, since>>

PCs == {"idle",
        "loop",                             \* workQueueExecute's while test
        "exit",                             \* ... and what follows the loop
        "dead",                             \* ... which returned
        "n_lock", "n_wait", "n_blocked",    \* WorkQueueWaitUntilNotEmpty
        "x_lock", "x_get", "x_run", "x_end",\* WorkQueueExecuteAll
        "a_signal",                         \* WorkQueueAddDelayed
        "r_signal",                         \* WorkQueueRemove
        "e_lock", "e_wait", "e_blocked", "e_ret",   \* WorkQueueWaitUntilEmpty
        "d_lock", "d_blocked", "d_free", "d_ret"}   \* ...ThreadWaitAndDestroy

Init ==
    /\ queue = {}
    /\ waitingToDestroy = FALSE
    /\ freed = FALSE
    /\ execOwner = NoThread
    /\ pc = [t \in Threads |-> IF t \in Workers THEN "loop" ELSE "idle"]
    /\ running = [t \in Threads |-> NoItem]
    /\ deadline = [t \in Threads |-> 0]
    /\ aborted = FALSE
    /\ now = 1
    /\ submitted = 0
    /\ started = {}
    /\ since = [t \in Threads |-> 0]

-----------------------------------------------------------------------------
(* Locks and the condition variable *)

Lockable(t) == execOwner \in {NoThread, t}  \* executionLock is recursive

\* pthread_cond_broadcast: the blocked threads go on to reacquire executionLock.
Broadcast(where) ==
    [t \in Threads |-> CASE where[t] = "n_blocked" -> "n_lock"
                         [] where[t] = "e_blocked" -> "e_lock"
                         [] where[t] = "d_blocked" -> "d_lock"
                         [] OTHER -> where[t]]

Goto(t, label) == pc' = [pc EXCEPT ![t] = label]

\* A thread calls the queue from its own code, or from a function the queue called.
CanCall(t) ==
    /\ ~freed
    /\ \/ t \in Callers /\ pc[t] = "idle"
       \/ pc[t] = "x_run"

\* Where a thread goes on after WorkQueueAddDelayed or WorkQueueRemove.
CallReturn(t) == IF running[t] = NoItem THEN "idle" ELSE "x_run"

-----------------------------------------------------------------------------
(* Adding and removing *)

\* WorkQueueAddDelayed up to UNLOCK(queueLock); WorkQueueAdd is delay = 0.
ExecuteTime(delay) == IF delay = 0 THEN 0 ELSE now + delay

AddDelayed(t, fn, delay) ==
    /\ CanCall(t)
    /\ submitted < MaxItems
    /\ now + delay <= MaxNow
    /\ submitted' = submitted + 1
    /\ queue' = queue \cup
                    {[id |-> submitted + 1, fn |-> fn, due |-> ExecuteTime(delay)]}
    /\ Goto(t, "a_signal")
    /\ UNCHANGED <<lifeVars, execOwner, running, deadline, now, started, since>>

\* ... and its broadcast, for which it holds no lock.
AddSignal(t) ==
    /\ pc[t] = "a_signal"
    /\ pc' = Broadcast([pc EXCEPT ![t] = CallReturn(t)])
    /\ UNCHANGED <<queueVars, lifeVars, execOwner, running, deadline, now, since>>

\* WorkQueueRemove with functionRemovalTest, up to UNLOCK(queueLock).
RemoveByFunction(t, fn) ==
    /\ CanCall(t)
    /\ queue' = {i \in queue : i.fn # fn}
    /\ Goto(t, "r_signal")
    /\ UNCHANGED <<lifeVars, execOwner, running, deadline, now, submitted,
                   started, since>>

\* ... and its broadcast, under executionLock.
RemoveSignal(t) ==
    /\ pc[t] = "r_signal"
    /\ Lockable(t)
    /\ pc' = Broadcast([pc EXCEPT ![t] = CallReturn(t)])
    /\ UNCHANGED <<queueVars, lifeVars, execOwner, running, deadline, now, since>>

-----------------------------------------------------------------------------
(* WorkQueueExecuteAll *)

CallExecuteAll(t) ==
    /\ t \in Pollers
    /\ ~freed
    /\ pc[t] = "idle"
    /\ Goto(t, "x_lock")
    /\ UNCHANGED <<queueVars, lifeVars, execOwner, running, deadline, now, since>>

\* Mutant: the functions are called under no lock.
ExecuteUnlocked(t) ==
    /\ pc[t] = "x_lock"
    /\ Goto(t, "x_get")
    /\ UNCHANGED <<queueVars, lifeVars, execOwner, running, deadline, now, since>>

ExecuteLock(t) ==
    /\ pc[t] = "x_lock"
    /\ Lockable(t)
    /\ execOwner' = t
    /\ Goto(t, "x_get")
    /\ UNCHANGED <<queueVars, lifeVars, running, deadline, now, since>>

Due(i) == i.due <= now

\* Mutant: the array is searched from its end.
LastDue(i) ==
    /\ i \in queue
    /\ Due(i)
    /\ \A j \in queue : Due(j) => i.id >= j.id

\* WorkQueueGetOne: the first item of the array whose time has come.
FirstDue(i) ==
    /\ i \in queue
    /\ Due(i)
    /\ \A j \in queue : Due(j) => i.id <= j.id

\* Mutant: the item stays in the array.
GetOneKeeps(t) ==
    /\ pc[t] = "x_get"
    /\ \E i \in queue :
        /\ FirstDue(i)
        /\ queue' = queue
        /\ started' = started \cup {i}
        /\ running' = [running EXCEPT ![t] = i]
    /\ Goto(t, "x_run")
    /\ UNCHANGED <<lifeVars, execOwner, deadline, now, submitted, since>>

GetOne(t) ==
    /\ pc[t] = "x_get"
    /\ \E i \in queue :
        /\ FirstDue(i)
        /\ queue' = queue \ {i}
        /\ started' = started \cup {i}
        /\ running' = [running EXCEPT ![t] = i]
    /\ Goto(t, "x_run")
    /\ UNCHANGED <<lifeVars, execOwner, deadline, now, submitted, since>>

GetNone(t) ==
    /\ pc[t] = "x_get"
    /\ \A i \in queue : ~Due(i)
    /\ Goto(t, "x_end")
    /\ UNCHANGED <<queueVars, lifeVars, execOwner, running, deadline, now, since>>

\* item->function returned; while it ran it could call the queue (CanCall).
FunctionReturn(t) ==
    /\ pc[t] = "x_run"
    /\ running' = [running EXCEPT ![t] = NoItem]
    /\ Goto(t, "x_get")
    /\ UNCHANGED <<queueVars, lifeVars, execOwner, deadline, now, since>>

\* Mutant: the last broadcast is left out.
ExecuteEndSilently(t) ==
    /\ pc[t] = "x_end"
    /\ execOwner' = NoThread
    /\ Goto(t, IF t \in Workers THEN "loop" ELSE "idle")
    /\ UNCHANGED <<queueVars, lifeVars, running, deadline, now, since>>

\* The last broadcast, and UNLOCK(executionLock).
ExecuteEnd(t) ==
    /\ pc[t] = "x_end"
    /\ execOwner' = NoThread
    /\ pc' = Broadcast([pc EXCEPT ![t] = IF t \in Workers THEN "loop" ELSE "idle"])
    /\ UNCHANGED <<queueVars, lifeVars, running, deadline, now, since>>

-----------------------------------------------------------------------------
(* WorkQueueWaitUntilNotEmpty, which only the queue's own thread calls *)

LowestExecuteTime == CHOOSE d \in {i.due : i \in queue} : \A i \in queue : d <= i.due

\* Mutant: UINT64_MAX, the lowest time of an empty queue, read as a signed number.
WaitDeadlineSigned == IF queue = {} THEN -1 ELSE now + LowestExecuteTime

\* tv is the time of day plus the item's execution time, itself a time of day.
WaitDeadline == IF queue = {} THEN 0 ELSE now + LowestExecuteTime

NotEmptyReturn(t) ==
    /\ pc[t] = "n_lock"
    /\ Lockable(t)
    /\ waitingToDestroy \/ \E i \in queue : Due(i)
    /\ deadline' = [deadline EXCEPT ![t] = 0]
    /\ Goto(t, "x_lock")
    /\ UNCHANGED <<queueVars, lifeVars, execOwner, running, now, since>>

\* Nothing to do: the thread has decided to wait and still holds executionLock.
NotEmptyDecide(t) ==
    /\ pc[t] = "n_lock"
    /\ Lockable(t)
    /\ ~waitingToDestroy
    /\ \A i \in queue : ~Due(i)
    /\ execOwner' = t
    /\ deadline' = [deadline EXCEPT ![t] = WaitDeadline]
    /\ Goto(t, "n_wait")
    /\ UNCHANGED <<queueVars, lifeVars, running, now, since>>

NotEmptyWait(t) ==
    /\ pc[t] = "n_wait"
    /\ execOwner' = NoThread
    /\ Goto(t, "n_blocked")
    /\ UNCHANGED <<queueVars, lifeVars, running, deadline, now, since>>

\* A timed wait with tv_nsec of a second or more fails with EINVAL: the
\* milliseconds added to tv_usec can take it there, depending on both.
NotEmptyAbort(t) ==
    /\ pc[t] = "n_wait"
    /\ deadline[t] # 0
    /\ aborted' = TRUE
    /\ UNCHANGED <<queueVars, waitingToDestroy, freed, threadVars, now>>

WaitTimeout(t) ==
    /\ pc[t] = "n_blocked"
    /\ deadline[t] # 0
    /\ deadline[t] <= now
    /\ Goto(t, "n_lock")
    /\ UNCHANGED <<queueVars, lifeVars, execOwner, running, deadline, now, since>>

-----------------------------------------------------------------------------
(* WorkQueueWaitUntilEmpty *)

CallWaitUntilEmpty(t) ==
    /\ t \in Waiters
    /\ ~freed
    /\ pc[t] = "idle"
    /\ since' = [since EXCEPT ![t] = submitted]
    /\ Goto(t, "e_lock")
    /\ UNCHANGED <<queueVars, lifeVars, execOwner, running, deadline, now>>

\* Mutant: the queue's size is read without executionLock.
EmptyReachedUnlocked(t) ==
    /\ pc[t] = "e_lock"
    /\ queue = {}
    /\ Goto(t, "e_ret")
    /\ UNCHANGED <<queueVars, lifeVars, execOwner, running, deadline, now, since>>

\* Mutant: executionLock is not given back when the queue is empty.
EmptyReachedKeepsLock(t) ==
    /\ pc[t] = "e_lock"
    /\ Lockable(t)
    /\ queue = {}
    /\ execOwner' = t
    /\ Goto(t, "e_ret")
    /\ UNCHANGED <<queueVars, lifeVars, running, deadline, now, since>>

EmptyReached(t) ==
    /\ pc[t] = "e_lock"
    /\ Lockable(t)
    /\ queue = {}
    /\ Goto(t, "e_ret")
    /\ UNCHANGED <<queueVars, lifeVars, execOwner, running, deadline, now, since>>

EmptyDecide(t) ==
    /\ pc[t] = "e_lock"
    /\ Lockable(t)
    /\ queue # {}
    /\ execOwner' = t
    /\ Goto(t, "e_wait")
    /\ UNCHANGED <<queueVars, lifeVars, running, deadline, now, since>>

EmptyWait(t) ==
    /\ pc[t] = "e_wait"
    /\ execOwner' = NoThread
    /\ Goto(t, "e_blocked")
    /\ UNCHANGED <<queueVars, lifeVars, running, deadline, now, since>>

\* The caller of WorkQueueWaitUntilEmpty or ...WaitAndDestroy goes on.
CallerResumes(t) ==
    /\ pc[t] \in {"e_ret", "d_ret"}
    /\ since' = [since EXCEPT ![t] = 0]
    /\ Goto(t, "idle")
    /\ UNCHANGED <<queueVars, lifeVars, execOwner, running, deadline, now>>

-----------------------------------------------------------------------------
(* workQueueExecute and WorkQueueThreadWaitAndDestroy *)

\* The while test reads waitingToDestroy under no lock.
WorkerLoop(t) ==
    /\ pc[t] = "loop"
    /\ Goto(t, IF waitingToDestroy THEN "exit" ELSE "n_lock")
    /\ UNCHANGED <<queueVars, lifeVars, execOwner, running, deadline, now, since>>

\* Mutant: the thread ends without a broadcast.
WorkerExitSilently(t) ==
    /\ pc[t] = "exit"
    /\ Lockable(t)
    /\ waitingToDestroy' = FALSE
    /\ Goto(t, "dead")
    /\ UNCHANGED <<queueVars, freed, aborted, execOwner, running, deadline, now, since>>

WorkerExit(t) ==
    /\ pc[t] = "exit"
    /\ Lockable(t)
    /\ waitingToDestroy' = FALSE
    /\ pc' = Broadcast([pc EXCEPT ![t] = "dead"])
    /\ UNCHANGED <<queueVars, freed, aborted, execOwner, running, deadline, now, since>>

\* Sets the flag, broadcasts, and waits for the thread to clear it: all under
\* executionLock, which the wait gives up.
CallWaitAndDestroy(t) ==
    /\ t \in Destroyers
    /\ ~freed
    /\ pc[t] = "idle"
    /\ Lockable(t)
    /\ waitingToDestroy' = TRUE
    /\ since' = [since EXCEPT ![t] = submitted]
    /\ pc' = [Broadcast(pc) EXCEPT ![t] = "d_blocked"]
    /\ UNCHANGED <<queueVars, freed, aborted, execOwner, running, deadline, now>>

\* Mutant: the flag is tested once, with if instead of while.
DestroyWakeOnce(t) ==
    /\ pc[t] = "d_lock"
    /\ Lockable(t)
    /\ Goto(t, "d_free")
    /\ UNCHANGED <<queueVars, lifeVars, execOwner, running, deadline, now, since>>

DestroyWake(t) ==
    /\ pc[t] = "d_lock"
    /\ Lockable(t)
    /\ Goto(t, IF waitingToDestroy THEN "d_blocked" ELSE "d_free")
    /\ UNCHANGED <<queueVars, lifeVars, execOwner, running, deadline, now, since>>

\* WorkQueueFree, and the name leaves threadQueues.
DestroyFree(t) ==
    /\ pc[t] = "d_free"
    /\ freed' = TRUE
    /\ queue' = {}
    /\ Goto(t, "d_ret")
    /\ UNCHANGED <<waitingToDestroy, aborted, execOwner, running, deadline, now,
                   submitted, started, since>>

-----------------------------------------------------------------------------
(* Time, and wakeups nobody asked for *)

Tick ==
    /\ now < MaxNow
    /\ now' = now + 1
    /\ UNCHANGED <<queueVars, lifeVars, threadVars>>

\* pthread_cond_wait may return without a broadcast.
SpuriousWakeup(t) ==
    /\ pc[t] \in {"n_blocked", "e_blocked", "d_blocked"}
    /\ Goto(t, Broadcast(pc)[t])
    /\ UNCHANGED <<queueVars, lifeVars, execOwner, running, deadline, now, since>>

Calls(t) ==
    \/ \E fn \in Funcs, delay \in Delays : AddDelayed(t, fn, delay)
    \/ \E fn \in Funcs : RemoveByFunction(t, fn)
    \/ CallWaitUntilEmpty(t)
    \/ CallWaitAndDestroy(t)

\* The steps of a call that is under way.
Proceed(t) ==
    \/ AddSignal(t) \/ RemoveSignal(t)
    \/ ExecuteLock(t) \/ GetOne(t) \/ GetNone(t) \/ ExecuteEnd(t)
    \/ NotEmptyReturn(t) \/ NotEmptyDecide(t) \/ NotEmptyWait(t) \/ WaitTimeout(t)
    \/ EmptyReached(t) \/ EmptyDecide(t) \/ EmptyWait(t) \/ CallerResumes(t)
    \/ WorkerLoop(t) \/ WorkerExit(t) \/ DestroyWake(t) \/ DestroyFree(t)

Next ==
    /\ ~aborted
    /\ \/ Tick
       \/ \E t \in Threads : \/ Calls(t) \/ CallExecuteAll(t) \/ Proceed(t)
                             \/ FunctionReturn(t) \/ NotEmptyAbort(t)
                             \/ SpuriousWakeup(t)

Spec == Init /\ [][Next]_vars

(***************************************************************************)
(* A call under way keeps going and a mutex that is released again and     *)
(* again is acquired at last; the functions on the queue return; the main  *)
(* loop calls ExecuteAll repeatedly, as NodeManager.h asks it to; time     *)
(* passes.  Nobody is made to call anything else.                          *)
(***************************************************************************)
Alive(A) == ~aborted /\ A

Fairness ==
    /\ WF_vars(Alive(Tick))
    /\ \A t \in Threads : /\ SF_vars(Alive(Proceed(t)))
                          /\ SF_vars(Alive(FunctionReturn(t)))
                          /\ SF_vars(Alive(CallExecuteAll(t)))

FairSpec == Spec /\ Fairness

-----------------------------------------------------------------------------
(* Properties *)

\* Every variable has its type: the queue's struct, the threads and their locks.
TypeOK ==
    /\ queue \subseteq Items
    /\ waitingToDestroy \in BOOLEAN
    /\ freed \in BOOLEAN
    /\ execOwner \in Threads \cup {NoThread}
    /\ pc \in [Threads -> PCs]
    /\ running \in [Threads -> Items \cup {NoItem}]
    /\ deadline \in [Threads -> Nat]
    /\ aborted \in BOOLEAN
    /\ now \in Nat
    /\ submitted \in Nat
    /\ started \subseteq Items
    /\ since \in [Threads -> Nat]

\* No two functions of a queue ever run at the same time, not even when
\* several threads call WorkQueueExecuteAll (code/WorkQueue.c holds
\* executionLock around every item->function call).
OneFunctionAtATime ==
    \A t, u \in Threads : running[t] # NoItem /\ running[u] # NoItem => t = u

\* An item is never overtaken by one that was posted later and came due no
\* earlier, whoever posts, removes, polls or takes time in between
\* (WorkQueueGetOne searches the array from its start).
NeverOvertaken ==
    \A i \in started, j \in queue : j.id < i.id => j.due > i.due

\* When WorkQueueWaitUntilEmpty returns, every item that was posted before
\* the call has been called to the end or removed: none is still waiting
\* and none is still running in another thread.
WaitUntilEmptyWaits ==
    \A t \in Threads : pc[t] = "e_ret" =>
        /\ \A i \in queue : i.id > since[t]
        /\ \A u \in Threads : running[u] # NoItem => running[u].id > since[t]

\* Once WorkQueueThreadWaitAndDestroy has freed the queue its thread has
\* ended, nobody is inside a call that would touch the destroyed mutexes,
\* and no function of the queue is running.
FreedIsQuiet ==
    freed => /\ \A t \in Threads : pc[t] \in {"idle", "dead", "d_ret"}
             /\ \A t \in Workers : pc[t] = "dead"
             /\ \A t \in Threads : running[t] = NoItem

\* WorkQueueWaitUntilEmpty returns: no wakeup it needs can be lost, because
\* whoever empties the queue broadcasts under executionLock.
WaitUntilEmptyReturns ==
    \A t \in Waiters : pc[t] = "e_lock" ~> pc[t] = "e_ret"

\* WorkQueueThreadWaitAndDestroy returns, whatever the thread was doing when
\* it was asked to stop.
DestroyReturns ==
    \A t \in Destroyers : pc[t] = "d_blocked" ~> pc[t] = "d_ret"

\* What is posted is called, or removed, in the end, delayed items included.
\* Of a queue that is polled this is what NodeManagerProcessNodes and
\* NotificationsProcess rely on; of a queue with a thread of its own Database.h:48
\* says it: "Performs 'onWorkThread' on the work thread."
PostedWorkIsPerformed ==
    \A n \in 1..MaxItems :
        (\E i \in queue : i.id = n) ~> (\A i \in queue : i.id # n)

\* The queue implements the task executor: its threads, locks and wakeups
\* perform tasks one at a time, in order, each at most once, and never one
\* that was removed.
Running == {running[t] : t \in {u \in Threads : running[u] # NoItem}}

Executor == INSTANCE TaskExecutor WITH
    Tasks <- Items, clock <- now, pending <- queue, active <- Running,
    finished <- started \ Running

ImplementsExecutor == Executor!Spec
=============================================================================
