--------------------------- MODULE WorkQueueProofs ---------------------------
(***************************************************************************)
(* What WorkQueue.tla checks on small instances, proved for every set of   *)
(* threads, functions and delays and every bound.                          *)
(***************************************************************************)
EXTENDS WorkQueue, WellFoundedInduction, TLAPS

\* A broadcast leaves every thread somewhere.
LEMMA BroadcastType ==
    ASSUME NEW where \in [Threads -> PCs]
    PROVE  Broadcast(where) \in [Threads -> PCs]
BY DEF Broadcast, PCs

\* A nonempty set of numbers has a least one.
LEMMA LeastNatural ==
    ASSUME NEW S, S \subseteq Nat, S # {}
    PROVE  \E m \in S : \A k \in S : m <= k
<1> DEFINE R == OpToRel(<, Nat)
<1>1. IsWellFoundedOn(R, Nat)
  BY NatLessThanWellFounded
<1>2. \A x, y \in Nat : x < y => <<x, y>> \in R
  BY DEF OpToRel
<1> HIDE DEF R
<1>3. PICK m \in S : \A k \in S : ~(<<k, m>> \in R)
  BY <1>1, WFMin
<1>4. ASSUME NEW k \in S PROVE m <= k
  <2>1. m \in Nat /\ k \in Nat
    OBVIOUS
  <2>2. ~(k < m)
    BY <1>2, <1>3, <2>1
  <2> QED  BY <2>1, <2>2
<1> QED  BY <1>4

\* The deadline that WorkQueueWaitUntilNotEmpty computes is a time.
LEMMA WaitDeadlineType == TypeOK => WaitDeadline \in Nat
<1> SUFFICES ASSUME TypeOK PROVE WaitDeadline \in Nat
  OBVIOUS
<1>1. CASE queue = {}
  BY <1>1 DEF WaitDeadline
<1>2. CASE queue # {}
  <2> DEFINE dues == {i.due : i \in queue}
  <2>1. dues \subseteq Nat /\ dues # {}
    BY <1>2 DEF TypeOK, Items
  <2>2. \E d \in dues : \A e \in dues : d <= e
    <3> HIDE DEF dues
    <3> QED  BY <2>1, LeastNatural
  <2>3. \E d \in dues : \A i \in queue : d <= i.due
    BY <2>2
  <2>4. LowestExecuteTime \in dues
    BY <2>3 DEF LowestExecuteTime
  <2>5. LowestExecuteTime \in Nat
    <3> HIDE DEF dues
    <3> QED  BY <2>1, <2>4
  <2> QED  BY <1>2, <2>5 DEF WaitDeadline, TypeOK
<1> QED  BY <1>1, <1>2

\* A thread that moves on, and those it wakes, end up somewhere.
LEMMA StepTypes ==
    ASSUME TypeOK, NEW t \in Threads, NEW label \in PCs
    PROVE  /\ [pc EXCEPT ![t] = label] \in [Threads -> PCs]
           /\ Broadcast([pc EXCEPT ![t] = label]) \in [Threads -> PCs]
BY BroadcastType DEF TypeOK

-----------------------------------------------------------------------------
(* Type correctness *)

\* Every step of the queue keeps the types: thread counters, locks and items.
LEMMA TypeStep == TypeOK /\ [Next]_vars => TypeOK'
<1> SUFFICES ASSUME TypeOK, [Next]_vars
             PROVE  TypeOK'
  OBVIOUS
<1> USE ConstantsAssumption
<1>1. CASE UNCHANGED vars
  BY <1>1 DEF TypeOK, vars
<1>2. CASE Tick
  BY <1>2 DEF Tick, TypeOK, queueVars, lifeVars, threadVars
<1>3. ASSUME NEW t \in Threads, Calls(t)
      PROVE  TypeOK'
  <2>1. ASSUME NEW fn \in Funcs, NEW delay \in Delays, AddDelayed(t, fn, delay)
        PROVE  TypeOK'
    <3>1. [id |-> submitted + 1, fn |-> fn, due |-> ExecuteTime(delay)] \in Items
      <4>1. submitted + 1 \in 1..MaxItems
        BY <2>1 DEF AddDelayed, TypeOK
      <4>2. ExecuteTime(delay) \in 0..MaxNow
        BY <2>1 DEF AddDelayed, TypeOK, ExecuteTime
      <4> QED  BY <4>1, <4>2 DEF Items
    <3>2. queue' \subseteq Items
      BY <2>1, <3>1 DEF AddDelayed, TypeOK
    <3>3. pc' \in [Threads -> PCs]
      BY <2>1 DEF AddDelayed, Goto, PCs, TypeOK
    <3> QED  BY <2>1, <3>2, <3>3 DEF AddDelayed, TypeOK, lifeVars
  <2>2. ASSUME NEW fn \in Funcs, RemoveByFunction(t, fn)
        PROVE  TypeOK'
    BY <2>2, StepTypes DEF RemoveByFunction, Goto, TypeOK, lifeVars, PCs
  <2>3. CASE CallWaitUntilEmpty(t)
    BY <2>3 DEF CallWaitUntilEmpty, Goto, TypeOK, lifeVars, queueVars, PCs
  <2>4. CASE CallWaitAndDestroy(t)
    BY <2>4, BroadcastType DEF CallWaitAndDestroy, TypeOK, queueVars, PCs
  <2> QED  BY <1>3, <2>1, <2>2, <2>3, <2>4 DEF Calls
<1>4. ASSUME NEW t \in Threads, CallExecuteAll(t) \/ FunctionReturn(t)
                                 \/ NotEmptyAbort(t) \/ SpuriousWakeup(t)
      PROVE  TypeOK'
  <2>1. CASE CallExecuteAll(t)
    BY <2>1 DEF CallExecuteAll, Goto, TypeOK, lifeVars, queueVars, PCs
  <2>2. CASE FunctionReturn(t)
    BY <2>2 DEF FunctionReturn, Goto, TypeOK, lifeVars, queueVars, PCs
  <2>3. CASE NotEmptyAbort(t)
    BY <2>3 DEF NotEmptyAbort, TypeOK, queueVars, threadVars
  <2>4. CASE SpuriousWakeup(t)
    <3>1. Broadcast(pc)[t] \in PCs
      BY BroadcastType DEF TypeOK
    <3> QED  BY <2>4, <3>1, StepTypes DEF SpuriousWakeup, Goto, TypeOK, lifeVars, queueVars
  <2> QED  BY <1>4, <2>1, <2>2, <2>3, <2>4
<1>5. ASSUME NEW t \in Threads, Proceed(t)
      PROVE  TypeOK'
  <2>0. CallReturn(t) \in PCs
    BY DEF CallReturn, PCs
  <2>1. CASE AddSignal(t)
    BY <2>0, <2>1, StepTypes DEF AddSignal, TypeOK, lifeVars, queueVars
  <2>2. CASE RemoveSignal(t)
    BY <2>0, <2>2, StepTypes DEF RemoveSignal, TypeOK, lifeVars, queueVars
  <2>3. CASE ExecuteLock(t)
    BY <2>3 DEF ExecuteLock, Goto, TypeOK, lifeVars, queueVars, PCs
  <2>4. CASE GetOne(t)
    BY <2>4 DEF GetOne, Goto, TypeOK, lifeVars, PCs
  <2>5. CASE GetNone(t)
    BY <2>5 DEF GetNone, Goto, TypeOK, lifeVars, queueVars, PCs
  <2>6. CASE ExecuteEnd(t)
    <3>1. (IF t \in Workers THEN "loop" ELSE "idle") \in PCs
      BY DEF PCs
    <3> QED  BY <2>6, <3>1, StepTypes DEF ExecuteEnd, TypeOK, lifeVars, queueVars
  <2>7. CASE NotEmptyReturn(t)
    BY <2>7 DEF NotEmptyReturn, Goto, TypeOK, lifeVars, queueVars, PCs
  <2>8. CASE NotEmptyDecide(t)
    BY <2>8, WaitDeadlineType DEF NotEmptyDecide, Goto, TypeOK, lifeVars, queueVars, PCs
  <2>9. CASE NotEmptyWait(t) \/ WaitTimeout(t)
    BY <2>9 DEF NotEmptyWait, WaitTimeout, Goto, TypeOK, lifeVars, queueVars, PCs
  <2>10. CASE EmptyReached(t) \/ EmptyDecide(t) \/ EmptyWait(t)
    BY <2>10 DEF EmptyReached, EmptyDecide, EmptyWait, Goto, TypeOK, lifeVars,
                 queueVars, PCs
  <2>11. CASE CallerResumes(t)
    BY <2>11 DEF CallerResumes, Goto, TypeOK, lifeVars, queueVars, PCs
  <2>12. CASE WorkerLoop(t)
    BY <2>12 DEF WorkerLoop, Goto, TypeOK, lifeVars, queueVars, PCs
  <2>13. CASE WorkerExit(t)
    BY <2>13, StepTypes DEF WorkerExit, TypeOK, queueVars, PCs
  <2>14. CASE DestroyWake(t)
    BY <2>14 DEF DestroyWake, Goto, TypeOK, lifeVars, queueVars, PCs
  <2>15. CASE DestroyFree(t)
    BY <2>15 DEF DestroyFree, Goto, TypeOK, PCs
  <2> QED  BY <1>5, <2>1, <2>2, <2>3, <2>4, <2>5, <2>6, <2>7, <2>8, <2>9, <2>10,
              <2>11, <2>12, <2>13, <2>14, <2>15 DEF Proceed
<1> QED  BY <1>1, <1>2, <1>3, <1>4, <1>5 DEF Next

\* The state WorkQueueNew leaves has the types.
LEMMA InitType == Init => TypeOK
<1> SUFFICES ASSUME Init PROVE TypeOK
  OBVIOUS
<1>1. pc \in [Threads -> PCs]
  BY DEF Init, PCs
<1>2. running \in [Threads -> Items \cup {NoItem}]
  BY DEF Init
<1>3. deadline \in [Threads -> Nat] /\ since \in [Threads -> Nat]
  BY DEF Init
<1> QED  BY <1>1, <1>2, <1>3 DEF Init, TypeOK

\* Type correctness of the queue, its threads and its locks.
THEOREM TypeCorrect == Spec => []TypeOK
BY InitType, TypeStep, PTL DEF Spec

-----------------------------------------------------------------------------
(* The inductive invariant *)

\* The labels at which a thread holds executionLock.
Holding == {"x_get", "x_run", "x_end", "n_wait", "e_wait"}

\* Who holds executionLock, and that a function runs only under it, also while
\* the function is itself inside a call of the queue.
LockDiscipline ==
    /\ \A t \in Threads : pc[t] \in Holding => execOwner = t
    /\ \A t \in Threads : running[t] # NoItem =>
            execOwner = t /\ pc[t] \in {"x_run", "a_signal", "r_signal"}
    /\ \A t \in Threads : pc[t] = "x_run" => running[t] # NoItem

\* Numbers are given once; what was begun was due; what runs was begun.
Bookkeeping ==
    /\ \A i \in queue \cup started : i.id <= submitted
    /\ \A i, j \in queue : i.id = j.id => i = j
    /\ \A i \in queue, j \in started : i.id # j.id
    /\ \A i \in started : i.due <= now
    /\ \A t \in Threads : running[t] # NoItem => running[t] \in started
    /\ \A t \in Threads : since[t] <= submitted

IndInv ==
    /\ TypeOK
    /\ LockDiscipline
    /\ Bookkeeping
    /\ NeverOvertaken
    /\ WaitUntilEmptyWaits

\* A broadcast moves only the threads that are blocked, and only to a lock.
LEMMA BroadcastEffect ==
    ASSUME NEW where \in [Threads -> PCs], NEW u \in Threads
    PROVE  \/ Broadcast(where)[u] = where[u]
           \/ /\ where[u] \in {"n_blocked", "e_blocked", "d_blocked"}
              /\ Broadcast(where)[u] \in {"n_lock", "e_lock", "d_lock"}
BY DEF Broadcast

\* What a step does to pc when it moves its thread and broadcasts.
LEMMA SignalEffect ==
    ASSUME TypeOK, NEW t \in Threads,
           NEW label \in PCs \ {"n_blocked", "e_blocked", "d_blocked"},
           pc' = Broadcast([pc EXCEPT ![t] = label])
    PROVE  \A u \in Threads : \/ pc'[u] = (IF u = t THEN label ELSE pc[u])
                              \/ /\ u # t
                                 /\ pc[u] \in {"n_blocked", "e_blocked", "d_blocked"}
                                 /\ pc'[u] \in {"n_lock", "e_lock", "d_lock"}
<1> DEFINE moved == [pc EXCEPT ![t] = label]
<1>1. /\ moved \in [Threads -> PCs]
      /\ \A u \in Threads : moved[u] = IF u = t THEN label ELSE pc[u]
  BY DEF TypeOK
<1>2. pc' = Broadcast(moved)
  OBVIOUS
<1> HIDE DEF moved
<1>3. \A u \in Threads : \/ pc'[u] = moved[u]
                        \/ /\ moved[u] \in {"n_blocked", "e_blocked", "d_blocked"}
                           /\ pc'[u] \in {"n_lock", "e_lock", "d_lock"}
  BY <1>1, <1>2, BroadcastEffect
<1> QED  BY <1>1, <1>3

\* No step takes executionLock from its holder or lets a function outlive it.
LEMMA LockStep == IndInv /\ [Next]_vars => LockDiscipline'
<1> SUFFICES ASSUME IndInv, [Next]_vars
             PROVE  LockDiscipline'
  OBVIOUS
<1> USE ConstantsAssumption DEF IndInv, LockDiscipline, Holding
<1>0. \A u \in Threads : u # NoThread
  BY DEF Threads
<1>1. CASE UNCHANGED vars
  BY <1>1 DEF vars
<1>2. CASE Tick
  BY <1>2 DEF Tick, threadVars
<1>3. ASSUME NEW t \in Threads, Calls(t)
      PROVE  LockDiscipline'
  <2>1. ASSUME NEW fn \in Funcs, NEW delay \in Delays, AddDelayed(t, fn, delay)
        PROVE  LockDiscipline'
    BY <2>1 DEF AddDelayed, CanCall, Goto, TypeOK
  <2>2. ASSUME NEW fn \in Funcs, RemoveByFunction(t, fn)
        PROVE  LockDiscipline'
    BY <2>2 DEF RemoveByFunction, CanCall, Goto, TypeOK
  <2>3. CASE CallWaitUntilEmpty(t)
    BY <2>3 DEF CallWaitUntilEmpty, Goto, TypeOK
  <2>4. CASE CallWaitAndDestroy(t)
    BY <2>4, BroadcastEffect DEF CallWaitAndDestroy, TypeOK
  <2> QED  BY <1>3, <2>1, <2>2, <2>3, <2>4 DEF Calls
<1>4. ASSUME NEW t \in Threads, CallExecuteAll(t) \/ FunctionReturn(t)
                                 \/ NotEmptyAbort(t) \/ SpuriousWakeup(t)
      PROVE  LockDiscipline'
  <2>1. CASE CallExecuteAll(t)
    BY <2>1 DEF CallExecuteAll, Goto, TypeOK
  <2>2. CASE FunctionReturn(t)
    BY <2>2 DEF FunctionReturn, Goto, TypeOK
  <2>3. CASE NotEmptyAbort(t)
    BY <2>3 DEF NotEmptyAbort, threadVars
  <2>4. CASE SpuriousWakeup(t)
    BY <2>4, BroadcastEffect DEF SpuriousWakeup, Goto, TypeOK
  <2> QED  BY <1>4, <2>1, <2>2, <2>3, <2>4
<1>5. ASSUME NEW t \in Threads, Proceed(t)
      PROVE  LockDiscipline'
  <2>1. CASE AddSignal(t) \/ RemoveSignal(t)
    <3>1. CallReturn(t) \in PCs \ {"n_blocked", "e_blocked", "d_blocked"}
      BY DEF CallReturn, PCs
    <3>2. pc' = Broadcast([pc EXCEPT ![t] = CallReturn(t)])
      BY <2>1 DEF AddSignal, RemoveSignal
    <3>3. \A u \in Threads : \/ pc'[u] = (IF u = t THEN CallReturn(t) ELSE pc[u])
                             \/ /\ u # t
                                /\ pc[u] \in {"n_blocked", "e_blocked", "d_blocked"}
                                /\ pc'[u] \in {"n_lock", "e_lock", "d_lock"}
      BY <3>1, <3>2, SignalEffect
    <3>4. pc[t] \in {"a_signal", "r_signal"} /\ UNCHANGED <<execOwner, running>>
      BY <2>1 DEF AddSignal, RemoveSignal
    <3> QED  BY <3>3, <3>4 DEF CallReturn
  <2>3. CASE ExecuteLock(t)
    BY <2>3, <1>0 DEF ExecuteLock, Lockable, Goto, TypeOK
  <2>4. CASE GetOne(t)
    <3>1. PICK i \in queue : running' = [running EXCEPT ![t] = i]
      BY <2>4 DEF GetOne
    <3>2. i # NoItem
      BY NoItemAssumption DEF TypeOK
    <3> QED  BY <2>4, <3>1, <3>2 DEF GetOne, Goto, TypeOK
  <2>5. CASE GetNone(t)
    BY <2>5 DEF GetNone, Goto, TypeOK
  <2>6. CASE ExecuteEnd(t)
    <3> DEFINE back == IF t \in Workers THEN "loop" ELSE "idle"
    <3>1. back \in PCs \ {"n_blocked", "e_blocked", "d_blocked"}
      BY DEF PCs
    <3>2. pc' = Broadcast([pc EXCEPT ![t] = back])
      BY <2>6 DEF ExecuteEnd
    <3>3. \A u \in Threads : \/ pc'[u] = (IF u = t THEN back ELSE pc[u])
                             \/ /\ u # t
                                /\ pc[u] \in {"n_blocked", "e_blocked", "d_blocked"}
                                /\ pc'[u] \in {"n_lock", "e_lock", "d_lock"}
      <4> HIDE DEF back
      <4> QED  BY <3>1, <3>2, SignalEffect
    <3>4. pc[t] = "x_end" /\ execOwner = t /\ running' = running
      BY <2>6 DEF ExecuteEnd
    <3> QED  BY <3>3, <3>4
  <2>7. CASE NotEmptyReturn(t)
    BY <2>7 DEF NotEmptyReturn, Goto, TypeOK
  <2>8. CASE NotEmptyDecide(t)
    BY <2>8, <1>0 DEF NotEmptyDecide, Lockable, Goto, TypeOK
  <2>9. CASE NotEmptyWait(t) \/ EmptyWait(t)
    BY <2>9 DEF NotEmptyWait, EmptyWait, Goto, TypeOK
  <2>10. CASE WaitTimeout(t) \/ EmptyReached(t)
    BY <2>10 DEF WaitTimeout, EmptyReached, Goto, TypeOK
  <2>11. CASE EmptyDecide(t)
    BY <2>11, <1>0 DEF EmptyDecide, Lockable, Goto, TypeOK
  <2>12. CASE CallerResumes(t) \/ WorkerLoop(t)
    BY <2>12 DEF CallerResumes, WorkerLoop, Goto, TypeOK
  <2>13. CASE WorkerExit(t)
    <3>1. "dead" \in PCs \ {"n_blocked", "e_blocked", "d_blocked"}
      BY DEF PCs
    <3>2. \A u \in Threads : \/ pc'[u] = (IF u = t THEN "dead" ELSE pc[u])
                             \/ /\ u # t
                                /\ pc[u] \in {"n_blocked", "e_blocked", "d_blocked"}
                                /\ pc'[u] \in {"n_lock", "e_lock", "d_lock"}
      BY <2>13, <3>1, SignalEffect DEF WorkerExit
    <3>3. pc[t] = "exit" /\ UNCHANGED <<execOwner, running>>
      BY <2>13 DEF WorkerExit
    <3> QED  BY <3>2, <3>3
  <2>14. CASE DestroyWake(t) \/ DestroyFree(t)
    BY <2>14 DEF DestroyWake, DestroyFree, Goto, TypeOK
  <2> QED  BY <1>5, <2>1, <2>3, <2>4, <2>5, <2>6, <2>7, <2>8, <2>9, <2>10,
              <2>11, <2>12, <2>13, <2>14 DEF Proceed
<1> QED  BY <1>1, <1>2, <1>3, <1>4, <1>5 DEF Next

\* Numbers stay unique and order stays intact under every step.
LEMMA BookStep == IndInv /\ [Next]_vars => Bookkeeping' /\ NeverOvertaken'
<1> SUFFICES ASSUME IndInv, [Next]_vars
             PROVE  Bookkeeping' /\ NeverOvertaken'
  OBVIOUS
<1> USE ConstantsAssumption DEF IndInv, Bookkeeping, NeverOvertaken
<1>0. /\ \A i \in queue \cup started : i.id \in Nat /\ i.due \in Nat
      /\ now \in Nat /\ submitted \in Nat /\ \A u \in Threads : since[u] \in Nat
  BY DEF TypeOK, Items
<1>1. CASE UNCHANGED <<queue, submitted, started, running, now, since>>
  BY <1>1
<1>2. CASE Tick
  BY <1>0, <1>2 DEF Tick, queueVars, threadVars
<1>3. ASSUME NEW t \in Threads, NEW fn \in Funcs, NEW delay \in Delays,
             AddDelayed(t, fn, delay)
      PROVE  Bookkeeping' /\ NeverOvertaken'
  <2> DEFINE new == [id |-> submitted + 1, fn |-> fn, due |-> ExecuteTime(delay)]
  <2>1. /\ queue' = queue \cup {new} /\ submitted' = submitted + 1
        /\ UNCHANGED <<started, running, now, since>>
    BY <1>3 DEF AddDelayed
  <2>2. new.id = submitted + 1
    OBVIOUS
  <2> HIDE DEF new
  <2> QED  BY <1>0, <2>1, <2>2
<1>4. ASSUME NEW t \in Threads, NEW fn \in Funcs, RemoveByFunction(t, fn)
      PROVE  Bookkeeping' /\ NeverOvertaken'
  BY <1>0, <1>4 DEF RemoveByFunction
<1>5. ASSUME NEW t \in Threads, GetOne(t)
      PROVE  Bookkeeping' /\ NeverOvertaken'
  <2>1. PICK i \in queue : /\ FirstDue(i)
                           /\ queue' = queue \ {i}
                           /\ started' = started \cup {i}
                           /\ running' = [running EXCEPT ![t] = i]
    BY <1>5 DEF GetOne
  <2>2. UNCHANGED <<submitted, now, since>>
    BY <1>5 DEF GetOne
  <2>3. Bookkeeping'
    BY <1>0, <2>1, <2>2 DEF FirstDue, Due, TypeOK
  <2>4. NeverOvertaken'
    BY <1>0, <2>1, <2>2 DEF FirstDue, Due
  <2> QED  BY <2>3, <2>4
<1>6. ASSUME NEW t \in Threads, FunctionReturn(t)
      PROVE  Bookkeeping' /\ NeverOvertaken'
  BY <1>6 DEF FunctionReturn, queueVars, TypeOK
<1>7. ASSUME NEW t \in Threads,
             CallWaitUntilEmpty(t) \/ CallWaitAndDestroy(t) \/ CallerResumes(t)
      PROVE  Bookkeeping' /\ NeverOvertaken'
  BY <1>0, <1>7 DEF CallWaitUntilEmpty, CallWaitAndDestroy, CallerResumes, queueVars, TypeOK
<1>8. ASSUME NEW t \in Threads, DestroyFree(t)
      PROVE  Bookkeeping' /\ NeverOvertaken'
  BY <1>8 DEF DestroyFree
<1>9. ASSUME NEW t \in Threads,
             \/ CallExecuteAll(t) \/ NotEmptyAbort(t) \/ SpuriousWakeup(t)
             \/ AddSignal(t) \/ RemoveSignal(t) \/ ExecuteLock(t) \/ GetNone(t)
             \/ ExecuteEnd(t) \/ NotEmptyReturn(t) \/ NotEmptyDecide(t)
             \/ NotEmptyWait(t) \/ WaitTimeout(t) \/ EmptyReached(t) \/ EmptyDecide(t)
             \/ EmptyWait(t) \/ WorkerLoop(t) \/ WorkerExit(t) \/ DestroyWake(t)
      PROVE  UNCHANGED <<queue, submitted, started, running, now, since>>
  BY <1>9 DEF CallExecuteAll, NotEmptyAbort, SpuriousWakeup, AddSignal, RemoveSignal,
              ExecuteLock, GetNone, ExecuteEnd, NotEmptyReturn, NotEmptyDecide,
              NotEmptyWait, WaitTimeout, EmptyReached, EmptyDecide, EmptyWait,
              WorkerLoop, WorkerExit, DestroyWake, queueVars, threadVars
<1>10. UNCHANGED vars => UNCHANGED <<queue, submitted, started, running, now, since>>
  BY DEF vars
<1> QED  BY <1>1, <1>2, <1>3, <1>4, <1>5, <1>6, <1>7, <1>8, <1>9, <1>10
         DEF Next, Calls, Proceed

\* A thread reaches the end of WorkQueueWaitUntilEmpty only by finding the
\* queue empty, with executionLock its own or free.
LEMMA ReturnsFromEmpty ==
    ASSUME TypeOK, [Next]_vars, NEW t \in Threads, pc'[t] = "e_ret"
    PROVE  (pc[t] = "e_ret" /\ since'[t] = since[t]) \/ EmptyReached(t)
<1> USE DEF TypeOK
<1>1. CASE UNCHANGED vars
  BY <1>1 DEF vars
<1>2. CASE Tick
  BY <1>2 DEF Tick, threadVars
<1>3. ASSUME NEW u \in Threads, AddSignal(u) \/ RemoveSignal(u)
      PROVE  pc[t] = "e_ret" /\ since'[t] = since[t]
  <2>1. CallReturn(u) \in PCs \ {"n_blocked", "e_blocked", "d_blocked", "e_ret"}
    BY DEF CallReturn, PCs
  <2> QED  BY <1>3, <2>1, SignalEffect DEF AddSignal, RemoveSignal
<1>4. ASSUME NEW u \in Threads, ExecuteEnd(u)
      PROVE  pc[t] = "e_ret" /\ since'[t] = since[t]
  <2> DEFINE back == IF u \in Workers THEN "loop" ELSE "idle"
  <2>1. back \in PCs \ {"n_blocked", "e_blocked", "d_blocked", "e_ret"}
    BY DEF PCs
  <2>2. pc' = Broadcast([pc EXCEPT ![u] = back]) /\ since' = since
    BY <1>4 DEF ExecuteEnd
  <2> HIDE DEF back
  <2> QED  BY <2>1, <2>2, SignalEffect
<1>5. ASSUME NEW u \in Threads, WorkerExit(u)
      PROVE  pc[t] = "e_ret" /\ since'[t] = since[t]
  <2>1. "dead" \in PCs \ {"n_blocked", "e_blocked", "d_blocked", "e_ret"}
    BY DEF PCs
  <2> QED  BY <1>5, <2>1, SignalEffect DEF WorkerExit
<1>6. ASSUME NEW u \in Threads, CallWaitAndDestroy(u) \/ SpuriousWakeup(u)
      PROVE  pc[t] = "e_ret" /\ since'[t] = since[t]
  <2>1. Broadcast(pc) \in [Threads -> PCs] /\ Broadcast(pc)[t] \in {pc[t], "n_lock", "e_lock", "d_lock"}
    BY BroadcastType, BroadcastEffect
  <2>2. CASE CallWaitAndDestroy(u)
    BY <2>1, <2>2 DEF CallWaitAndDestroy
  <2>3. CASE SpuriousWakeup(u)
    BY <2>1, <2>3 DEF SpuriousWakeup, Goto
  <2> QED  BY <1>6, <2>2, <2>3
<1>7. ASSUME NEW u \in Threads, NEW fn \in Funcs, NEW delay \in Delays,
             AddDelayed(u, fn, delay)
      PROVE  pc[t] = "e_ret" /\ since'[t] = since[t]
  BY <1>7 DEF AddDelayed, Goto
<1>7a. ASSUME NEW u \in Threads, NEW fn \in Funcs, RemoveByFunction(u, fn)
      PROVE  pc[t] = "e_ret" /\ since'[t] = since[t]
  BY <1>7a DEF RemoveByFunction, Goto
<1>8. ASSUME NEW u \in Threads,
             \/ CallExecuteAll(u) \/ NotEmptyAbort(u) \/ FunctionReturn(u)
             \/ ExecuteLock(u) \/ GetOne(u) \/ GetNone(u) \/ NotEmptyReturn(u)
             \/ NotEmptyDecide(u) \/ NotEmptyWait(u) \/ WaitTimeout(u)
             \/ EmptyDecide(u) \/ EmptyWait(u) \/ WorkerLoop(u)
             \/ DestroyWake(u) \/ DestroyFree(u)
      PROVE  pc[t] = "e_ret" /\ since'[t] = since[t]
  BY <1>8 DEF CallExecuteAll, NotEmptyAbort, FunctionReturn, ExecuteLock, GetOne,
              GetNone, NotEmptyReturn, NotEmptyDecide, NotEmptyWait, WaitTimeout,
              EmptyDecide, EmptyWait, WorkerLoop, DestroyWake, DestroyFree, Goto,
              threadVars
<1>9. ASSUME NEW u \in Threads, CallWaitUntilEmpty(u) \/ CallerResumes(u)
      PROVE  pc[t] = "e_ret" /\ since'[t] = since[t]
  BY <1>9 DEF CallWaitUntilEmpty, CallerResumes, Goto
<1>10. ASSUME NEW u \in Threads, EmptyReached(u)
       PROVE  (pc[t] = "e_ret" /\ since'[t] = since[t]) \/ EmptyReached(t)
  <2>1. CASE u = t
    BY <1>10, <2>1
  <2>2. CASE u # t
    BY <1>10, <2>2 DEF EmptyReached, Goto
  <2> QED  BY <2>1, <2>2
<1> QED  BY <1>1, <1>2, <1>3, <1>4, <1>5, <1>6, <1>7, <1>7a, <1>8, <1>9, <1>10
         DEF Next, Calls, Proceed

\* What is queued or running after a step was so before it, or is new.
LEMMA OutstandingStep ==
    ASSUME IndInv, [Next]_vars
    PROVE  /\ \A i \in queue' : i \in queue \/ i.id = submitted + 1
           /\ \A u \in Threads : running'[u] # NoItem =>
                  running'[u] = running[u] \/ running'[u] \in queue
<1> USE DEF IndInv, TypeOK
<1>1. CASE UNCHANGED <<queue, running>>
  BY <1>1
<1>2. ASSUME NEW t \in Threads, NEW fn \in Funcs, NEW delay \in Delays,
             AddDelayed(t, fn, delay)
      PROVE  /\ \A i \in queue' : i \in queue \/ i.id = submitted + 1
             /\ running' = running
  BY <1>2 DEF AddDelayed
<1>3. ASSUME NEW t \in Threads, NEW fn \in Funcs, RemoveByFunction(t, fn)
      PROVE  queue' \subseteq queue /\ running' = running
  BY <1>3 DEF RemoveByFunction
<1>4. ASSUME NEW t \in Threads, GetOne(t)
      PROVE  /\ queue' \subseteq queue
             /\ \A u \in Threads : running'[u] = running[u] \/ running'[u] \in queue
  BY <1>4 DEF GetOne
<1>5. ASSUME NEW t \in Threads, FunctionReturn(t)
      PROVE  /\ queue' = queue
             /\ \A u \in Threads : running'[u] = running[u] \/ running'[u] = NoItem
  BY <1>5 DEF FunctionReturn, queueVars
<1>6. ASSUME NEW t \in Threads, DestroyFree(t)
      PROVE  queue' \subseteq queue /\ running' = running
  BY <1>6 DEF DestroyFree
<1>7. ASSUME NEW t \in Threads,
             \/ CallExecuteAll(t) \/ NotEmptyAbort(t) \/ SpuriousWakeup(t)
             \/ AddSignal(t) \/ RemoveSignal(t) \/ ExecuteLock(t) \/ GetNone(t)
             \/ ExecuteEnd(t) \/ NotEmptyReturn(t) \/ NotEmptyDecide(t)
             \/ NotEmptyWait(t) \/ WaitTimeout(t) \/ EmptyReached(t) \/ EmptyDecide(t)
             \/ EmptyWait(t) \/ WorkerLoop(t) \/ WorkerExit(t) \/ DestroyWake(t)
             \/ CallWaitUntilEmpty(t) \/ CallWaitAndDestroy(t) \/ CallerResumes(t)
      PROVE  UNCHANGED <<queue, running>>
  BY <1>7 DEF CallExecuteAll, NotEmptyAbort, SpuriousWakeup, AddSignal, RemoveSignal,
              ExecuteLock, GetNone, ExecuteEnd, NotEmptyReturn, NotEmptyDecide,
              NotEmptyWait, WaitTimeout, EmptyReached, EmptyDecide, EmptyWait,
              WorkerLoop, WorkerExit, DestroyWake, CallWaitUntilEmpty,
              CallWaitAndDestroy, CallerResumes, queueVars, threadVars
<1>8. Tick \/ UNCHANGED vars => UNCHANGED <<queue, running>>
  BY DEF Tick, queueVars, threadVars, vars
<1> QED  BY <1>1, <1>2, <1>3, <1>4, <1>5, <1>6, <1>7, <1>8 DEF Next, Calls, Proceed

\* Nothing posted before the call is outstanding when the call returns.
LEMMA WaitStep == IndInv /\ [Next]_vars => WaitUntilEmptyWaits'
<1> SUFFICES ASSUME IndInv, [Next]_vars, NEW t \in Threads, pc'[t] = "e_ret"
             PROVE  /\ \A i \in queue' : i.id > since'[t]
                    /\ \A u \in Threads : running'[u] # NoItem => running'[u].id > since'[t]
  BY DEF WaitUntilEmptyWaits
<1>0. submitted \in Nat /\ since[t] \in Nat /\ since[t] <= submitted
  BY DEF IndInv, TypeOK, Bookkeeping
<1>1. CASE pc[t] = "e_ret" /\ since'[t] = since[t]
  <2>1. /\ \A i \in queue : i.id > since[t]
        /\ \A u \in Threads : running[u] # NoItem => running[u].id > since[t]
    BY <1>1 DEF IndInv, WaitUntilEmptyWaits
  <2> QED  BY <1>0, <1>1, <2>1, OutstandingStep
<1>2. CASE EmptyReached(t)
  <2>1. queue' = {} /\ running' = running
    BY <1>2 DEF EmptyReached, queueVars
  <2>2. \A u \in Threads : running[u] = NoItem
    <3>1. execOwner \in {NoThread, t} /\ pc[t] = "e_lock"
      BY <1>2 DEF EmptyReached, Lockable
    <3>2. \A u \in Threads : u # NoThread
      BY ConstantsAssumption DEF Threads
    <3> QED  BY <3>1, <3>2 DEF IndInv, LockDiscipline
  <2> QED  BY <2>1, <2>2
<1> QED  BY <1>1, <1>2, ReturnsFromEmpty DEF IndInv

\* The invariant holds initially and no step breaks it.
THEOREM Invariance == Spec => []IndInv
<1>1. Init => IndInv
  <2> SUFFICES ASSUME Init PROVE IndInv
    OBVIOUS
  <2>1. TypeOK
    BY InitType
  <2>2. \A t \in Threads : pc[t] \in {"loop", "idle"} /\ running[t] = NoItem /\ since[t] = 0
    BY DEF Init
  <2>3. queue = {} /\ started = {} /\ submitted = 0
    BY DEF Init
  <2> QED  BY <2>1, <2>2, <2>3
           DEF IndInv, LockDiscipline, Holding, Bookkeeping, NeverOvertaken,
               WaitUntilEmptyWaits
<1>2. IndInv /\ [Next]_vars => IndInv'
  BY TypeStep, LockStep, BookStep, WaitStep DEF IndInv
<1> QED  BY <1>1, <1>2, PTL DEF Spec

\* No two functions of a queue run at the same time, whichever threads call
\* WorkQueueExecuteAll: each runs under executionLock.
THEOREM Exclusion == Spec => []OneFunctionAtATime
<1>1. IndInv => OneFunctionAtATime
  BY DEF IndInv, LockDiscipline, OneFunctionAtATime
<1> QED  BY <1>1, Invariance, PTL

\* WorkQueueGetOne never lets an item overtake an earlier one that came due
\* no later.
THEOREM Order == Spec => []NeverOvertaken
<1>1. IndInv => NeverOvertaken
  BY DEF IndInv
<1> QED  BY <1>1, Invariance, PTL

\* WorkQueueWaitUntilEmpty returns only when everything posted before it was
\* called has run to its end or was removed.
THEOREM WaitSound == Spec => []WaitUntilEmptyWaits
<1>1. IndInv => WaitUntilEmptyWaits
  BY DEF IndInv
<1> QED  BY <1>1, Invariance, PTL

-----------------------------------------------------------------------------
(* The end of a queue *)

\* Besides its own thread, the queue is used by the thread that destroys it
\* alone, as NodeManager.c does with its queue of transactions.
SoleUser == Pollers \cup Callers \cup Waiters \subseteq Destroyers

\* How the flag, the queue's thread and the thread that destroys it go
\* together: the flag is up while the destroyer waits, the thread clears it as
\* the last thing it does, and only then is the queue freed.
EndInv ==
    /\ \A t \in Threads : pc[t] \in {"loop", "exit"} => t \in Workers
    /\ \A t \in Threads : pc[t] \in {"d_blocked", "d_lock", "d_free", "d_ret"} => t \in Destroyers
    /\ \A w \in Workers : pc[w] = "exit" => waitingToDestroy
    /\ waitingToDestroy => ~freed /\ \A d \in Destroyers : pc[d] \in {"d_blocked", "d_lock"}
    /\ \A d \in Destroyers :
           (pc[d] \in {"d_blocked", "d_lock"} /\ ~waitingToDestroy) \/ pc[d] = "d_free"
               => ~waitingToDestroy /\ \A w \in Workers : pc[w] = "dead"
    /\ freed => /\ \A t \in Threads : pc[t] \in {"idle", "dead", "d_ret"}
                /\ \A w \in Workers : pc[w] = "dead"

\* A step that moves one thread from a label to another, neither of which is
\* about the end of the queue, keeps the invariant.
LEMMA EndFrame ==
    ASSUME TypeOK, EndInv, NEW t \in Threads, NEW label \in PCs,
           UNCHANGED <<waitingToDestroy, freed>>,
           pc[t] \notin {"idle", "dead", "d_ret"} \/ ~freed,
           pc[t] \notin {"exit", "dead", "d_blocked", "d_lock", "d_free"},
           label \notin {"exit", "dead", "d_blocked", "d_lock", "d_free", "d_ret"},
           label = "loop" => t \in Workers,
           \A u \in Threads : \/ pc'[u] = (IF u = t THEN label ELSE pc[u])
                              \/ /\ u # t
                                 /\ <<pc[u], pc'[u]>> \in {<<"n_blocked", "n_lock">>,
                                        <<"e_blocked", "e_lock">>, <<"d_blocked", "d_lock">>}
    PROVE  EndInv'
<1>1. ~freed
  BY DEF EndInv
<1>2. Workers \subseteq Threads /\ Destroyers \subseteq Threads
  BY DEF Threads
<1> QED  BY <1>1, <1>2 DEF EndInv, TypeOK

\* What a broadcast does to each thread, with the label it was blocked at.
LEMMA SignalPairs ==
    ASSUME TypeOK, NEW t \in Threads,
           NEW label \in PCs \ {"n_blocked", "e_blocked", "d_blocked"},
           pc' = Broadcast([pc EXCEPT ![t] = label])
    PROVE  \A u \in Threads : \/ pc'[u] = (IF u = t THEN label ELSE pc[u])
                              \/ /\ u # t
                                 /\ <<pc[u], pc'[u]>> \in {<<"n_blocked", "n_lock">>,
                                        <<"e_blocked", "e_lock">>, <<"d_blocked", "d_lock">>}
<1> SUFFICES ASSUME NEW u \in Threads
             PROVE  \/ pc'[u] = (IF u = t THEN label ELSE pc[u])
                    \/ /\ u # t
                       /\ <<pc[u], pc'[u]>> \in {<<"n_blocked", "n_lock">>,
                              <<"e_blocked", "e_lock">>, <<"d_blocked", "d_lock">>}
  OBVIOUS
<1> DEFINE moved == [pc EXCEPT ![t] = label]
<1>1. moved \in [Threads -> PCs] /\ moved[u] = IF u = t THEN label ELSE pc[u]
  BY DEF TypeOK
<1>2. pc' = Broadcast(moved)
  OBVIOUS
<1> HIDE DEF moved
<1>3. pc'[u] = CASE moved[u] = "n_blocked" -> "n_lock"
                 [] moved[u] = "e_blocked" -> "e_lock"
                 [] moved[u] = "d_blocked" -> "d_lock"
                 [] OTHER -> moved[u]
  BY <1>2 DEF Broadcast
<1> QED  BY <1>1, <1>3

\* No step of a queue with one user breaks the order in which it ends.
LEMMA EndStep == SoleUser /\ IndInv /\ EndInv /\ [Next]_vars => EndInv'
<1> SUFFICES ASSUME SoleUser, IndInv, EndInv, [Next]_vars
             PROVE  EndInv'
  OBVIOUS
<1>0. TypeOK /\ LockDiscipline
  BY DEF IndInv
<1>t. Workers \subseteq Threads /\ Destroyers \subseteq Threads
  BY DEF Threads
<1>1. CASE UNCHANGED vars
  BY <1>1 DEF EndInv, vars
<1>2. CASE Tick
  BY <1>2 DEF Tick, EndInv, lifeVars, threadVars
<1>3. ASSUME NEW t \in Threads,
             \/ \E fn \in Funcs, delay \in Delays : AddDelayed(t, fn, delay)
             \/ \E fn \in Funcs : RemoveByFunction(t, fn)
             \/ CallWaitUntilEmpty(t) \/ CallExecuteAll(t)
             \/ FunctionReturn(t) \/ ExecuteLock(t) \/ GetOne(t) \/ GetNone(t)
             \/ NotEmptyReturn(t) \/ NotEmptyDecide(t) \/ NotEmptyWait(t) \/ WaitTimeout(t)
             \/ EmptyReached(t) \/ EmptyDecide(t) \/ EmptyWait(t)
      PROVE  EndInv'
  <2>1. \E label \in PCs :
           /\ UNCHANGED <<waitingToDestroy, freed>>
           /\ pc[t] \notin {"idle", "dead", "d_ret"} \/ ~freed
           /\ pc[t] \notin {"exit", "dead", "d_blocked", "d_lock", "d_free"}
           /\ label \notin {"exit", "dead", "d_blocked", "d_lock", "d_free", "d_ret", "loop"}
           /\ pc' = [pc EXCEPT ![t] = label]
    BY <1>3, <1>0 DEF AddDelayed, RemoveByFunction, CanCall, CallWaitUntilEmpty,
       CallExecuteAll, FunctionReturn, ExecuteLock, GetOne, GetNone, NotEmptyReturn,
       NotEmptyDecide, NotEmptyWait, WaitTimeout, EmptyReached, EmptyDecide, EmptyWait,
       Goto, lifeVars, PCs
  <2> QED  BY <2>1, <1>0, EndFrame DEF TypeOK
<1>4. ASSUME NEW t \in Threads, AddSignal(t) \/ RemoveSignal(t)
      PROVE  EndInv'
  <2>1. CallReturn(t) \in {"idle", "x_run"}
    BY DEF CallReturn
  <2>2. pc' = Broadcast([pc EXCEPT ![t] = CallReturn(t)])
        /\ UNCHANGED <<waitingToDestroy, freed>> /\ pc[t] \in {"a_signal", "r_signal"}
    BY <1>4 DEF AddSignal, RemoveSignal, lifeVars
  <2>3. {"idle", "x_run"} \subseteq PCs \ {"n_blocked", "e_blocked", "d_blocked"}
    BY DEF PCs
  <2> DEFINE label == CallReturn(t)
  <2>4. \A u \in Threads : \/ pc'[u] = (IF u = t THEN label ELSE pc[u])
                           \/ /\ u # t
                              /\ <<pc[u], pc'[u]>> \in {<<"n_blocked", "n_lock">>,
                                     <<"e_blocked", "e_lock">>, <<"d_blocked", "d_lock">>}
    BY <1>0, <2>1, <2>2, <2>3, SignalPairs
  <2>5. label \in PCs /\ label \in {"idle", "x_run"}
    BY <2>1, <2>3
  <2> HIDE DEF label
  <2> QED  BY <1>0, <2>2, <2>4, <2>5, EndFrame
<1>5. ASSUME NEW t \in Threads, ExecuteEnd(t)
      PROVE  EndInv'
  <2> DEFINE back == IF t \in Workers THEN "loop" ELSE "idle"
  <2>1. back \in PCs \ {"n_blocked", "e_blocked", "d_blocked"} /\ back \in {"loop", "idle"}
        /\ (back = "loop" => t \in Workers)
    BY DEF PCs
  <2>2. pc' = Broadcast([pc EXCEPT ![t] = back])
        /\ UNCHANGED <<waitingToDestroy, freed>> /\ pc[t] = "x_end"
    BY <1>5 DEF ExecuteEnd, lifeVars
  <2> HIDE DEF back
  <2>4. \A u \in Threads : \/ pc'[u] = (IF u = t THEN back ELSE pc[u])
                           \/ /\ u # t
                              /\ <<pc[u], pc'[u]>> \in {<<"n_blocked", "n_lock">>,
                                     <<"e_blocked", "e_lock">>, <<"d_blocked", "d_lock">>}
    BY <1>0, <2>1, <2>2, SignalPairs
  <2> QED  BY <1>0, <2>1, <2>2, <2>4, EndFrame
<1>6. ASSUME NEW t \in Threads, NotEmptyAbort(t)
      PROVE  EndInv'
  BY <1>6 DEF NotEmptyAbort, EndInv, threadVars
<1>7. ASSUME NEW t \in Threads, CallerResumes(t)
      PROVE  EndInv'
  BY <1>0, <1>7, <1>t DEF CallerResumes, EndInv, Goto, TypeOK, lifeVars
<1>8. ASSUME NEW t \in Threads, WorkerLoop(t)
      PROVE  EndInv'
  BY <1>0, <1>8, <1>t DEF WorkerLoop, EndInv, Goto, TypeOK, lifeVars
<1>9. ASSUME NEW t \in Threads, SpuriousWakeup(t)
      PROVE  EndInv'
  <2>1. pc' = [pc EXCEPT ![t] = Broadcast(pc)[t]] /\ UNCHANGED <<waitingToDestroy, freed>>
    BY <1>9 DEF SpuriousWakeup, Goto, lifeVars
  <2>2. <<pc[t], pc'[t]>> \in {<<"n_blocked", "n_lock">>, <<"e_blocked", "e_lock">>,
                              <<"d_blocked", "d_lock">>}
    BY <1>0, <1>9, <2>1 DEF SpuriousWakeup, Broadcast, TypeOK
  <2>3. \A u \in Threads : u # t => pc'[u] = pc[u]
    BY <1>0, <2>1 DEF TypeOK
  <2> QED  BY <1>t, <2>1, <2>2, <2>3 DEF EndInv
<1>10. ASSUME NEW t \in Threads, WorkerExit(t)
       PROVE  EndInv'
  <2>1. "dead" \in PCs \ {"n_blocked", "e_blocked", "d_blocked"}
    BY DEF PCs
  <2>2. pc' = Broadcast([pc EXCEPT ![t] = "dead"]) /\ pc[t] = "exit"
        /\ waitingToDestroy' = FALSE /\ freed' = freed
    BY <1>10 DEF WorkerExit
  <2>3. t \in Workers /\ \A w \in Workers : w = t
    BY <2>2, WorkersAssumption DEF EndInv
  <2>4. \A u \in Threads : \/ pc'[u] = (IF u = t THEN "dead" ELSE pc[u])
                           \/ /\ u # t
                              /\ <<pc[u], pc'[u]>> \in {<<"n_blocked", "n_lock">>,
                                     <<"e_blocked", "e_lock">>, <<"d_blocked", "d_lock">>}
    BY <1>0, <2>1, <2>2, SignalPairs
  <2> QED  BY <1>t, <2>2, <2>3, <2>4 DEF EndInv
<1>11. ASSUME NEW t \in Threads, CallWaitAndDestroy(t)
       PROVE  EndInv'
  <2>1. /\ t \in Destroyers /\ ~freed /\ ~freed' /\ pc[t] = "idle" /\ waitingToDestroy' = TRUE
        /\ pc' = [Broadcast(pc) EXCEPT ![t] = "d_blocked"]
    BY <1>11 DEF CallWaitAndDestroy
  <2>2. \A d \in Destroyers : d = t
    BY <2>1, DestroyersAssumption
  <2>3. pc'[t] = "d_blocked" /\ \A u \in Threads : u # t => pc'[u] = Broadcast(pc)[u]
    BY <1>0, <2>1 DEF TypeOK, Broadcast
  <2>4. \A u \in Threads : u # t =>
            pc'[u] \in {pc[u], "n_lock", "e_lock", "d_lock"} /\ (pc'[u] = "d_lock" => pc[u] \in {"d_blocked", "d_lock"})
    BY <1>0, <2>3 DEF TypeOK, Broadcast
  <2> QED  BY <1>t, <2>1, <2>2, <2>3, <2>4 DEF EndInv
<1>12. ASSUME NEW t \in Threads, DestroyWake(t)
       PROVE  EndInv'
  BY <1>0, <1>12, <1>t DEF DestroyWake, EndInv, Goto, TypeOK, lifeVars
<1>13. ASSUME NEW t \in Threads, DestroyFree(t)
       PROVE  EndInv'
  <2>1. t \in Destroyers /\ (\A d \in Destroyers : d = t)
        /\ ~waitingToDestroy /\ \A w \in Workers : pc[w] = "dead"
    BY <1>13, DestroyersAssumption DEF DestroyFree, EndInv
  <2>2. \A u \in Threads : u = t \/ u \in Workers
    BY <2>1 DEF SoleUser, Threads
  <2>3. t \notin Workers
    BY <2>1, WorkersAssumption
  <2>4. /\ pc'[t] = "d_ret" /\ freed' = TRUE /\ ~waitingToDestroy'
        /\ \A u \in Threads : u # t => pc'[u] = pc[u]
    BY <1>0, <1>13, <2>1 DEF DestroyFree, Goto, TypeOK
  <2> QED  BY <1>t, <2>1, <2>2, <2>3, <2>4 DEF EndInv
<1> QED  BY <1>1, <1>2, <1>3, <1>4, <1>5, <1>6, <1>7, <1>8, <1>9, <1>10, <1>11, <1>12, <1>13
         DEF Next, Calls, Proceed

\* A queue that only its own thread and the thread that destroys it use is
\* freed when it is quiet: its thread has ended, nobody is inside a call of it
\* and no function of it runs.
THEOREM QuietWhenFreed ==
    ASSUME SoleUser
    PROVE  Spec => []FreedIsQuiet
<1>1. Init => EndInv
  BY DEF Init, EndInv, Threads
<1>2. IndInv /\ EndInv /\ [Next]_vars => EndInv'
  BY EndStep
<1>3. IndInv /\ EndInv => FreedIsQuiet
  BY DEF IndInv, LockDiscipline, EndInv, FreedIsQuiet
<1> QED  BY <1>1, <1>2, <1>3, Invariance, PTL DEF Spec

-----------------------------------------------------------------------------
(* The queue implements the task executor *)

\* At most one function runs, so the running ones are none or the owner's.
LEMMA RunningIs ==
    ASSUME IndInv, NEW t \in Threads, execOwner = t
    PROVE  Running = IF running[t] = NoItem THEN {} ELSE {running[t]}
BY DEF IndInv, LockDiscipline, Running

\* Every step of the queue is a step of the executor or leaves it alone.
LEMMA RefinementStep == IndInv /\ [Next]_vars => [Executor!Next]_(Executor!execVars)
<1> SUFFICES ASSUME IndInv, [Next]_vars
             PROVE  Executor!Next \/ UNCHANGED Executor!execVars
  OBVIOUS
<1> USE DEF IndInv
<1>1. ASSUME UNCHANGED <<queue, submitted, started, running, now>>
      PROVE  UNCHANGED Executor!execVars
  BY <1>1 DEF Executor!execVars, Running
<1>2. CASE Tick
  BY <1>2 DEF Tick, queueVars, threadVars, Executor!Next, Executor!Advance, Running
<1>3. ASSUME NEW t \in Threads, NEW fn \in Funcs, NEW delay \in Delays,
             AddDelayed(t, fn, delay)
      PROVE  Executor!Next
  <2> DEFINE new == [id |-> submitted + 1, fn |-> fn, due |-> ExecuteTime(delay)]
  <2>1. /\ queue' = queue \cup {new} /\ submitted' = submitted + 1
        /\ UNCHANGED <<started, running, now>>
    BY <1>3 DEF AddDelayed
  <2>2. new \in Items
    <3>1. submitted + 1 \in 1..MaxItems /\ ExecuteTime(delay) \in 0..MaxNow
      BY <1>3, ConstantsAssumption DEF AddDelayed, TypeOK, ExecuteTime
    <3> QED  BY <3>1 DEF Items
  <2>3. new.id = submitted + 1
    OBVIOUS
  <2> HIDE DEF new
  <2>4. Executor!Submit(new)
    BY <2>1, <2>3 DEF Executor!Submit, Running
  <2> QED  BY <2>2, <2>4 DEF Executor!Next
<1>4. ASSUME NEW t \in Threads, NEW fn \in Funcs, RemoveByFunction(t, fn)
      PROVE  Executor!Next
  BY <1>4 DEF RemoveByFunction, Executor!Next, Executor!Withdraw, Running
<1>5. ASSUME NEW t \in Threads, GetOne(t)
      PROVE  Executor!Next
  <2>1. PICK i \in queue : /\ FirstDue(i)
                           /\ queue' = queue \ {i}
                           /\ started' = started \cup {i}
                           /\ running' = [running EXCEPT ![t] = i]
    BY <1>5 DEF GetOne
  <2>2. UNCHANGED <<submitted, now>> /\ pc[t] = "x_get"
    BY <1>5 DEF GetOne
  <2>3. i \in Items /\ i # NoItem /\ i \notin started
    BY NoItemAssumption DEF TypeOK, Bookkeeping
  <2>4. execOwner = t /\ running[t] = NoItem
    BY <2>2 DEF LockDiscipline, Holding
  <2>5. Running = {}
    BY <2>4, RunningIs
  <2>6. Running' = {i}
    BY <2>1, <2>3, <2>4 DEF Running, LockDiscipline, TypeOK
  <2>7. Executor!Begin(i)
    BY <2>1, <2>2, <2>3, <2>5, <2>6 DEF Executor!Begin, FirstDue, Due
  <2> QED  BY <2>3, <2>7 DEF Executor!Next
<1>6. ASSUME NEW t \in Threads, FunctionReturn(t)
      PROVE  Executor!Next
  <2>1. /\ running' = [running EXCEPT ![t] = NoItem] /\ pc[t] = "x_run"
        /\ UNCHANGED <<queue, submitted, started, now>>
    BY <1>6 DEF FunctionReturn, queueVars
  <2>2. execOwner = t /\ running[t] # NoItem /\ running[t] \in started
    BY <2>1 DEF LockDiscipline, Holding, Bookkeeping
  <2>3. Running = {running[t]}
    BY <2>2, RunningIs
  <2>4. Running' = {}
    BY <2>1, <2>2 DEF Running, LockDiscipline, TypeOK
  <2>5. Executor!Finish
    BY <2>1, <2>2, <2>3, <2>4 DEF Executor!Finish
  <2> QED  BY <2>5 DEF Executor!Next
<1>7. ASSUME NEW t \in Threads, DestroyFree(t)
      PROVE  Executor!Next
  BY <1>7 DEF DestroyFree, Executor!Next, Executor!Withdraw, Running
<1>8. ASSUME NEW t \in Threads,
             \/ CallExecuteAll(t) \/ NotEmptyAbort(t) \/ SpuriousWakeup(t)
             \/ AddSignal(t) \/ RemoveSignal(t) \/ ExecuteLock(t) \/ GetNone(t)
             \/ ExecuteEnd(t) \/ NotEmptyReturn(t) \/ NotEmptyDecide(t)
             \/ NotEmptyWait(t) \/ WaitTimeout(t) \/ EmptyReached(t) \/ EmptyDecide(t)
             \/ EmptyWait(t) \/ WorkerLoop(t) \/ WorkerExit(t) \/ DestroyWake(t)
             \/ CallWaitUntilEmpty(t) \/ CallWaitAndDestroy(t) \/ CallerResumes(t)
      PROVE  UNCHANGED <<queue, submitted, started, running, now>>
  BY <1>8 DEF CallExecuteAll, NotEmptyAbort, SpuriousWakeup, AddSignal, RemoveSignal,
              ExecuteLock, GetNone, ExecuteEnd, NotEmptyReturn, NotEmptyDecide,
              NotEmptyWait, WaitTimeout, EmptyReached, EmptyDecide, EmptyWait,
              WorkerLoop, WorkerExit, DestroyWake, CallWaitUntilEmpty,
              CallWaitAndDestroy, CallerResumes, queueVars, threadVars
<1>9. UNCHANGED vars => UNCHANGED <<queue, submitted, started, running, now>>
  BY DEF vars
<1> QED  BY <1>1, <1>2, <1>3, <1>4, <1>5, <1>6, <1>7, <1>8, <1>9
         DEF Next, Calls, Proceed

\* The queue, with its threads and locks, implements the task executor: one
\* task at a time, the earliest due one first, each at most once.
THEOREM Refinement == Spec => ImplementsExecutor
<1>1. Init => Executor!Init
  BY DEF Init, Executor!Init, Running
<1> QED  BY <1>1, RefinementStep, Invariance, PTL DEF Spec, ImplementsExecutor, Executor!Spec
=============================================================================
