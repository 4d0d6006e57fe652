---------------------------- MODULE Notifications ----------------------------
(***************************************************************************)
(* Notifications.c: events that any thread fires and that the program's    *)
(* main loop hands to their listeners.  One recursive mutex guards it all; *)
(* it is held while the listeners run, and a listener may fire events and  *)
(* add listeners itself.                                                   *)
(***************************************************************************)
EXTENDS Integers, Sequences, SequencesExt

CONSTANTS
    EventNames,     \* the names of the events
    Listeners,      \* the functions that listen
    NoteThreads,    \* the threads that call
    NoThread,       \* the mutex is free
    MaxFired,       \* bound on the events fired
    MaxListeners    \* bound on the functions that listen to one event

ASSUME NotificationsAssumption == NoThread \notin NoteThreads

VARIABLES
    funcs,          \* note.funcs: the listeners of each name, in order
    toCall,         \* note.workQueue: <<name, listener>> in order
    queuedNames,    \* note.queuedNotificationNames
    noteOwner,      \* the thread that holds note.mutex to process events
    drained,        \* its WorkQueueExecuteAll has found the queue empty
    fired           \* the events fired so far

noteVars == <<funcs, toCall, queuedNames, noteOwner, drained, fired>>

NoteInit ==
    /\ funcs = [n \in EventNames |-> <<>>]
    /\ toCall = <<>>
    /\ queuedNames = <<>>
    /\ noteOwner = NoThread
    /\ drained = FALSE
    /\ fired = 0

\* The mutex is recursive: its owner, inside a listener, passes.  A slip: it is
\* not taken.
AnyoneEnters(t) == t \in NoteThreads
MayEnter(t) == noteOwner = NoThread \/ (noteOwner = t /\ ~drained)

NotificationsFire(t, n) ==
    /\ MayEnter(t)
    /\ fired < MaxFired
    /\ fired' = fired + 1
    /\ queuedNames' = Append(queuedNames, n)
    /\ toCall' = toCall \o [i \in 1..Len(funcs[n]) |-> <<n, funcs[n][i]>>]
    /\ UNCHANGED <<funcs, noteOwner, drained>>

NotificationsAddListener(t, n, f) ==
    /\ MayEnter(t)
    /\ Len(funcs[n]) < MaxListeners
    /\ funcs' = [funcs EXCEPT ![n] = Append(@, f)]
    /\ UNCHANGED <<toCall, queuedNames, noteOwner, drained, fired>>

\* NotificationsProcess: lock, perform the queued calls and those that are
\* added meanwhile, and take the names.
ProcessBegin(t) ==
    /\ noteOwner = NoThread
    /\ noteOwner' = t
    /\ UNCHANGED <<funcs, toCall, queuedNames, drained, fired>>
ProcessCall(t) ==
    /\ noteOwner = t /\ ~drained
    /\ toCall # <<>>
    /\ toCall' = Tail(toCall)
    /\ UNCHANGED <<funcs, queuedNames, noteOwner, drained, fired>>
ProcessDrained(t) ==
    /\ noteOwner = t /\ ~drained
    /\ toCall = <<>>
    /\ drained' = TRUE
    /\ UNCHANGED <<funcs, toCall, queuedNames, noteOwner, fired>>
ProcessReturn(t) ==
    /\ noteOwner = t /\ drained
    /\ queuedNames' = <<>>
    /\ noteOwner' = NoThread
    /\ drained' = FALSE
    /\ UNCHANGED <<funcs, toCall, fired>>

NoteNext ==
    \E t \in NoteThreads :
        \/ \E n \in EventNames : NotificationsFire(t, n)
        \/ \E n \in EventNames, f \in Listeners : NotificationsAddListener(t, n, f)
        \/ ProcessBegin(t)
        \/ ProcessCall(t)
        \/ ProcessDrained(t)
        \/ ProcessReturn(t)

NoteSpec == NoteInit /\ [][NoteNext]_noteVars

-----------------------------------------------------------------------------
\* NotificationsProcessReturningEventNames tells the program what has happened:
\* when it returns a name, every listener of that event has run.  While a call
\* is outstanding its name is still queued.
ReturnedNamesWereHeard == \A i \in DOMAIN toCall : Contains(queuedNames, toCall[i][1])
=============================================================================
