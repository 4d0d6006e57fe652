SPECIFICATION FairSpec
CONSTANTS
    Funcs = {f, g}
    Delays = {0, 1}
    Workers = {w}
    Pollers = {}
    Callers = {main}
    Waiters = {main}
    Destroyers = {main}
    NoThread = NoThread
    NoItem = NoItem
    MaxItems = 3
    MaxNow = 2
INVARIANTS
    TypeOK
    WaitUntilEmptyWaits
    FreedIsQuiet
PROPERTIES
    DestroyReturns
CHECK_DEADLOCK FALSE
