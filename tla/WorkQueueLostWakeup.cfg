SPECIFICATION FairSpec
CONSTANTS
    Funcs = {f}
    Delays = {0}
    Workers = {w}
    Pollers = {}
    Callers = {main}
    Waiters = {}
    Destroyers = {}
    NoThread = NoThread
    NoItem = NoItem
    MaxItems = 1
    MaxNow = 1
PROPERTIES
    PostedWorkIsPerformed
CHECK_DEADLOCK FALSE
