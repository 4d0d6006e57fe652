SPECIFICATION FairSpec
CONSTANTS
    Funcs = {f}
    Delays = {0, 1}
    Workers = {}
    Pollers = {main, other}
    Callers = {main}
    Waiters = {waiter}
    Destroyers = {}
    NoThread = NoThread
    NoItem = NoItem
    MaxItems = 2
    MaxNow = 2
INVARIANTS
    OneFunctionAtATime
    NeverOvertaken
PROPERTIES
    ImplementsExecutor
    PostedWorkIsPerformed
    WaitUntilEmptyReturns
