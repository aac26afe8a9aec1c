SPECIFICATION FairSpec
CONSTANTS
    Children = {1, 2}
    Servers = {1, 2}
    None = None
    MaxTasks = 3
    MaxFaults = 1
    MaxCrashes = 1
CHECK_DEADLOCK FALSE
INVARIANTS
    Exclusive
    RendersOnce
    AnswerIsOwn
    QuietWhenClosed
PROPERTIES
    ForeignUntouched
    CloseReturns
