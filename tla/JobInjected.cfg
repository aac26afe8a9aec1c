SPECIFICATION FairSpec
CONSTANTS
    j1 = j1
    j2 = j2
    Jobs = {j1, j2}
    Watched = {j1, j2}
    None = None
    Injected = TRUE
    MaxPolls = 0
    MaxFaults = 1
    MaxCrashes = 0
CHECK_DEADLOCK FALSE
INVARIANTS
    CancelWaitsForRunner
PROPERTIES
    CancelReturns
    QueueDrains
