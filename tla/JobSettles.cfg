SPECIFICATION FairSpec
CONSTANTS
    j1 = j1
    j2 = j2
    Jobs = {j1, j2}
    Watched = {j1, j2}
    None = None
    Injected = FALSE
    MaxPolls = 2
    MaxFaults = 0
    MaxCrashes = 0
CHECK_DEADLOCK FALSE
PROPERTIES
    Settles
    CancelReachesServer
