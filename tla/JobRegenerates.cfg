SPECIFICATION Spec
CONSTANTS
    j1 = j1
    j2 = j2
    Jobs = {j1, j2}
    Watched = {j1, j2}
    None = None
    Injected = FALSE
    MaxPolls = 1
    MaxFaults = 0
    MaxCrashes = 0
CHECK_DEADLOCK FALSE
INVARIANTS
    AcceptedIsNotRegenerated
