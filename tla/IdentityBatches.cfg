SPECIFICATION FairSpec
CONSTANTS
    Batches = {1, 2}
    Items = {1, 2}
    Keys = {"k"}
    None = None
    MaxFaults = 1
    MaxCrashes = 1
CHECK_DEADLOCK FALSE
INVARIANTS SeenStays CompleteIsWhole
PROPERTIES PromiseKept Settles
