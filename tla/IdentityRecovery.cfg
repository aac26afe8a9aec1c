SPECIFICATION Spec
CONSTANTS
    Batches = {1, 2}
    Items = {1}
    Keys = {"k"}
    None = None
    MaxFaults = 3
    MaxCrashes = 2
CHECK_DEADLOCK FALSE
INVARIANTS ConfirmedStays
