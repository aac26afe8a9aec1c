SPECIFICATION Spec
CHECK_DEADLOCK FALSE
CONSTANTS
    Plain = {p}
    Tryon = {h}
    Repairing = {h}
    None = None
    Threads = 2
    MaxFaults = 1
    MaxCrashes = 1
INVARIANT FailureNotHidden
