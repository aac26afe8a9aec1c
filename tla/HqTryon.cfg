CONSTANTS
    Plain = {p}
    Tryon = {h}
    Repairing = {h}
    None = None
    Threads = 2
    MaxFaults = 1
    MaxCrashes = 1
SPECIFICATION Spec
CHECK_DEADLOCK FALSE
INVARIANTS OneAttempt HistoryHonest
PROPERTIES Settles
