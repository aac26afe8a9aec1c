SPECIFICATION Spec
CONSTANTS
    j1 = j1
    j2 = j2
    Jobs = {j1, j2}
    Watched = {j1}
    None = None
    Injected = FALSE
    MaxPolls = 1
    MaxFaults = 1
    MaxCrashes = 1
CHECK_DEADLOCK FALSE
INVARIANTS
    TypeOK
    ToldIsDurable
    CompleteHasOutput
PROPERTIES
    OutcomeIsFinal
    NoStartAfterCancel
