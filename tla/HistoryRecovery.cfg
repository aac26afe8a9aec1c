SPECIFICATION FairSpec
CONSTANTS
    a = a
    b = b
    ab = ab
    a1 = a1
    a2 = a2
    b1 = b1
    t1 = t1
    t2 = t2
    p1 = p1
    p2 = p2
    x1 = x1
    x2 = x2
    None = None
    Items = {a, b}
    Batches = {ab}
    Files = {a1, a2, b1}
    AllowEmpty = {ab}
    Threads = {t1, t2}
    TxIds = {x1, x2}
    Owner <- MCOwner
    Sidecar <- MCSidecar
    Members <- MCMembers
    Process <- MCProcess
    Size <- MCSize
    MaxSize = 4
    MaxTrash = 6
    MaxVersion = 2
    MaxFaults = 1
    MaxCrashes = 1
    MaxEdits = 1
INVARIANTS
    TrashBounded
PROPERTIES
    NeverDiscards
    InterruptedResolved
