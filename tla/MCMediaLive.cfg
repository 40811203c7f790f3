SPECIFICATION FairSpec
CONSTANTS
    a = a
    b = b
    c = c
    Requests = {r1, r2, r3}
    Keys = {a, b, c}
    Bytes <- MCBytes
    PartLists <- WithinBudget
    LiveLimit = 2
    RetainLimit = 2
    MaxRequestBytes = 2
    Threads = 1
    QueueCapacity = 1
    Signals = {}
    Rejectable = {r3}
INVARIANTS
    CacheAgrees
PROPERTIES
    PreparationEnds
CHECK_DEADLOCK FALSE
