SPECIFICATION Spec
CONSTANTS
    a = a
    b = b
    c = c
    Requests = {r1, r2}
    Keys = {a, b, c}
    Bytes <- MCBytes
    PartLists <- AnyBudget
    LiveLimit = 4
    RetainLimit = 2
    MaxRequestBytes = 2
    Threads = 2
    QueueCapacity = 1
    Signals = {"timeout"}
    Rejectable = {}
SYMMETRY Symmetry
INVARIANTS
    OneFlightPerKey
    NoDanglingBuilder
    PromptHasItsMedia
    NoPayloadLeak
CHECK_DEADLOCK FALSE
