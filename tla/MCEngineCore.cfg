SPECIFICATION FairSpec
CONSTANTS
    Requests = {1, 2, 3}
    MaxConcurrency = 2
    Capacity = 4
    Demand <- QueueDemand
    Plan <- QueuePlan
    MaxRound = 2
    ControlLength = 1
    Cancellable = {1}
    Expirable = {}
INVARIANTS
    OneOwner
    RecordsAgree
    NoCancelledRow
    AdmissionSeesLiveWork
PROPERTIES
    ImplementsGeneration
    EventuallyAnswered
CHECK_DEADLOCK FALSE
