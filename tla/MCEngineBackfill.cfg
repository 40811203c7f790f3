SPECIFICATION Spec
CONSTANTS
    Requests = {1, 2, 3, 4}
    MaxConcurrency = 3
    Capacity = 4
    Demand <- BackfillDemand
    Plan <- BackfillPlan
    MaxRound = 1
    ControlLength = 1
    Cancellable = {}
    Expirable = {2, 4}
INVARIANTS
    DonorsAndBorrowers
    BackfillIsHarmless
    AdmissionFits
CHECK_DEADLOCK FALSE
