SPECIFICATION FairSpec
CONSTANTS
    Requests = {r1, r2, r3}
    MaxOutstanding = 2
    NoRequest = NoRequest
INVARIANTS
    CapacityConserved
    NoOrphan
PROPERTIES
    ImplementsGate
    FailureAnswersAll
    CapacityReturns
CHECK_DEADLOCK FALSE
