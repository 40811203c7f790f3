SPECIFICATION Spec
CONSTANTS
    Images <- MCFewImages
    DevSlots <- MCFewDevSlots
    HostSlots <- MCHostSlots
    None = None
    MaxRefs = 2
    Conts = {c1, c2, c3}
    SharedSlots = {x1}
    Lanes = 2
    MaxPos = 2
    MaxCopies = 2
CHECK_DEADLOCK FALSE
INVARIANTS
    
    CheckpointsIntact
    LanesReadTheirFrontier
    ImagesOwned
    StopReleasesAll
    StoreSound

    
SYMMETRY Interchangeable
