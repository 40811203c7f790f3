SPECIFICATION FairSpec
CONSTANTS
    Prompt = 5
    MaxCaptures = 2
    MaxRewrites = 2
    MaxPlanned = 2
    MaxItems = 2
    Chunk = 2
    MaxGenerated = 3
    Plans <- MCPlans
INVARIANTS
    UnitsAreProjected
    CapturesAtTheirFrontier
    ChunkHasItsEmbeddings
    
PROPERTIES
    EncodesLivePayload
    PrefillCompletes
CHECK_DEADLOCK FALSE
