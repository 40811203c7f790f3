SPECIFICATION GenerationSpec
CONSTANTS
    ControlLength = 2
    MaxRound = 3
    MaxUnits = 2
    MaxOutput = 8
    MaxThinking = 4
    Plans <- MCPlans
INVARIANTS
    WorkCovers
    DecodeIsLicensed
    ControlSuffixFits
    ThinkingIsCapped
CHECK_DEADLOCK FALSE
