CONSTANTS
    Modes <- BothModes
    Parts = 2
    MaxSignals = 2
    MaxFailures = 2
SPECIFICATION FairSpec
INVARIANTS
    SuccessIsEarned
PROPERTIES
    ParsedOnce
    SplitFinishes
