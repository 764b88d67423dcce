CONSTANTS
    Messages = 5
    Sizes <- MCSizes
    Overhead = 1
    FirstOverhead = 2
    maximum_pst_bytes = 8
    FarDivisor = 2
    NearDivisor = 4
    MAX_BATCH_MESSAGES = 3
    MaxStops = 1
SPECIFICATION FairSpec
INVARIANTS
    PartsAsReference
PROPERTY SplitEnds
