CONSTANTS
    k1 = k1
    k2 = k2
    k3 = k3
    NoFile = NoFile
    Keys <- MCThreeKeys
    MaxRejections = 1
    MaxStops = 2
    MaxHostStops = 2
SPECIFICATION FairSpec
INVARIANTS
    OutputAccountedFor
    PublishedDurableInOneRun
PROPERTIES
    LedgerPublishesOnce
    EveryItemDisposed
