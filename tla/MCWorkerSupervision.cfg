CONSTANTS
    UnitCount = 4
    Above <- TreeAbove
    Size <- TreeSize
    Ident <- LinkedIdent
    MaxUnitRetries = 0
    MaxWorkerRetries = 1
    BatchSize = 2
    MaxRestarts = 1
SPECIFICATION FairSpec
INVARIANTS
    CandidateOnce
    NothingLost
PROPERTY
    SupervisionEnds
