CONSTANTS
    Paths <- BothPaths
    IdleLimit = 3
    PipeCapacity = 1
SPECIFICATION FairAttempt
INVARIANTS
    KillAttributed
    NothingLeftBehind
    RestartableKillsOwnChild
PROPERTIES
    StallIsQuiet
    AttemptEnds
