SPECIFICATION FairSpec
CONSTANTS
    MaxPort = 3
    FirstRandom = 1
    LastRandom = 2
    Situations <- MCSituations
INVARIANTS
    TypeOK
    ResultsTellTheTruth
    WarningsAreObservations
PROPERTIES
    ChecksEnd
    NothingIsLeftBehind
CHECK_DEADLOCK FALSE
