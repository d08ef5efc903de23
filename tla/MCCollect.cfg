\* Two collections of one process, with the goroutines weakly fair.
SPECIFICATION FairSpec
CONSTANTS
    NoView = NoView
    Keys <- MCKeys
    Optional <- MCOptional
    NumVersions = 2
    Workers = 2
    MaxPages = 2
    WarningTexts = {"deprecated"}
    MaxDate = 2
    MaxRounds = 2
INVARIANTS
    TypeOK
    AvailableMeansWhole
    FailuresAreIsolated
PROPERTIES
    RecordersServeTheirRound
    CollectReturns
    ImplementsClusterView
CHECK_DEADLOCK FALSE
