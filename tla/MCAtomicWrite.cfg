SPECIFICATION Spec
CONSTANTS
    Writers = {"a", "b"}
    MaxWrites = 2
    MaxCrashes = 2
    Windows = FALSE
INVARIANTS
    TypeOK
    NeverTorn
    ConfirmedWritesSurvive
CHECK_DEADLOCK FALSE
