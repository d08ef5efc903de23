SPECIFICATION Spec
CONSTANTS
    Clusters <- MCClusters
    Runs <- MCRuns
    Failures <- MCFailures
    FirstPages <- MCFirstPages
INVARIANTS
    TypeOK
    AbsenceIsReal
    NothingIsLostSilently
    HalfAListInventsNothing
