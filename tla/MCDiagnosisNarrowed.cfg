SPECIFICATION Spec
CONSTANTS
    Clusters <- MCClusters
    Runs <- MCRuns
    Failures <- MCFailures
    FirstPages <- MCFirstPages
INVARIANT
    NarrowedSelectorsAreJudgedFairly
