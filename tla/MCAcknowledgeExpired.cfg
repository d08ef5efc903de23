CONSTANTS
    Resources = {"cfg", "podA", "podB", "rs", "deploy", "job"}
    Graphs <- MCGraphs
    Deployments = {"deploy", "job"}
    ReplicaSets = {"rs"}
    MayDegrade = {"deploy"}
    Findings <- MCFindings
    Trends <- MCTrends
    Baselines <- MCBaselines
    MaxRank = 7
    LastDay = 1
SPECIFICATION Spec
INVARIANT SymptomsAlwaysFollow
