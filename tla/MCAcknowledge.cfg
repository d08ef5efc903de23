CONSTANTS
    Resources = {"cfg", "podA", "podB", "rs", "deploy", "job"}
    Graphs <- MCGraphs
    Deployments = {"deploy", "job"}
    ReplicaSets = {"rs"}
    MayDegrade = {"deploy"}
    Findings <- MCFindings
    Trends <- MCTrends
    Baselines <- MCBaselines
    MaxRank = 7
    LastDay = 2
SPECIFICATION Spec
INVARIANTS
    TypeOK
    OnlyThroughAnApproval
    ApprovalStaysInItsWorkloads
    SymptomsFollowTheirCause
PROPERTY SecondPassKeepsTheFirst
