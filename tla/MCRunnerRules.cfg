SPECIFICATION FairSpec
CONSTANTS
    None = None
    Codes <- MCTwoCodes
    Resources = {"web"}
    Parts = {"app"}
    RuleOf <- MCTwoRuleOf
    SectionOf <- MCTwoSectionOf
    MetaSection <- MCTwoMetaSection
    Configs <- MCConfigs
    FoundSeverities <- MCIssues
    Acknowledgements <- MCNoAck
    Window = 3
    FlapThreshold = 2
    Retain = 3
    MaxRounds = 2
    MaxUnknown = 1
    MaxOthers = 1
    MaxKills = 1
INVARIANT ResolvedMeansEvaluated
PROPERTY InterruptEndsTheRun
CHECK_DEADLOCK FALSE
