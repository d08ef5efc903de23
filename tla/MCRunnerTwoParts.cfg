SPECIFICATION Spec
CONSTANTS
    None = None
    Codes <- MCCodes
    Resources = {"web"}
    Parts = {"app", "sidecar"}
    RuleOf <- MCRuleOf
    SectionOf <- MCSectionOf
    MetaSection <- MCMetaSection
    Configs <- MCNotifying
    FoundSeverities <- MCIssues
    Acknowledgements <- MCNoAck
    Window = 3
    FlapThreshold = 2
    Retain = 3
    MaxRounds = 3
    MaxUnknown = 1
    MaxOthers = 0
    MaxKills = 0
INVARIANT ReconfirmedIsNotNews
CHECK_DEADLOCK FALSE
