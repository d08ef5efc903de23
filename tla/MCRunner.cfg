SPECIFICATION Spec
CONSTANTS
    None = None
    Codes <- MCCodes
    Resources = {"web"}
    Parts = {"app"}
    RuleOf <- MCRuleOf
    SectionOf <- MCSectionOf
    MetaSection <- MCMetaSection
    Configs <- MCConfigs
    FoundSeverities <- MCBoth
    Acknowledgements <- MCAck
    Window = 3
    FlapThreshold = 2
    Retain = 4
    MaxRounds = 3
    MaxUnknown = 1
    MaxOthers = 1
    MaxKills = 1
INVARIANTS
    TypeOK
    NotAnnouncedAgain
    NothingNewIsMissed
    EvidenceComesFirst
    FlapsAreChanges
    ExitStatusTellsWhy
CHECK_DEADLOCK FALSE
