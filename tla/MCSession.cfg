SPECIFICATION FairSpec
CONSTANTS
    DefaultFile = "k8s-diagnose.ini"
    Canonical <- MCCanonical
    Home <- MCHome
    Inode <- MCInode
    Entry <- MCEntry
    Entries <- MCEntries
    MaxSaves = 2
    Pods <- MCPods
    NamespaceMatches <- MCNamespaceMatches
    NameMatches <- MCNameMatches
    Height = 23
    Alternate = TRUE
    Starts <- MCStarts
    SavedStates <- MCSavedStates
    InNamespace <- MCInNamespace
    Restless = {4}
    MaxChanges = 2
INVARIANTS
    TypeOK
    ReplayStaysOffline
    ReplayShowsTheRunThatSavedIt
    InputsSurvive
    ChoiceIsKept
    ChoiceIsOnScreen
    ProfilesAlwaysApply
    SavedIsWhatRuns
PROPERTY
    ScreensEndWithTheInput
