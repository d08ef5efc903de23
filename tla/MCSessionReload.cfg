SPECIFICATION Spec
CONSTANTS
    DefaultFile = "k8s-diagnose.ini"
    Canonical <- MCCanonical
    Home <- MCHome
    Inode <- MCInode
    Entry <- MCEntry
    Entries <- EditorEntries
    MaxSaves = 4
    Pods <- MCPods
    NamespaceMatches <- MCNamespaceMatches
    NameMatches <- MCNameMatches
    Height = 23
    Alternate = TRUE
    Starts <- EditorStarts
    SavedStates <- MCSavedStates
    InNamespace <- MCInNamespace
    Restless = {4}
    MaxChanges = 2
INVARIANT
    SavedFileLoads
