SPECIFICATION FairSpec
CONSTANTS
    c1 = c1
    c2 = c2
    NoCaller = NoCaller
    Callers <- OneCaller
    MaxSessions = 2
    MaxInflight = 1
    Roles <- MainLeaf
    LeafLatches = TRUE
    MayTimeout = FALSE
INVARIANTS
    NoOrphan
    StoppedIsReaped
    PathServed
PROPERTIES
    CancelWindsDown
