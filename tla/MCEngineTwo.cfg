SPECIFICATION FairSpec
CONSTANTS
    c1 = c1
    c2 = c2
    NoCaller = NoCaller
    Callers <- TwoCallers
    MaxSessions = 2
    MaxInflight = 0
    Roles <- NoLeaf
    LeafLatches = FALSE
    MayTimeout = TRUE
INVARIANTS
    OneLiveSession
PROPERTIES
    ImplementsSessionSlot
    CallsReturn
    CancelWindsDown
