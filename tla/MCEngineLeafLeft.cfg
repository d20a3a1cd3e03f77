SPECIFICATION Spec
CONSTANTS
    c1 = c1
    c2 = c2
    NoCaller = NoCaller
    Callers <- OneCaller
    MaxSessions = 1
    MaxInflight = 0
    Roles <- BothLeafs
    LeafLatches = TRUE
    MayTimeout = FALSE
INVARIANTS
    StopEndsLeaf
