SPECIFICATION Spec
CONSTANTS
    c1 = c1
    c2 = c2
    NoCaller = NoCaller
    Callers <- OneCaller
    MaxSessions = 1
    MaxInflight = 1
    Roles <- BothLeafs
    LeafLatches = TRUE
    MayTimeout = FALSE
INVARIANTS
    StopFreesDnsPort
