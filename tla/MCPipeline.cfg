SPECIFICATION FairSpec
CONSTANTS
    Ports = {p1, p2}
    NoPort = NoPort
    Apps = {own, app}
    Own = own
    MaxSessions = 2
    PtChecksAuth = FALSE
    BridgeCarried = TRUE
INVARIANTS
    ServingNeedsExemption
    ChainIsWhole
PROPERTY
    BringUpSettles
