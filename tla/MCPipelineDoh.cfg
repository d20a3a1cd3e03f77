SPECIFICATION Spec
CONSTANTS
    Ports = {p1, p2}
    NoPort = NoPort
    Apps = {own, app}
    Own = own
    MaxSessions = 1
    PtChecksAuth = FALSE
    BridgeCarried = TRUE
PROPERTY
    DohRidesTheTunnel
