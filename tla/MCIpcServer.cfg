SPECIFICATION FairSpec
CONSTANTS
    c1 = c1
    Clients <- OneClient
    MaxSessions = 2
    MaxPipe = 2
INVARIANTS
    OldTokensAreDead
    OnlyHoldersAreServed
PROPERTIES
    HandlersEnd
\* After the last session and its clients the server has nothing to do.
CHECK_DEADLOCK FALSE
