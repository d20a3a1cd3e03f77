SPECIFICATION FairSpec
CONSTANTS
    c1 = c1
    Clients <- OneClient
    MaxSessions = 1
    MaxPipe = 1
PROPERTIES
    CancelClosesClients
\* After the last session and its clients the server has nothing to do.
CHECK_DEADLOCK FALSE
