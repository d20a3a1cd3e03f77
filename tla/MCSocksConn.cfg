SPECIFICATION SocksFairSpec
CONSTANTS
    MaxData = 2
INVARIANTS
    DialsAreAuthenticated
    ReplyOutlivesHalfClose
PROPERTIES
    CancelEndsPumps
    TorEofReachesClient
\* The connection has ended.
CHECK_DEADLOCK FALSE
