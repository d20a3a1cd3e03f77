SPECIFICATION SocksFairSpec
CONSTANTS
    MaxData = 1
PROPERTIES
    CancelEndsConnection
\* The connection has ended.
CHECK_DEADLOCK FALSE
