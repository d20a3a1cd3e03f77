SPECIFICATION SocksFairSpec
CONSTANTS
    MaxData = 1
PROPERTIES
    ClientEofEnds
\* The connection has ended.
CHECK_DEADLOCK FALSE
