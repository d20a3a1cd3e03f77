SPECIFICATION DnsFairSpec
CONSTANTS
    MaxQueries = 3
    MayFail = FALSE
PROPERTIES
    ReceivedIsAnswered
\* All queries have been asked and dealt with.
CHECK_DEADLOCK FALSE
