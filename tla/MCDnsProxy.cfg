SPECIFICATION DnsFairSpec
CONSTANTS
    MaxQueries = 3
    MayFail = TRUE
INVARIANTS
    RepliesAreOwn
PROPERTIES
    QueriesEnd
\* All queries have been asked and dealt with.
CHECK_DEADLOCK FALSE
