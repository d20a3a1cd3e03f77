SPECIFICATION FairSpec
CONSTANTS
    Starts = {a1, a2, a3}
    Stops = {s1, s2}
    Threads = {t1, t2}
    None = None
    MaxKills = 1
INVARIANTS
    ReportedErrorIsOwn
    AnswersAreTrue
PROPERTY
    ImplementsContract
CHECK_DEADLOCK FALSE
