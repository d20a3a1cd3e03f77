SPECIFICATION Spec
CONSTANTS
    Starts = {a1}
    Stops = {s1}
    Threads = {t1}
    None = None
    MaxKills = 0
INVARIANT
    StopIsFinal
CHECK_DEADLOCK FALSE
