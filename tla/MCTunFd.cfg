SPECIFICATION Spec
CONSTANTS
    f1 = f1
    f2 = f2
    Fds <- MCFds
    Free = Free
    Other = Other
    MaxAttempts = 3
INVARIANTS
    OwnedUntilClosed
    DoubleCloseNeedsLateFailure
    StrangersAreSafe
    RunningTunIntact
\* After the last attempt the process may stop.
CHECK_DEADLOCK FALSE
