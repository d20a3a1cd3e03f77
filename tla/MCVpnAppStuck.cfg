SPECIFICATION Spec
CONSTANTS
    MaxPresses = 1
    MaxRestarts = 0
    MayRevoke = FALSE
    MayThrow = FALSE
    MayDie = FALSE
INVARIANTS
    ConnectingEnds
\* When everything is delivered the app waits for its user.
CHECK_DEADLOCK FALSE
