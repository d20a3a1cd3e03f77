SPECIFICATION Spec
CONSTANTS
    MaxPresses = 2
    MaxRestarts = 0
    MayRevoke = FALSE
    MayThrow = FALSE
    MayDie = FALSE
INVARIANTS
    DisconnectIsFinal
\* When everything is delivered the app waits for its user.
CHECK_DEADLOCK FALSE
