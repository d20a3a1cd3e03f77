SPECIFICATION Spec
CONSTANTS
    MaxPresses = 1
    MaxRestarts = 1
    MayRevoke = FALSE
    MayThrow = FALSE
    MayDie = FALSE
INVARIANTS
    EngineIsShownAnew
\* When everything is delivered the app waits for its user.
CHECK_DEADLOCK FALSE
