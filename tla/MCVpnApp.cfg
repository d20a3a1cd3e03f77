SPECIFICATION Spec
CONSTANTS
    MaxPresses = 3
    MaxRestarts = 1
    MayRevoke = TRUE
    MayThrow = TRUE
    MayDie = TRUE
INVARIANTS
    ConnectedIsTrue
    EngineIsShown
    EngineHasService
    DisconnectHolds
    RevokedIsOff
    CallsAnsweredOnce
    CallsAreNotLost
\* When everything is delivered the app waits for its user.
CHECK_DEADLOCK FALSE
