SPECIFICATION Spec
CONSTANTS
    MaxOddities = 1
INVARIANTS
    ParsersAgree
\* A document the app rejects ends there, but for relaunches.
CHECK_DEADLOCK FALSE
