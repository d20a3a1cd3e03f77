SPECIFICATION Spec
CONSTANTS
    MaxOddities = 1
INVARIANTS
    ParsedStarts
\* A document the app rejects ends there, but for relaunches.
CHECK_DEADLOCK FALSE
