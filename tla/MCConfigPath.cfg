SPECIFICATION Spec
CONSTANTS
    MaxOddities = 2
INVARIANTS
    ImportSurvives
    CountryArrives
    EngineRunsUpstream
    OptionalIsOptional
\* A document the app rejects ends there, but for relaunches.
CHECK_DEADLOCK FALSE
