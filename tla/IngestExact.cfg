CONSTANTS
    MaxSends = 2
    Limit = 2
SPECIFICATION Spec
INVARIANTS
    FinalIsExact
CHECK_DEADLOCK FALSE
