CONSTANTS
    MaxSends = 4
    Limit = 2
SPECIFICATION Spec
INVARIANTS
    TypeOK
    CountersBracket
    CleanFinalIsExact
PROPERTIES
    StopIsObeyed
CHECK_DEADLOCK FALSE
