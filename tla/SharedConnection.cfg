CONSTANTS
    Thread = {t1, t2, t3}
    Statements = 2
SPECIFICATION Spec
INVARIANTS
    TypeOK
    AllOrNothing
    OneTransactionAtATime
PROPERTIES
    EveryCallEnds
CHECK_DEADLOCK FALSE
