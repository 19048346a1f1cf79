SPECIFICATION Spec
INVARIANTS
    EitherStartsFirst
CHECK_DEADLOCK FALSE
