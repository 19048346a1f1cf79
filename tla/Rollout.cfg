SPECIFICATION Spec
INVARIANTS
    TypeOK
    MigrationCheckHolds
    ServingMeansSchema

    
CHECK_DEADLOCK FALSE
