\* Six events, batches of at most two, one marker kept: a batch can be
\* partial, full, or followed by a backlog, and every fold prunes.
CONSTANTS
    MaxEvents = 6
    Limit = 2
    KeepBatches = 1
SPECIFICATION FairSpec
INVARIANTS
    TypeOK
    CountedInOrder
    NothingLost
    FoldedRowsAreMarked
    AtMostOneInFlight
    MarkerFresh
    AckDeletesTheBatch
PROPERTIES
    RecoverySound
    LedgerSpec
    BacklogDrains
