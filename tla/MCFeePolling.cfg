SPECIFICATION Spec
CONSTANTS
    MaxTx = 6
    LedgerOf <- MCLedgerOf
    LedgerSize = 2
    Dropped <- MCDropped
    Malformed <- MCMalformed
    FetchLimit = 2
    Capacity = 3
    MaxAttempts = 2
    RestoreSpan = 2
    Retention = 2
    MaxCrashes = 2
INVARIANTS
    TypeOK
    PageRemembered
    StoredIsSaved
    NothingSkipped
PROPERTIES
    IngestsOnce
    PollEnds
    CatchesUp
CHECK_DEADLOCK FALSE
