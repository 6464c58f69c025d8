SPECIFICATION Spec
CONSTANTS
    LogScore <- LnTable
    Requests = {r1, r2}
    Fees = {10, 160}
    Ledgers = {2}
    Urgencies = {"medium"}
    Caps = {15}
    Published <- Updates
    MinSamples = 2
    HistoryWindow = 1
    ShortWindow = 0
    WaitWindow = 2
    RecentWindow = 0
    Rehydrated <- Databases
    CacheTTL = 2
    MaxPoints = 2
    MaxTime = 2
INVARIANTS
    TypeOK
    FeesTold
    DearerWaitsMore
PROPERTIES
    ColdStartEnds
    AnswersMatch
CONSTRAINT Apart
SYMMETRY Handlers
CHECK_DEADLOCK FALSE
