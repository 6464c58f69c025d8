SPECIFICATION GatewaySpec
CONSTANTS
    Requests = {r1, r2}
    Clients = {c1, c2}
    Rate = 2
    Period = 3
    StaleAfter = 3
    MapLimit = 1
    MaxTime = 5
    MaxPolls = 3
    HistoryLimit = 2
    Environments <- MCEnvironments
    Asks <- MCAsks
    Pages <- MCPages
SYMMETRY Symmetry
CONSTRAINT Apart
INVARIANTS
    WithinRate
    RetryAfterSuffices
    
CHECK_DEADLOCK FALSE
