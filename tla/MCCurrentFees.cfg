SPECIFICATION Spec
CONSTANTS
    Clients = {c1, c2, c3}
    Ttl = 1
    FetchTimeout = 1
    MaxTime = 3
INVARIANTS
    TypeOK
    ServedFresh
PROPERTIES
    OneFetchPerTtl
    RequestEnds
CHECK_DEADLOCK FALSE
