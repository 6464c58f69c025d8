CONSTANTS
    Handlers = {h1, h2}
    Thresholds = {"Minor", "Major"}
    AlertTypes = {"spike", "recovery"}
    Omitted = Omitted
    Invalid = Invalid
    KeyRequired = TRUE
    Bodies <- SomeBodies
    MaxConfigs = 2
    Ledgers = {l1, l2}
    Stats = {cheap, dear}
    MaxAttempts = 2
    Retention = 1
    MaxTime = 3
    Alerts <- SomeAlerts
    Tries = 2
    Severities = {"Minor", "Major"}
    AlertKinds = {"spike", "recovery"}
    AnyValue = AnyValue
    Filters <- SomeFilters
    Readers = {r1}
    Limits = {0, 5}
    MaxLimit = 1
    Panels = {"history", "current"}
    Windows = {"1h", "6h"}
    FirstWindow = "1h"
    Slots = {s1, s2}
    MaxVersion = 1
    Confidences = {90, 95}
    Demands = {cautious, hasty}
    FirstDemand = cautious
    MaxRequests = 2
SPECIFICATION Spec
SYMMETRY Alike
CONSTRAINT Apart
INVARIANTS
    TypeOK
    SnapshotsLatest
    
PROPERTIES
    
    PageTells
