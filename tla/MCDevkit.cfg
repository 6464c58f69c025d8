CONSTANTS
    Callers = {c1, c2, c3}
    Capacity = 2
    FailureThreshold = 2
    SuccessThreshold = 2
    Cooldown = 1
    MaxCalls = 5
    MaxTime = 3
    NextRng <- MCNext
    Unit <- MCUnit
    Scale = 4
    FeeConfigs <- MCFeeConfigs
    LoadConfigs <- MCLoadConfigs
    Start = 7
    FixtureFees = {1, 4}
    Spreads <- MCSpreads
    MaxLength = 3
    Points <- MCPoints
    Far = 8
    ZSquared = 1
    DefaultFee = 5
    Bins = {1, 3}
    MaxPoints = 3
    LogConfigs <- MCLogConfigs
    LineSizes = {1, 2}
    MaxLines = 4
    MaxRotations = 2
    MaxStamp = 2
    ErrorReports <- MCReports
    Names = {n1, n2}
    Deltas = {1, 3, 6}
    BucketBounds = {1, 5}
    AnalysisJobs <- MCAnalysisJobs
    SimulationJobs <- MCSimulationJobs
    Most = 99
    MaxReports = 3
    MaxJobs = 3
    Keys = {k1}
    Values = {1}
    Headers <- MCHeaders
    NoHeader = NoHeader
    Watched = {w1, w2}
    PathChecks = {disk}
    PassingChecks = {memory}
    FailingChecks = {ping}
    MaxChecks = 3
    MaxIds = 3
    MaxContexts = 3
    MaxClock = 4
    MaxChildren = 2
SPECIFICATION Spec
SYMMETRY Alike
CONSTRAINTS
    Short
    OneAtATime
    Averages
CHECK_DEADLOCK FALSE
INVARIANTS
    TypeOK
    BulkheadSound
    BreakerSound
    Replays
    
    DataTold
    
