SPECIFICATION ManagerSpec
CONSTANTS
    MaxSpikes = 3
    SeverityOf <- MCSeverityOf
    AlertThreshold = 2
    Urls = {"u1"}
    Configs <- MCConfigs
    TypeSets <- MCTypeSets
    HistoryLimit = 2
    MaxRestarts = 1
INVARIANTS
    ManagerTypeOK
    SeenBounded
    ActiveIsWorst
    
PROPERTIES
    PostsEdges
CHECK_DEADLOCK FALSE
