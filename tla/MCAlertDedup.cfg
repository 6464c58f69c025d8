SPECIFICATION ManagerSpec
CONSTANTS
    MaxSpikes = 3
    SeverityOf <- MCSeverityOf
    AlertThreshold = 2
    Urls = {"u1"}
    Configs <- MCConfigs
    TypeSets <- MCTypeSets
    HistoryLimit = 2
    MaxRestarts = 0
PROPERTY DispatchedOnce
CHECK_DEADLOCK FALSE
