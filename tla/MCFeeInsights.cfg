SPECIFICATION Spec
CONSTANTS
    SpikeMultiplier = 1
    MinSpike = 1
    Fees = {0, 1, 9}
    Short = 1
    Medium = 2
    Long = 4
    MinSamples <- Samples
    StaleAfter = 1
    BufferSize = 3
    CongestionWindow = 2
    TrackingPeriod = 3
    MaxBatch = 2
    MaxPoints = 4
    MaxTime = 4
INVARIANTS
    WindowsSound
    ExtremesBound
    
PROPERTIES
    DetectsRuns
CHECK_DEADLOCK FALSE
