SPECIFICATION FairSpec
CONSTANTS
    d1 = d1
    d2 = d2
    Sentinel = Sentinel
    Nobody = Nobody
    Detectors = {d1, d2}
    MaxJobs = 3
    EmbedSize = 2
    PersistSize = 1
CHECK_DEADLOCK FALSE
INVARIANT
    CleanShutdown
PROPERTIES
    KeepsLine
    StopReturns
    EveryCaptureEnds
