SPECIFICATION ReaderFairSpec
CONSTANTS
    QueueSize = 3
    EveryN = 2
    MinDelay = 1
    MaxDelay = 6
    MaxFrames = 7
CHECK_DEADLOCK FALSE
INVARIANTS
    ReaderTypeOK
    HoldsNewest
    InOrder
PROPERTIES
    NeverBlocked
    StopEnds
