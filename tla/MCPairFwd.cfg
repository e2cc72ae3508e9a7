SPECIFICATION Spec
CONSTANTS
    PortCounts <- MCPortCounts
    BurstSize = 3
    MbufsPerPort = 1
    ReportAfter = 1
    RxQueueSize = 3
    MaxFrames = 4
    MaxTsc = 3
CHECK_DEADLOCK FALSE
INVARIANTS
    MbufConservation
    PeerStarted
    AverageOfWindow
PROPERTY
    PortsServed
