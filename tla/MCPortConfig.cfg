SPECIFICATION Spec
CONSTANTS
    MaxEthPorts = 4
    MaxLcore = 3
    MaxRxQueue = 3
    MaxTimerPeriod = 60
    PoolMin = 8
    PortMbufs = 4
    CacheSize = 2
    DevSets <- MCDevSets
    LcoreSets <- MCLcoreSets
    MaskArgs <- MCMaskArgs
    NqueueArgs <- MCNqueueArgs
    TimerArgs <- MCTimerArgs
    PortmapArgs <- MCPortmapArgs
INVARIANTS
    TypeOK
    DstInvolution
    EachPortPolledOnce
    TxBufferSingleWriter
    TargetsStarted
    RxListFits
    PoolCoversCaches
CHECK_DEADLOCK FALSE
PROPERTY
    StartupEnds
