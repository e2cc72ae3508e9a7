SPECIFICATION Spec
CONSTANTS
    Outside = Outside
    Ports <- MCPorts
    Lcores <- MCLcores
    Main = 0
    Dst <- MCDst
    Layouts <- MCLayoutTables
    Peer <- MCPeer
    BurstSize = 2
    NbMbufs = 3
    RxQueueSize = 3
    MaxFrames = 4
    MAX_CHECK_TIME = 2
    MacUpdating = TRUE
INVARIANTS
    MbufConservation
    StatsBalance
    EncryptedOnce
    NoLoopOnClosedPort
PROPERTIES
    ImplementsLossyFifo
    TrafficSettles
    SignalEndsProgram
