SPECIFICATION Spec
CONSTANTS
    Outside = Outside
    Ports <- MCPorts
    IoLcores <- MCOneIo
    RxPortList <- MCBothPorts
    Workers = {0, 1}
    Dst <- MCDst
    Peer <- MCPeer
    BurstSize = 2
    RingSizes = {1, 3}
    NbMbufs = 3
    RxQueueSize = 3
    MaxFrames = 3
INVARIANTS
    MbufConservation
    RingsNeverDrop
    MarksBalance
    EncryptedOnce
    NothingRunsAfterExit
PROPERTIES
    ImplementsLossyFifo
    TrafficSettles
    SignalEndsProgram
