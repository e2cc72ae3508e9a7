SPECIFICATION Spec
CONSTANTS
    Outside = Outside
    Ports <- MCPorts
    IoLcores <- MCTwoIo
    RxPortList <- MCOwnPort
    Workers = {0}
    Dst <- MCDst
    Peer <- MCPeer
    BurstSize = 2
    RingSizes = {3}
    NbMbufs = 3
    RxQueueSize = 3
    MaxFrames = 2
INVARIANT
    ShouldMatchTotalEncrypted
