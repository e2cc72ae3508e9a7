SPECIFICATION Spec
CONSTANTS
    MainLcore <- MCMainLcore
    Workers <- MCWorkers
    RingSize = 2
    PoolSize = 3
    CacheSize = 1
    MaxMsgs = 4
    MaxStarts = 2
CHECK_DEADLOCK FALSE
INVARIANTS
    BuffersAccounted
    ObjectsPresent
PROPERTIES
    ImplementsLossyFifo
    Delivered
    QuitEnds
