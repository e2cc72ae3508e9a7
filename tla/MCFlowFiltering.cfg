SPECIFICATION Spec
CONSTANTS
    nr_queues = 3
    RuleQueue = 1
    PoolSize = 2
    BurstSize = 2
    MAX_REPEAT_TIMES = 3
    QueueSize = 3
    MaxFrames = 4
CHECK_DEADLOCK FALSE
INVARIANT
    LoopReady
PROPERTIES
    QueuesServed
    SignalEnds
