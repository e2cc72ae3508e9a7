SPECIFICATION Spec
CONSTANTS
    MaxLcore = 5
    MaxCryptoWorkers = 2
    LcoreSets <- MCLcoreSets
    AnyMain = FALSE
INVARIANTS
    OwnRingPair
    EveryPollerRuns
