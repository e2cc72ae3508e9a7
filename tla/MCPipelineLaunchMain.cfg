SPECIFICATION Spec
CONSTANTS
    MaxLcore = 5
    MaxCryptoWorkers = 2
    LcoreSets <- MCLcoreSets
    AnyMain = TRUE
INVARIANT
    EveryPollerRuns
