SPECIFICATION FairSpec
CONSTANTS
    Scan = {s1, s2}
    MaxLedger = 3
    MaxEffects = 2
    EffectsIn <- MCEffectsIn
    PageSize = 1
    Lag = 1
    MaxRateLimits = 1
    MaxCrashes = 1
INVARIANTS
    TypeOK
    LedgersPartitioned
    ScannedIsComplete
    ReplaysAreBounded
PROPERTIES
    WatchSpec
    EveryLedgerSettled
    CatchesUp
