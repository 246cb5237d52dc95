SPECIFICATION FairSpec
CONSTANTS
    Call = {c1, c2}
    Prefix = {"ETH", "POL"}
    NetworkMap <- MCNetworkMap
    Answers <- MCAnswers
    Held = {"eth-mainnet"}
    Spammed = {"eth-mainnet"}
    PageLen = 1
    PageCap = 2
    Window = 0
    MaxTime = 2
    MaxTransfers <- MCMaxTransfers
    MaxFaults = 1
    MaxCrashes = 1
INVARIANTS
    TypeOK
    NoDuplicateRows
    HeldChainsPresent
    SyncingHasWorker
PROPERTIES
    TransferIsSaved
    RowsAreKept
    SyncSettles
CHECK_DEADLOCK FALSE
