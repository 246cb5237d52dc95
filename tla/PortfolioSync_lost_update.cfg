SPECIFICATION Spec
CONSTANTS
    Call = {c1, c2}
    Prefix = {"ETH", "POL"}
    NetworkMap <- MCNetworkMap
    Answers <- MCAnswers
    Held = {"eth-mainnet", "matic-mainnet"}
    Spammed = {"eth-mainnet"}
    PageLen = 2
    PageCap = 2
    Window = 1
    MaxTime = 3
    MaxTransfers <- MCMaxTransfers
    MaxFaults = 0
    MaxCrashes = 0
PROPERTY OtherChainsUntouched
CHECK_DEADLOCK FALSE
