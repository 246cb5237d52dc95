SPECIFICATION FairSpec
CONSTANTS
    w1 = w1
    w2 = w2
    w3 = w3
    d1 = d1
    d2 = d2
    Wallet = {w1, w2, w3}
    Device = {d1, d2}
    DeviceOf <- MCDeviceOf
    XlmOf <- MCXlmOf
    MultiOf <- MCMultiOf
    NoAddress = NoAddress
    Volatile = {d2}
    Hooks = 2
    PageSize = 2
    MaxChanges = 4
    MaxFaults = 1
    MaxCrashes = 2
INVARIANTS
    TypeOK
    IndexFollows
    HooksFollow
PROPERTIES
    BootLoads
    LoaderEnds
CHECK_DEADLOCK FALSE
