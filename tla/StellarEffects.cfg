SPECIFICATION FairEffectSpec
CONSTANTS
    w1 = w1
    w2 = w2
    d1 = d1
    d2 = d2
    Wallet = {w1, w2}
    Device = {d1, d2}
    DeviceOf <- MCDeviceOf
    XlmOf <- MCXlmOf
    MultiOf <- MCMultiOf
    NoAddress = NoAddress
    NoDevice = NoDevice
    Volatile = {d1}
    Hooks = 1
    PageSize = 2
    MaxChanges = 4
    MaxFaults = 1
    MaxCrashes = 1
INVARIANT EffectTypeOK
PROPERTIES
    CalmIsNotified
    OnlyOwnersNotified
    ParseReturns
CHECK_DEADLOCK FALSE
