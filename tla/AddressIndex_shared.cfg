SPECIFICATION Spec
CONSTANTS
    w1 = w1
    w2 = w2
    w3 = w3
    d1 = d1
    d2 = d2
    Wallet = {w1, w2, w3}
    Device = {d1, d2}
    DeviceOf <- MCDeviceOf
    XlmOf <- MCXlmOf
    MultiOf <- MCMultiOf
    NoAddress = NoAddress
    Volatile = {}
    Hooks = 2
    PageSize = 2
    MaxChanges = 3
    MaxFaults = 0
    MaxCrashes = 0
INVARIANT SharedStayTracked
CHECK_DEADLOCK FALSE
