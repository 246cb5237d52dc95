SPECIFICATION Spec
CONSTANTS
    Handler = {h1, h2}
    Address = {a1, a2}
    Device = {d1}
    NoDevice = NoDevice
    a1 = a1
    a2 = a2
    b1 = b1
    b2 = b2
    b3 = b3
    Batch = {b1, b2, b3}
    Activities <- MCActivities
    MaxDeliveries = 2
    MaxChanges = 1
    MaxCrashes = 1
INVARIANT OnePerTransaction
CHECK_DEADLOCK FALSE
