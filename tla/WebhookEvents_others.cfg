SPECIFICATION Spec
CONSTANTS
    Handler = {h1}
    Address = {a1, a2}
    Device = {d1, d2}
    NoDevice = NoDevice
    a1 = a1
    a2 = a2
    b1 = b1
    b2 = b2
    b3 = b3
    Batch = {b1, b2, b3}
    Activities <- MCActivities
    MaxDeliveries = 1
    MaxChanges = 0
    MaxCrashes = 0
PROPERTY EveryOwnerNotified
CHECK_DEADLOCK FALSE
