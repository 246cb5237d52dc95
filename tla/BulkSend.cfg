SPECIFICATION Spec
CONSTANTS
    d1 = d1
    d2 = d2
    d3 = d3
    Id = {"a", "A", "b", "c", "x"}
    Device = {d1, d2, d3}
    Names <- MCNames
    NoDevice = NoDevice
    SpeltAs <- MCSpeltAs
    Token = {t1, t2, t3}
    NoToken = NoToken
    Chunk = 2
INVARIANTS
    TypeOK
    GapsReported
    EachTokenOnce
    CountsAddUp
    OnlyDeadArePruned
PROPERTIES
    PromiseKept
CHECK_DEADLOCK FALSE
