SPECIFICATION Spec
CONSTANTS
    Conns = {c1, c2, c3}
    Alpns = {x}
    AsyncProof = TRUE
    SessionsPerEvent = 1
    MaxStore = 2
    MaxWithoutChlo = 1
    MaxUndecryptable = 1
    MaxTimeWait = 1
    LifeSpan = 1
    TimeWaitPeriod = 2
    MaxPackets = 4
    MaxTime = 4
SYMMETRY ConnSymmetry
INVARIANTS
    RoutesExclusive
    StoreConsistent
    DeliveredInOrder
    NothingForgotten
    RepliesThrottled
CHECK_DEADLOCK FALSE
