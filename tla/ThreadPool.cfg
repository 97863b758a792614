CONSTANTS
    s1 = s1
    s2 = s2
    NumThreads = 2
    MaxEvents = 3
    Socks = {s1, s2}
    Foreign = Foreign
    NULL = NULL
SPECIFICATION FairSpec
INVARIANTS
    TypeOK
    PoolPartition
    NoDanglingEvent
    RoundRobin
    NoLossInFirstRound
    ExactWithoutLoss
PROPERTIES
    NoLostWakeup
    EventReleased
    AtMostOnce
