SPECIFICATION FairSpec
CONSTANTS
    Producers = {p1, p2}
    Workers = {w1, w2}
    Dispatchers = {"pool", "inline"}
    TSO = FALSE
    Throughput = 1
    MaxRounds = 1000
    MaxPosts = 3
    MaxThrows = 0
    PoolStops = {}
    None = None
INVARIANTS
    TypeOK
    MutualExclusion
    NoNestedProcessing
    DeliveryOrder
    BoundedOvertaking
    CounterExact
    NoLostWakeup
PROPERTY
    EveryPostHandled
CHECK_DEADLOCK FALSE
