SPECIFICATION Spec
CONSTANTS
    Producers = {p1, p2}
    Workers = {w1}
    Dispatchers = {"pool"}
    TSO = TRUE
    Throughput = 1
    MaxRounds = 1000
    MaxPosts = 2
    MaxThrows = 0
    PoolStops = {}
    None = None
INVARIANT
    NoLostWakeup
CHECK_DEADLOCK FALSE
