SPECIFICATION Spec
CONSTANTS
    Producers = {p1, p2}
    Workers = {w1, w2}
    Dispatchers = {"pool", "inline"}
    TSO = TRUE
    Throughput = 1
    MaxRounds = 2
    MaxPosts = 3
    MaxThrows = 1
    PoolStops = {"Shutdown", "ShutdownNow"}
    None = None
INVARIANT
    RunnerAccounted
PROPERTY
    SerialSpec
CHECK_DEADLOCK FALSE
