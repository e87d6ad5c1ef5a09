SPECIFICATION FairSpec
CONSTANTS
    Workers = {w1, w2, w3}
    Clients = {c1, c2}
    MaxTasks = 4
    Calls = {"Shutdown", "ShutdownNow"}
INVARIANTS
    StartedInOrder
    NoTaskSleeps
    JoinedMeansDrained
PROPERTIES
    PoolSpec
    EveryTaskRuns
    StopReturns
CHECK_DEADLOCK FALSE
