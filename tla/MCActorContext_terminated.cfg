SPECIFICATION FairSpec
CONSTANTS
    Actors = {a, b}
    Root = Root
    NoPID = NoPID
    ByName = FALSE
    OpKinds = {"Spawn", "Watch", "Stop"}
    MaxOps = 4
PROPERTIES
    WatcherNotified
CHECK_DEADLOCK FALSE
