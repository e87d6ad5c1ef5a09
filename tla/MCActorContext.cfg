SPECIFICATION FairSpec
CONSTANTS
    Actors = {a, b}
    Root = Root
    NoPID = NoPID
    ByName = FALSE
    OpKinds = {"Spawn", "Send", "Request", "RequestWithCustomSender", "Respond", "Watch", "Unwatch", "Stop", "Restart", "Poison", "Stash", "Unstash", "UnstashAll", "EscalateFailure", "RequestFuture", "StopFuture", "PoisonFuture"}
    MaxOps = 5
INVARIANTS
    StartedFirst
    LivingChildListed
    WatchersFollowIntent
PROPERTIES
    UnstashedIsReceived
    LateWatchAnswered
CHECK_DEADLOCK FALSE
