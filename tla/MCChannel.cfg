SPECIFICATION Spec
CONSTANTS
    x = x
    y = y
    s = s
    t = t
    Messages <- MCMessages
    Registered = {1}
    BatchSize = 2
    MaxRetry = 2
    MaxMessages = 4
    None = None
INVARIANT
    DeliveredIntact
PROPERTIES
    LossAnnounced
    ShutdownReturns
CHECK_DEADLOCK FALSE
