SPECIFICATION Spec
CONSTANTS
    Subs = {f, s1, s2}
    Filtered = {f}
    Threads = {t1, t2}
    MaxCalls = 0
    None = None
SYMMETRY StreamSymmetry
INVARIANT
    SubscriberIsListed
CHECK_DEADLOCK FALSE
