SPECIFICATION Spec
CONSTANTS
    Subs = {f, s1, s2, s3}
    Filtered = {f}
    Threads = {t1, t2}
    MaxCalls = 2
    None = None
SYMMETRY StreamSymmetry
INVARIANT
    IdsBalance
    FilteredOnceReturned
CHECK_DEADLOCK FALSE
