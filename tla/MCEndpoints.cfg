SPECIFICATION Spec
CONSTANTS
    a1 = a1
    r1 = r1
    r2 = r2
    Threads = {t1, t2}
    Locals = {l1}
    Remotes = {r1, r2}
    Addresses = {a1}
    AddressOf <- MCAddressOf
    MaxEndpoints = 2
    MaxCalls = 5
    None = None
SYMMETRY ThreadSymmetry
INVARIANTS
    OneEndpointPerAddress
    WatchAccounted
    ClearedStaysClear
CHECK_DEADLOCK FALSE
