SPECIFICATION Spec
CONSTANTS
    Others = {o1}
    Starters = {c1, c2}
    MaxStarts = 2
    MaxUpdates = 2
    MaxSeq = 2
PROPERTIES
    GossipStops
    OneWriter
CHECK_DEADLOCK FALSE
