SPECIFICATION FairSpec
CONSTANTS
    Pods = {p1, p2}
    Places = {p1, p2}
    Drain = 1
    CloseTimeout = 1
    Grace = 3
    Propagation = 0
    MaxUpdates = 3
    Streams = {c1}
    Sockets = {w1}
    BufferLimit = 1
    None = None
    MaxFaults = 1
    MaxConnects = 2
INVARIANTS
    TypeOK
    RolloutSafe
    LastEventIsStatus
PROPERTIES
    EventsInSequence
    StreamsCatchUp
CHECK_DEADLOCK FALSE
