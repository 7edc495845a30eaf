SPECIFICATION FairSpec
CONSTANTS
    Callers = {c1, c2}
    None = None
    Limit = 2
    Window = 3
    MaxSids = 2
    SessionTTL = 1
    LockTTL = 1
    ValueTTL = 1
    MaxVersion = 1
    Traffic = {"card", "login", "logout"}
    MaxRequests = 3
    MaxFaults = 2
INVARIANTS
    TypeOK
    WindowExact
    EndedStaysEnded
    OneLoader
PROPERTIES
    OlderOnlyFromLate
    RequestsEnd
CHECK_DEADLOCK FALSE
