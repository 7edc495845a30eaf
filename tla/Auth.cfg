SPECIFICATION FairSpec
CONSTANTS
    MaxPairs = 3
    MaxLogins = 2
    Calls = {c1, c2}
    AccessTTL = 2
    RefreshTTL = 2
    MaxOpen = 1
    MaxRequests = 4
    MaxTime = 2
    MaxFaults = 1
    None = None
INVARIANTS
    TypeOK
    TokensSafe
PROPERTIES
    NoChildOfRevoked
    CallsEnd
\* When the pairs are issued and the clock stands nothing is left to do.
CHECK_DEADLOCK FALSE
