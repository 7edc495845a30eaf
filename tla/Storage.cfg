SPECIFICATION StorageSpec
CONSTANTS
    f1 = f1
    f2 = f2
    f3 = f3
    k1 = k1
    NoKey = NoKey
    None = None
    Files = {f1, f2}
    Keys = {k1}
    KeyOf <- MixKeyOf
    Bodies = {"archive", "photo"}
    BodyOf <- MixBodyOf
    Big = {"archive"}
    Parts = {1}
    Kinds = {"good", "fake"}
    Commits = {c1, c2}
    Sweepers = {s1, s2}
    SweepBatch = 1
    MaxFaults = 1
    MiB = 3
    MAX_PARTS = 4
    MIN_PART_BYTES = 6
    MAX_PART_BYTES = 12
    MAX_OBJECT_BYTES = 46
    BUDGET_BYTES = 2
    Assets = {a1, a2, a3}
    Visits = {v1, v2}
    BodyLengths = {1, 2, 4}
    TTLs = {0, 1}
    MaxBytes = 3
    MaxObjectBytes = 2
INVARIANTS
    SweepsClean
    CompletedIsWhole
    EdgeSound
PROPERTIES
    CompletedStays
    OrphansEnd
\* Once every call is answered and every old row swept nothing is left to do.
CHECK_DEADLOCK FALSE
