SPECIFICATION Spec
CONSTANTS
    f1 = f1
    f2 = f2
    f3 = f3
    k1 = k1
    NoKey = NoKey
    None = None
    Files = {f1}
    Keys = {k1}
    KeyOf <- BigKeyOf
    Bodies = {"archive", "photo"}
    BodyOf <- BigBodyOf
    Big = {"archive"}
    Parts = {1, 2}
    Kinds = {"good"}
    Commits = {c1}
    Sweepers = {s1}
    SweepBatch = 1
    MaxFaults = 1
    MiB = 3
    MAX_PARTS = 4
    MIN_PART_BYTES = 6
    MAX_PART_BYTES = 12
    MAX_OBJECT_BYTES = 46
    BUDGET_BYTES = 2
INVARIANTS
    CompletedHasObject
\* Once every call is answered and every old row swept nothing is left to do.
CHECK_DEADLOCK FALSE
