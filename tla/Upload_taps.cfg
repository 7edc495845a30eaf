SPECIFICATION Spec
CONSTANTS
    f1 = f1
    f2 = f2
    f3 = f3
    k1 = k1
    NoKey = NoKey
    None = None
    Files = {f1, f2, f3}
    Keys = {k1}
    KeyOf <- TapKeyOf
    Bodies = {"archive", "photo"}
    BodyOf <- TapBodyOf
    Big = {"archive"}
    Parts = {1}
    Kinds = {"good", "fake"}
    Commits = {c1}
    Sweepers = {s1}
    SweepBatch = 2
    MaxFaults = 2
    MiB = 3
    MAX_PARTS = 4
    MIN_PART_BYTES = 6
    MAX_PART_BYTES = 12
    MAX_OBJECT_BYTES = 46
    BUDGET_BYTES = 2
INVARIANTS
    TypeOK
    AnswersHold
    OpenUploadsPlanned
\* Once every call is answered and every old row swept nothing is left to do.
CHECK_DEADLOCK FALSE
