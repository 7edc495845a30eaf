------------------------------ MODULE PartPlan ------------------------------
(***************************************************************************)
(* The part arithmetic of src/src/files/policy.ts: when an upload is split *)
(* into parts, how large they are, and the length each part is signed and  *)
(* checked for.  Lengths are in bytes; the limits are S3's.                *)
(***************************************************************************)
EXTENDS Integers

CONSTANTS
    MiB,
    MAX_PARTS,
    MIN_PART_BYTES,
    MAX_PART_BYTES,
    MAX_OBJECT_BYTES,
    BUDGET_BYTES    \* RETRY_BUDGET_SEC times SLOW_LINK_BYTES_PER_SEC

\* All that is used of the numbers in the source.
ASSUME PartPlanAssumption ==
    /\ MiB \in Nat \ {0} /\ MAX_PARTS \in Nat \ {0, 1}
    /\ MIN_PART_BYTES \in Nat /\ MiB <= MIN_PART_BYTES
    /\ MAX_PART_BYTES \in Nat /\ MIN_PART_BYTES <= MAX_PART_BYTES
    /\ MAX_PART_BYTES % MiB = 0
    /\ MAX_OBJECT_BYTES \in Nat /\ MAX_OBJECT_BYTES <= MAX_PARTS * MAX_PART_BYTES
    /\ BUDGET_BYTES \in Nat

Sizes == 1 .. MAX_OBJECT_BYTES

Larger(a, b) == IF a < b THEN b ELSE a

\* Math.ceil(a / b)
CeilDiv(a, b) == (a + b - 1) \div b

\* Faulty variant: rounded to the nearest whole MiB.
WholeMiBNearest(a) == ((a + MiB \div 2) \div MiB) * MiB

WholeMiB(a) == CeilDiv(a, MiB) * MiB

\* Faulty variant: the budget alone decides.
MultipartThresholdBySpeed == WholeMiB(BUDGET_BYTES)

MultipartThreshold == Larger(WholeMiB(BUDGET_BYTES), MIN_PART_BYTES + MiB)

PartSize(size) == Larger(MIN_PART_BYTES, WholeMiB(CeilDiv(size, MAX_PARTS)))

\* planParts throws.
Refused(size) == size > MAX_OBJECT_BYTES \/ PartSize(size) > MAX_PART_BYTES

PartCount(size) == CeilDiv(size, PartSize(size))

\* Faulty variant: the last part is as long as the others.
PartLengthFull(size, n) == PartSize(size)

PartLength(size, n) ==
    IF n < PartCount(size) THEN PartSize(size)
    ELSE size - PartSize(size) * (PartCount(size) - 1)

-----------------------------------------------------------------------------
\* planParts accepts every size S3 does, and what it plans is within S3's
\* limits: not more than MAX_PARTS parts, each between the smallest and the
\* largest part, the last one not empty.
PlanWithinLimits ==
    \A size \in Sizes :
        /\ ~Refused(size)
        /\ PartCount(size) \in 1 .. MAX_PARTS
        /\ \A n \in 1 .. PartCount(size) :
             /\ PartLength(size, n) \in 1 .. MAX_PART_BYTES
             /\ n < PartCount(size) => PartLength(size, n) >= MIN_PART_BYTES

\* The bytes of part n, when parts have the length they are signed for.
Piece(size, n) ==
    LET first == PartSize(size) * (n - 1) IN first .. first + PartLength(size, n) - 1

\* Parts put end to end are the file: no byte is missing and none is beyond it.
PartsMakeTheFile ==
    \A size \in Sizes :
        UNION {Piece(size, n) : n \in 1 .. PartCount(size)} = 0 .. size - 1

\* An upload above the threshold has at least two parts, so there is something
\* to resume from.
MultipartCanResume ==
    \A size \in Sizes : size > MultipartThreshold => PartCount(size) >= 2

\* The plan of an upload is accepted by S3, is the file, and can be resumed.
PlanSound == PlanWithinLimits /\ PartsMakeTheFile /\ MultipartCanResume

=============================================================================
