--------------------------- MODULE SlidingWindow ---------------------------
(***************************************************************************)
(* The rate limiter of src/src/rate-limit/sliding-window.ts: one script on *)
(* one sorted set, for one client.  Scores are kept as ages, so that time  *)
(* needs no bound: the score now - a is the age a.                         *)
(***************************************************************************)
EXTENDS Naturals, Sequences, FiniteSets

CONSTANTS Limit, Window

ASSUME WindowAssumption == {Limit, Window} \subseteq Nat \ {0}

VARIABLES
    log,      \* ages of the members, oldest first
    keyTtl,   \* PEXPIRE of the key, 0 when it does not exist
    admitted  \* history: ages of the requests the script let through

windowVars == <<log, keyTtl, admitted>>

WindowTypeOK ==
    /\ log \in Seq(0 .. Window) /\ Len(log) <= Limit
    /\ keyTtl \in 0 .. Window /\ (keyTtl = 0 <=> log = <<>>)
    /\ admitted \in Seq(0 .. Window)

WindowInit == log = <<>> /\ keyTtl = 0 /\ admitted = <<>>

\* Scores fall along the log, so what is at least w old is a prefix of it.
Younger(ages, w) ==
    SubSeq(ages, Cardinality({i \in DOMAIN ages : ages[i] >= w}) + 1, Len(ages))

Inside(ages) == Younger(ages, Window)

\* ZREMRANGEBYSCORE key -inf (now - window): the edge goes.
TrimmedExclusive(ages) == Younger(ages, Window + 1)
TrimmedEarly(ages) == Younger(ages, Window - 1)
Trimmed(ages) == Younger(ages, Window)

\* A script that is run: what it answers is told from log as it was.
HasRoom(ages) == Len(Trimmed(ages)) < Limit
RetryAfter(ages) == Window - Head(Trimmed(ages))

RunScriptCountingAll ==
    /\ log' = Append(Trimmed(log), 0)
    /\ keyTtl' = Window
    /\ admitted' = IF HasRoom(log) THEN Append(Inside(admitted), 0) ELSE Inside(admitted)

RunScript ==
    /\ log' = IF HasRoom(log) THEN Append(Trimmed(log), 0) ELSE Trimmed(log)
    /\ keyTtl' = IF HasRoom(log) THEN Window ELSE keyTtl
    /\ admitted' = IF HasRoom(log) THEN Append(Inside(admitted), 0) ELSE Inside(admitted)

\* Sent again after a lost connection, with the same member: it finds itself.
HasRoomAgain(ages) == Len(Trimmed(ages)) + 1 < Limit

Aged(ages) == [i \in DOMAIN ages |-> IF ages[i] = Window THEN Window ELSE ages[i] + 1]

WindowTick ==
    /\ keyTtl' = IF keyTtl = 0 THEN 0 ELSE keyTtl - 1
    /\ log' = IF keyTtl <= 1 THEN <<>> ELSE Aged(log)
    /\ admitted' = Inside(Aged(admitted))

-----------------------------------------------------------------------------
\* Whatever the mix of hits, retried hits and waiting, no window of Window ticks
\* holds more than Limit requests the script let through.
NeverOverLimit == Len(Inside(admitted)) <= Limit

\* A refused client that waits retryAfterMs is let through if nobody else came,
\* and not a tick before: in terms of what was admitted, not of the log.
AdmittedIn(r) == Cardinality({i \in DOMAIN admitted : admitted[i] + r < Window})
RetryAfterExact ==
    ~HasRoom(log) => LET r == RetryAfter(log) IN
      r \in 1 .. Window /\ AdmittedIn(r) < Limit /\ AdmittedIn(r - 1) = Limit

\* The limiter is exact at both edges of the window: it lets nobody through too
\* many, and keeps nobody out too long.
WindowExact == NeverOverLimit /\ RetryAfterExact

=============================================================================
