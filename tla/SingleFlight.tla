---------------------------- MODULE SingleFlight ----------------------------
(***************************************************************************)
(* getOrLoad() of src/src/redis/single-flight-cache.ts with the lock of    *)
(* redis/lock.ts, for one key: one action per Redis command and per load.  *)
(* The cache Redis is allkeys-lru: value and lock may vanish at any time.  *)
(***************************************************************************)
EXTENDS Naturals, FiniteSets

CONSTANTS
    Callers,    \* requests inside getOrLoad at once
    LockTTL,    \* lockTtlMs
    ValueTTL,   \* ttlBaseSec, jitter left out
    MaxVersion, \* bound: changes of the product
    None

ASSUME FlightAssumption ==
    /\ {LockTTL, ValueTTL} \subseteq Nat \ {0} /\ MaxVersion \in Nat
    /\ {None, "ghost"} \intersect Callers = {} /\ None # "ghost" /\ None \notin Nat

VARIABLES
    version,  \* of the product in Postgres
    value,    \* the cached card: its version, time left, whether a late loader wrote it
    lock,     \* owner (ghost: nobody who knows) and time left
    flight,   \* each caller: the command it sends next, the version it loaded
    late      \* history: loaders whose lock expired or was evicted before they wrote

flightVars == <<version, value, lock, flight, late>>

NoValue == [version |-> None, ttl |-> 0, late |-> FALSE]
NoLock == [owner |-> None, ttl |-> 0]
Landed == [pc |-> "out", version |-> None]

FlightTypeOK ==
    /\ version \in 0 .. MaxVersion
    /\ value \in [version : 0 .. MaxVersion, ttl : 1 .. ValueTTL, late : BOOLEAN] \union {NoValue}
    /\ lock \in [owner : Callers \union {"ghost"}, ttl : 1 .. LockTTL] \union {NoLock}
    /\ flight \in [Callers -> [pc : {"out", "read", "acquire", "again", "load", "write",
                                     "release", "poll"},
                               version : 0 .. MaxVersion \union {None}]]
    /\ late \subseteq Callers

FlightInit ==
    /\ version = 0 /\ value = NoValue /\ lock = NoLock /\ late = {}
    /\ flight = [c \in Callers |-> Landed]

Goto(c, pc) == flight' = [flight EXCEPT ![c].pc = pc]
\* Answered; a caller whose Redis command fails loads for itself and is answered.
Land(c) == flight' = [flight EXCEPT ![c] = Landed] /\ late' = late \ {c}

Enter(c) == Goto(c, "read") /\ UNCHANGED <<version, value, lock, late>>

\* GET, first, after the lock was won, and of each poll.
Read(c) ==
    /\ UNCHANGED <<version, value, lock>>
    /\ \/ flight[c].pc \in {"read", "poll"} /\ value = NoValue /\ Goto(c, "acquire") /\ UNCHANGED late
       \/ flight[c].pc = "again" /\ value = NoValue /\ Goto(c, "load") /\ UNCHANGED late
       \/ flight[c].pc \in {"read", "poll"} /\ value # NoValue /\ Land(c)
       \/ flight[c].pc = "again" /\ value # NoValue /\ Goto(c, "release") /\ UNCHANGED late

\* SET NX PX.
Acquire(c) ==
    /\ flight[c].pc = "acquire"
    /\ IF lock = NoLock
       THEN lock' = [owner |-> c, ttl |-> LockTTL] /\ Goto(c, "again")
       ELSE Goto(c, "poll") /\ UNCHANGED lock
    /\ UNCHANGED <<version, value, late>>

\* The SELECT of ProductCardRepository.load, which sees what is committed.
LoadLagging(c) ==
    /\ flight[c].pc = "load"
    /\ \E v \in {version, 0} : flight' = [flight EXCEPT ![c] = [pc |-> "write", version |-> v]]
    /\ UNCHANGED <<version, value, lock, late>>

Load(c) ==
    /\ flight[c].pc = "load"
    /\ flight' = [flight EXCEPT ![c] = [pc |-> "write", version |-> version]]
    /\ UNCHANGED <<version, value, lock, late>>

\* SET EX, whoever has the lock by now.
Stored(c) == [version |-> flight[c].version, ttl |-> ValueTTL, late |-> c \in late]

Write(c) ==
    /\ flight[c].pc = "write"
    /\ value' = Stored(c)
    /\ Goto(c, "release")
    /\ UNCHANGED <<version, lock, late>>

\* GET then DEL in one script.
ReleaseAny(c) ==
    /\ flight[c].pc = "release"
    /\ lock' = NoLock
    /\ Land(c)
    /\ UNCHANGED <<version, value>>

Release(c) ==
    /\ flight[c].pc = "release"
    /\ lock' = IF lock.owner = c THEN NoLock ELSE lock
    /\ Land(c)
    /\ UNCHANGED <<version, value>>

\* A command that was not executed, or whose answer is lost.  The lock of an
\* acquire nobody heard of, or of one sent again by ioredis, has no owner.
CommandFails(c) ==
    /\ UNCHANGED <<version, value>>
    /\ \/ flight[c].pc \in {"read", "acquire", "poll"} /\ Land(c) /\ UNCHANGED lock
       \/ flight[c].pc = "acquire" /\ lock = NoLock /\ lock' = [owner |-> "ghost", ttl |-> LockTTL]
          /\ (Land(c) \/ (Goto(c, "poll") /\ UNCHANGED late))
       \/ flight[c].pc = "again" /\ Goto(c, "load") /\ UNCHANGED <<lock, late>>
       \/ flight[c].pc \in {"load", "write"} /\ Goto(c, "release") /\ UNCHANGED <<lock, late>>
       \/ flight[c].pc = "release" /\ Land(c) /\ UNCHANGED lock

Changes == version < MaxVersion /\ version' = version + 1 /\ UNCHANGED <<value, lock, flight, late>>

Loading(c) == flight[c].pc \in {"again", "load", "write"}
Orphaned == {c \in Callers : lock.owner = c /\ Loading(c)}

Evict ==
    /\ UNCHANGED <<version, flight>>
    /\ \/ value # NoValue /\ value' = NoValue /\ UNCHANGED <<lock, late>>
       \/ lock # NoLock /\ lock' = NoLock /\ late' = late \union Orphaned /\ UNCHANGED value

FlightTickNoPX ==
    /\ value' = IF value.ttl <= 1 THEN NoValue ELSE [value EXCEPT !.ttl = @ - 1]
    /\ UNCHANGED <<version, lock, flight, late>>

FlightTick ==
    /\ value' = IF value.ttl <= 1 THEN NoValue ELSE [value EXCEPT !.ttl = @ - 1]
    /\ lock' = IF lock.ttl <= 1 THEN NoLock ELSE [lock EXCEPT !.ttl = @ - 1]
    /\ late' = IF lock.ttl = 1 THEN late \union Orphaned ELSE late
    /\ UNCHANGED <<version, flight>>

\* The process dies with what it was doing; its lock stays.
Abandon(C) ==
    /\ flight' = [c \in Callers |-> IF c \in C THEN Landed ELSE flight[c]]
    /\ late' = late \ C
    /\ lock' = IF lock.owner \in C THEN [lock EXCEPT !.owner = "ghost"] ELSE lock
    /\ UNCHANGED <<version, value>>

FlightStep(c) == Read(c) \/ Acquire(c) \/ Load(c) \/ Write(c) \/ Release(c)

-----------------------------------------------------------------------------
\* However slow, dead or late its holders, the lock lets a second loader in only
\* when the first has outlived it (or the cache has dropped it): nobody loses it
\* to another's release.
OneLoader == Cardinality({c \in Callers : Loading(c) /\ c \notin late}) <= 1

\* A cached card is replaced by an older one only if a loader that had outlived
\* its lock wrote one of the two.
OlderOnlyFromLate ==
    [][value # NoValue /\ value' # NoValue /\ value'.version < value.version
         => value.late \/ value'.late]_flightVars

=============================================================================
