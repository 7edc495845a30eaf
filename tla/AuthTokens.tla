----------------------------- MODULE AuthTokens -----------------------------
(***************************************************************************)
(* Logins of src/src/auth/auth.service.ts: a pair is a refresh row and the *)
(* access token signed with it; refresh rotates the row or, shown a used   *)
(* one, revokes the family; logout revokes it too.  One action per         *)
(* statement that another transaction can see or wait for, at READ         *)
(* COMMITTED: FOR UPDATE and the UPDATE of a family wait for row locks,    *)
(* the rows of an UPDATE are those of its snapshot, now() is the time of   *)
(* BEGIN, and Postgres ends a deadlock by failing one of its members.      *)
(***************************************************************************)
EXTENDS Naturals, FiniteSets

CONSTANTS
    MaxPairs,    \* bound: pairs ever issued
    MaxLogins,   \* bound: families
    Calls,       \* requests under way at once
    AccessTTL,   \* ACCESS_TTL_SEC
    RefreshTTL,  \* REFRESH_TTL_SEC
    MaxOpen,     \* bound: ticks a transaction stays open
    MaxTime,     \* bound: the clock
    MaxRequests, \* bound: refreshes and logouts
    MaxFaults,   \* bound: failed statements and dead processes
    None

Pairs == 1 .. MaxPairs

ASSUME AuthAssumption ==
    /\ {MaxPairs, MaxLogins, AccessTTL, RefreshTTL} \subseteq Nat \ {0}
    /\ {MaxOpen, MaxTime, MaxRequests, MaxFaults} \subseteq Nat
    /\ IsFiniteSet(Calls)
    /\ None \notin Pairs \union Nat

VARIABLES
    now,
    pair,    \* refresh_tokens as committed, and when the access token was signed
    denied,  \* revoked_families: until when, 0 when there is no row
    jtis,    \* access_denylist: the pairs whose jti has a row
    call,    \* the open transactions
    requests, faults,  \* how many there have been, for the bounds
    begun,   \* history: pairs a reuse or a logout revokes the family of
    doomed,  \* history: pairs committed when a revocation of their family was
    ended    \* history: pairs whose access token was logged out with

vars == <<now, pair, denied, jtis, call, requests, faults, begun, doomed, ended>>

NoPair == [family |-> None, parent |-> None, signed |-> 0, expires |-> 0,
           used |-> FALSE, revoked |-> FALSE, there |-> FALSE]

Idle == [pc |-> "idle", token |-> None, logout |-> FALSE, start |-> 0,
         held |-> {}, todo |-> {}]

TypeOK ==
    /\ now \in 0 .. MaxTime
    /\ pair \in [Pairs -> [family : Pairs \union {None}, parent : Pairs \union {None},
                           signed : 0 .. MaxTime, expires : 0 .. MaxTime + RefreshTTL,
                           used : BOOLEAN, revoked : BOOLEAN, there : BOOLEAN]]
    /\ denied \in [Pairs -> 0 .. MaxTime + AccessTTL]
    /\ jtis \subseteq Pairs
    /\ call \in [Calls -> [pc : {"idle", "select", "rotate", "revoke", "lock"},
                           token : Pairs \union {None}, logout : BOOLEAN,
                           start : 0 .. MaxTime, held : SUBSET Pairs,
                           todo : SUBSET Pairs]]
    /\ \A c, d \in Calls : c # d => call[c].held \intersect call[d].held = {}
    /\ requests \in 0 .. MaxRequests /\ faults \in 0 .. MaxFaults
    /\ begun \subseteq Pairs /\ doomed \subseteq Pairs /\ ended \subseteq Pairs

Init ==
    /\ now = 0
    /\ pair = [p \in Pairs |-> NoPair]
    /\ denied = [p \in Pairs |-> 0]
    /\ jtis = {} /\ begun = {} /\ doomed = {} /\ ended = {}
    /\ call = [c \in Calls |-> Idle]
    /\ requests = 0 /\ faults = 0

Made == {p \in Pairs : pair[p].family # None}
Family(f) == {p \in Made : pair[p].family = f}
Locked == UNION {call[c].held : c \in Calls}
Rotating == {c \in Calls : call[c].pc \in {"select", "rotate"}}
Room == Cardinality(Made) + Cardinality(Rotating) < MaxPairs
NextPair == Cardinality(Made) + 1

Answer(c) == call' = [call EXCEPT ![c] = Idle]

-----------------------------------------------------------------------------
\* verify() and isAccessRevoked(): what the guard of every route asks.
Accepts(p) ==
    /\ p \in Made
    /\ now < pair[p].signed + AccessTTL
    /\ ~(denied[pair[p].family] > now)
    /\ p \notin jtis

\* A row of the pair: its refresh token expires RefreshTTL after BEGIN.
NewPair(f, parent, start, signed) ==
    [family |-> f, parent |-> parent, signed |-> signed, expires |-> start + RefreshTTL,
     used |-> FALSE, revoked |-> FALSE, there |-> TRUE]

\* The tables after a sweep at t, which leaves locked rows alone.  The batch of
\* 500 is larger than any instance.
Swept(rows, t, locked) ==
    [p \in Pairs |-> IF rows[p].there /\ rows[p].expires <= t /\ p \notin locked
                     THEN [rows[p] EXCEPT !.there = FALSE] ELSE rows[p]]
SweptFamilies(t) == [f \in Pairs |-> IF denied[f] <= t THEN 0 ELSE denied[f]]
SweptJtis(t) == {p \in jtis : pair[p].signed + AccessTTL > t}

\* One action: what it deletes is expired and what it inserts is new.
Login ==
    /\ Room /\ Cardinality({p \in Made : pair[p].parent = None}) < MaxLogins
    /\ pair' = [Swept(pair, now, Locked) EXCEPT
                  ![NextPair] = NewPair(NextPair, None, now, now)]
    /\ denied' = SweptFamilies(now)
    /\ jtis' = SweptJtis(now)
    /\ UNCHANGED <<now, call, requests, faults, begun, doomed, ended>>

-----------------------------------------------------------------------------
BeginRefresh(c, p) ==
    /\ call[c].pc = "idle" /\ requests < MaxRequests
    /\ p \in Made
    /\ pair[p].used \/ pair[p].revoked \/ Room
    /\ call' = [call EXCEPT ![c] = [Idle EXCEPT !.pc = "select", !.token = p, !.start = now]]
    /\ requests' = requests + 1
    /\ UNCHANGED <<now, pair, denied, jtis, faults, begun, doomed, ended>>

\* What refresh() makes of the row, of a transaction begun at t.
OutcomeEvenRevoked(row, t) ==
    CASE ~row.there -> "reject"
      [] row.used -> "revoke"
      [] row.expires <= t -> "reject"
      [] OTHER -> "rotate"

Outcome(row, t) ==
    CASE ~row.there \/ row.revoked -> "reject"
      [] row.used -> "revoke"
      [] row.expires <= t -> "reject"
      [] OTHER -> "rotate"

\* SELECT ... FOR UPDATE.
LockRowUnlocked(c) ==
    LET p == call[c].token  next == Outcome(pair[p], call[c].start) IN
    /\ call[c].pc = "select"
    /\ call' = [call EXCEPT ![c] = IF next = "reject" THEN Idle
                                   ELSE [@ EXCEPT !.pc = next]]
    /\ UNCHANGED <<now, pair, denied, jtis, requests, faults, begun, doomed, ended>>

LockRowAtOnce(c) ==
    LET p == call[c].token  next == Outcome(pair[p], call[c].start) IN
    /\ call[c].pc = "select"
    /\ call' = [call EXCEPT ![c] = IF next = "reject" THEN Idle
                                   ELSE [@ EXCEPT !.pc = next, !.held = {p}]]
    /\ UNCHANGED <<now, pair, denied, jtis, requests, faults, begun, doomed, ended>>

LockRowPresent(c) ==
    LET p == call[c].token  next == Outcome(pair[p], call[c].start) IN
    /\ call[c].pc = "select" /\ p \notin Locked /\ pair[p].there
    /\ call' = [call EXCEPT ![c] = IF next = "reject" THEN Idle
                                   ELSE [@ EXCEPT !.pc = next, !.held = {p}]]
    /\ UNCHANGED <<now, pair, denied, jtis, requests, faults, begun, doomed, ended>>

LockRow(c) ==
    LET p == call[c].token  next == Outcome(pair[p], call[c].start) IN
    /\ call[c].pc = "select" /\ p \notin Locked
    /\ call' = [call EXCEPT ![c] = IF next = "reject" THEN Idle
                                   ELSE [@ EXCEPT !.pc = next, !.held = {p}]]
    /\ UNCHANGED <<now, pair, denied, jtis, requests, faults, begun, doomed, ended>>

\* UPDATE used_at, INSERT of the new row, the signature and COMMIT: the row is
\* locked and nobody sees the new one before.
Rotate(c) == LET p == call[c].token IN
    /\ call[c].pc = "rotate"
    /\ pair' = [pair EXCEPT ![p].used = TRUE,
                            ![NextPair] = NewPair(pair[p].family, p, call[c].start, now)]
    /\ Answer(c)
    /\ UNCHANGED <<now, denied, jtis, requests, faults, begun, doomed, ended>>

-----------------------------------------------------------------------------
\* The guard of POST /auth/logout, then BEGIN.
BeginLogout(c, p) ==
    /\ call[c].pc = "idle" /\ requests < MaxRequests
    /\ Accepts(p)
    /\ call' = [call EXCEPT ![c] = [Idle EXCEPT !.pc = "revoke", !.token = p,
                                                !.logout = TRUE, !.start = now]]
    /\ requests' = requests + 1
    /\ UNCHANGED <<now, pair, denied, jtis, faults, begun, doomed, ended>>

\* The UPDATE of revokeFamily() starts: the rows it will touch are the ones
\* committed now, so the row of a rotation under way is not among them.
BeginRevokeIfAny(c) ==
    LET rows == {p \in Family(pair[call[c].token].family) : pair[p].there /\ ~pair[p].revoked} IN
    /\ call[c].pc = "revoke"
    /\ begun' = begun \union {call[c].token}
    /\ IF rows = {} THEN Answer(c)
       ELSE call' = [call EXCEPT ![c].pc = "lock", ![c].todo = rows \ call[c].held]
    /\ UNCHANGED <<now, pair, denied, jtis, requests, faults, doomed, ended>>

BeginRevoke(c) ==
    /\ call[c].pc = "revoke"
    /\ begun' = begun \union {call[c].token}
    /\ call' = [call EXCEPT ![c].pc = "lock",
         ![c].todo = {p \in Family(pair[call[c].token].family) :
                        pair[p].there /\ ~pair[p].revoked} \ call[c].held]
    /\ UNCHANGED <<now, pair, denied, jtis, requests, faults, doomed, ended>>

\* It takes them one at a time in the order of their insertion, which is the
\* order of the index as long as no dead row's place is used again.
FirstOf(rows) == {p \in rows : \A q \in rows : p <= q}

LockNext(c, p) ==
    /\ call[c].pc = "lock"
    /\ p \in FirstOf(call[c].todo) \ Locked
    /\ call' = [call EXCEPT ![c].todo = @ \ {p},
                            ![c].held = IF pair[p].there THEN @ \union {p} ELSE @]
    /\ UNCHANGED <<now, pair, denied, jtis, requests, faults, begun, doomed, ended>>

\* The upsert of the family, for logout the jti and the sweep, and COMMIT.  The
\* row of the family makes two of these wait for each other's COMMIT.
Revoked(held) ==
    [p \in Pairs |-> IF p \in held THEN [pair[p] EXCEPT !.revoked = TRUE] ELSE pair[p]]

CommitRevocationWithoutFamily(c) ==
    LET p == call[c].token
        t == call[c].start
        f == pair[p].family
    IN
    /\ call[c].pc = "lock" /\ call[c].todo = {}
    /\ doomed' = doomed \union Family(f)
    /\ IF call[c].logout
       THEN /\ pair' = Swept(Revoked(call[c].held), t, Locked \ call[c].held)
            /\ denied' = SweptFamilies(t)
            /\ jtis' = SweptJtis(t) \union {p}
            /\ ended' = ended \union {p}
       ELSE /\ pair' = Revoked(call[c].held)
            /\ UNCHANGED <<denied, jtis, ended>>
    /\ Answer(c)
    /\ UNCHANGED <<now, requests, faults, begun>>

CommitRevocationWithoutJti(c) ==
    LET p == call[c].token
        t == call[c].start
        f == pair[p].family
    IN
    /\ call[c].pc = "lock" /\ call[c].todo = {}
    /\ doomed' = doomed \union Family(f)
    /\ IF call[c].logout
       THEN /\ pair' = Swept(Revoked(call[c].held), t, Locked \ call[c].held)
            /\ denied' = [SweptFamilies(t) EXCEPT ![f] = t + AccessTTL]
            /\ jtis' = SweptJtis(t)
            /\ ended' = ended \union {p}
       ELSE /\ pair' = Revoked(call[c].held)
            /\ denied' = [denied EXCEPT ![f] = t + AccessTTL]
            /\ UNCHANGED <<jtis, ended>>
    /\ Answer(c)
    /\ UNCHANGED <<now, requests, faults, begun>>

CommitRevocation(c) ==
    LET p == call[c].token
        t == call[c].start
        f == pair[p].family
    IN
    /\ call[c].pc = "lock" /\ call[c].todo = {}
    /\ doomed' = doomed \union Family(f)
    /\ IF call[c].logout
       THEN /\ pair' = Swept(Revoked(call[c].held), t, Locked \ call[c].held)
            /\ denied' = [SweptFamilies(t) EXCEPT ![f] = t + AccessTTL]
            /\ jtis' = SweptJtis(t) \union {p}
            /\ ended' = ended \union {p}
       ELSE /\ pair' = Revoked(call[c].held)
            /\ denied' = [denied EXCEPT ![f] = t + AccessTTL]
            /\ UNCHANGED <<jtis, ended>>
    /\ Answer(c)
    /\ UNCHANGED <<now, requests, faults, begun>>

-----------------------------------------------------------------------------
Waits(c) == CASE call[c].pc = "select" -> {call[c].token}
              [] call[c].pc = "lock" -> FirstOf(call[c].todo)
              [] OTHER -> {}
WaitsFor(c, d) == c # d /\ Waits(c) \intersect call[d].held # {}
InCycle(c) ==
    \E d \in Calls : /\ WaitsFor(c, d)
                     /\ \/ WaitsFor(d, c)
                        \/ \E e \in Calls : WaitsFor(d, e) /\ WaitsFor(e, c)

\* deadlock_timeout: one member of a cycle fails and is rolled back.
DeadlockAbort(c) ==
    /\ InCycle(c)
    /\ Answer(c)
    /\ UNCHANGED <<now, pair, denied, jtis, requests, faults, begun, doomed, ended>>

\* A statement fails or the process dies: nothing of the transaction is left.
Fail(c) ==
    /\ faults < MaxFaults
    /\ call[c].pc # "idle"
    /\ Answer(c)
    /\ faults' = faults + 1
    /\ UNCHANGED <<now, pair, denied, jtis, requests, begun, doomed, ended>>

Tick ==
    /\ now < MaxTime
    /\ \A c \in Calls : call[c].pc # "idle" => now < call[c].start + MaxOpen
    /\ now' = now + 1
    /\ UNCHANGED <<pair, denied, jtis, call, requests, faults, begun, doomed, ended>>

Step(c) ==
    \/ LockRow(c) \/ Rotate(c)
    \/ BeginRevoke(c) \/ CommitRevocation(c) \/ DeadlockAbort(c)
    \/ \E p \in Pairs : LockNext(c, p)

Next ==
    \/ Login \/ Tick
    \/ \E c \in Calls : \/ Step(c) \/ Fail(c)
                        \/ \E p \in Pairs : BeginRefresh(c, p) \/ BeginLogout(c, p)

Spec == Init /\ [][Next]_vars

\* A transaction's next statement is sent when the last has been answered.
FairSpec == Spec /\ \A c \in Calls : WF_vars(Step(c))

-----------------------------------------------------------------------------
\* A refresh token is rotated once and whole: it is marked used exactly when
\* one pair was issued for it, however many requests present it at once.
RotatedOnce ==
    \A p \in Made :
      Cardinality({q \in Made : pair[q].parent = p}) = IF pair[p].used THEN 1 ELSE 0

\* A refresh row that is revoked gets no child: a revocation that meets a
\* rotation waits for it, and a rotation that meets a revocation is rejected.
NoChildOfRevoked ==
    [][\A q \in Pairs :
         pair[q].family = None /\ pair'[q].parent # None =>
           ~pair[pair'[q].parent].revoked]_vars

\* Once a family's revocation has committed (reuse or logout), no access token
\* issued in it before is accepted, save in the last MaxOpen ticks of its life:
\* the denylist row counts from BEGIN, the token from its signature.
RevokedTokensDenied ==
    \A p \in doomed : Accepts(p) => now + MaxOpen >= pair[p].signed + AccessTTL

\* The token a logout was sent with is never accepted again, whatever other
\* revocations of the family do to the family's own row.
LoggedOutTokenDenied == \A p \in ended : ~Accepts(p)

\* A family whose revocation has begun ends up denied even when the call is
\* the victim of a deadlock, its rows were revoked by another call meanwhile or
\* were swept, as long as nothing fails.
BegunIsDenied ==
    \A p \in begun :
      \/ p \in doomed \/ faults > 0
      \/ \E c \in Calls : /\ call[c].pc \in {"revoke", "lock"}
                          /\ pair[call[c].token].family = pair[p].family

\* What a client holds is worth what the tables say: one child per refresh
\* token, and no access token that outlives its revocation.
TokensSafe ==
    RotatedOnce /\ RevokedTokensDenied /\ LoggedOutTokenDenied /\ BegunIsDenied

\* Every request is answered: in the end, none is under way.
CallsEnd == <>[](\A c \in Calls : call[c].pc = "idle")

=============================================================================
