-------------------------- MODULE AuthTokensProofs --------------------------
(***************************************************************************)
(* For any number of concurrent requests, logins and pairs, and any TTLs:  *)
(* refresh tokens rotate once, revoked rows have no child, and a           *)
(* revocation denies the access tokens it is about.                        *)
(***************************************************************************)
EXTENDS AuthTokens, FiniteSetTheorems, TLAPS

\* The pairs issued are the first ones, and each stems from one of them.
Rows ==
    /\ \E n \in Nat : Made = 1 .. n
    /\ \A p \in Pairs \ Made : pair[p].parent = None /\ ~pair[p].there /\ ~pair[p].used
    /\ \A p \in Made : pair[p].parent \in Made \union {None} /\ pair[p].signed <= now

\* Refreshes that can still issue a pair, each of which has a number left.
Renewing ==
    {c \in Calls :
       \/ call[c].pc = "rotate"
       \/ /\ call[c].pc = "select"
          /\ ~pair[call[c].token].used /\ ~pair[call[c].token].revoked}

Reserved == Cardinality(Made) + Cardinality(Renewing) <= MaxPairs

\* What a transaction has locked: nothing before its first SELECT, the unused
\* row it rotates, rows of the family it revokes.
Transactions ==
    \A c \in Calls :
        /\ call[c].pc # "idle" => /\ call[c].token \in Made
                                  /\ call[c].start <= now
                                  /\ now <= call[c].start + MaxOpen
        /\ call[c].pc \in {"idle", "select"} => call[c].held = {} /\ call[c].todo = {}
        /\ call[c].pc = "rotate" => /\ call[c].held = {call[c].token}
                                    /\ ~pair[call[c].token].used
                                    /\ ~pair[call[c].token].revoked
        /\ call[c].pc \in {"revoke", "lock"} =>
             call[c].held \union call[c].todo \subseteq Family(pair[call[c].token].family)

\* RotatedOnce without counting.
OneChild ==
    /\ \A q, r \in Made :
         pair[q].parent = pair[r].parent /\ pair[q].parent # None => q = r
    /\ \A p \in Made : pair[p].used <=> \E q \in Made : pair[q].parent = p

\* The row of a revoked family outlives its tokens but for the MaxOpen ticks,
\* and the row of a jti its token.
Denials ==
    /\ doomed \subseteq Made
    /\ \A p \in doomed :
         \/ denied[pair[p].family] + MaxOpen >= pair[p].signed + AccessTTL
         \/ now + MaxOpen >= pair[p].signed + AccessTTL
    /\ ended \subseteq Made
    /\ \A p \in ended : p \in jtis \/ now >= pair[p].signed + AccessTTL

IInv ==
    /\ TypeOK /\ Rows /\ Reserved /\ Transactions /\ OneChild /\ Denials
    /\ begun \subseteq Made /\ BegunIsDenied

-----------------------------------------------------------------------------
(* Counting.                                                               *)

\* The next pair is the number after the last.
LEMMA Numbered ==
    ASSUME \E n \in Nat : Made = 1 .. n
    PROVE  /\ Cardinality(Made) \in Nat
           /\ Made = 1 .. Cardinality(Made)
           /\ NextPair \notin Made
           /\ Made \union {NextPair} = 1 .. NextPair
           /\ Cardinality(Made \union {NextPair}) = NextPair
           /\ NextPair = Cardinality(Made) + 1
  <1>1. PICK n \in Nat : Made = 1 .. n
    OBVIOUS
  <1>2. Cardinality(Made) = n
    BY <1>1, FS_Interval
  <1>3. Cardinality(1 .. n + 1) = n + 1
    BY FS_Interval
  <1>4. 1 .. n \union {n + 1} = 1 .. n + 1
    OBVIOUS
  <1>5. Made \union {NextPair} = 1 .. n + 1 /\ NextPair = n + 1
    BY <1>1, <1>2, <1>4 DEF NextPair
  <1>6. Cardinality(Made \union {NextPair}) = NextPair
    BY <1>3, <1>5
  <1>7. NextPair \notin Made
    BY <1>1, <1>5
  <1> QED
    BY <1>1, <1>2, <1>5, <1>6, <1>7

\* Sets of requests are finite, and no larger than a set that includes them.
LEMMA CallsCount ==
    ASSUME NEW S \in SUBSET Calls, NEW T \in SUBSET S
    PROVE  /\ Cardinality(S) \in Nat /\ Cardinality(T) \in Nat
           /\ Cardinality(T) <= Cardinality(S)
           /\ \A c \in Calls : Cardinality(S \union {c}) <= Cardinality(S) + 1
           /\ \A c \in S : Cardinality(S \ {c}) = Cardinality(S) - 1
  <1>1. IsFiniteSet(S)
    BY AuthAssumption, FS_Subset
  <1>2. Cardinality(S) \in Nat /\ Cardinality(T) \in Nat /\ Cardinality(T) <= Cardinality(S)
    BY <1>1, FS_Subset, FS_CardinalityType
  <1>3. ASSUME NEW c \in Calls PROVE Cardinality(S \union {c}) <= Cardinality(S) + 1
    BY <1>1, <1>2, FS_AddElement
  <1>4. ASSUME NEW c \in S PROVE Cardinality(S \ {c}) = Cardinality(S) - 1
    BY <1>1, FS_RemoveElement
  <1> QED
    BY <1>2, <1>3, <1>4

\* A step that issues no pair and lets no further request rotate.
LEMMA ReservedStays ==
    ASSUME Reserved, \E n \in Nat : Made = 1 .. n, Made' = Made, Renewing' \subseteq Renewing
    PROVE  Reserved'
  <1>1. Renewing \in SUBSET Calls
    BY DEF Renewing
  <1>2. /\ Cardinality(Renewing) \in Nat /\ Cardinality(Renewing') \in Nat
        /\ Cardinality(Renewing') <= Cardinality(Renewing)
    BY <1>1, CallsCount
  <1>3. Cardinality(Made) \in Nat
    BY Numbered
  <1> QED
    BY <1>2, <1>3, AuthAssumption DEF Reserved

-----------------------------------------------------------------------------
(* Preservation.                                                           *)

LEMMA InitInv == Init => IInv
  <1> SUFFICES ASSUME Init PROVE IInv
    OBVIOUS
  <1> USE AuthAssumption DEF Init
  <1>1. TypeOK
    BY DEF TypeOK, NoPair, Idle, Pairs
  <1>2. Made = {} /\ Renewing = {}
    BY DEF Made, Renewing, NoPair, Idle
  <1>3. Rows
    BY <1>2 DEF Rows, NoPair
  <1>4. Reserved
    BY <1>2, FS_EmptySet DEF Reserved
  <1>5. Transactions
    BY DEF Transactions, Idle
  <1>6. OneChild /\ Denials /\ begun \subseteq Made /\ BegunIsDenied
    BY <1>2 DEF OneChild, Denials, BegunIsDenied
  <1> QED
    BY <1>1, <1>3, <1>4, <1>5, <1>6 DEF IInv

\* The parts of the invariant that are about the rows and their denials alone,
\* for a step that leaves them as they are.
LEMMA TablesStay ==
    ASSUME IInv, UNCHANGED <<now, pair, denied, jtis, doomed, ended>>
    PROVE  /\ Made' = Made /\ Rows' /\ OneChild' /\ Denials'
           /\ \A f : Family(f)' = Family(f)
  BY DEF IInv, Made, Family, Rows, OneChild, Denials

\* A request under way gives up, or has done with its transaction.
LEMMA AnswerInv ==
    ASSUME IInv, NEW c \in Calls, Answer(c),
           UNCHANGED <<now, pair, denied, jtis, requests, begun, doomed, ended>>,
           faults' \in 0 .. MaxFaults, BegunIsDenied'
    PROVE  IInv'
  <1> USE DEF Answer, Idle
  <1>1. TypeOK'
    BY AuthAssumption DEF IInv, TypeOK
  <1>2. Made' = Made /\ Rows' /\ OneChild' /\ Denials' /\ \A f : Family(f)' = Family(f)
    BY TablesStay
  <1>3. Transactions'
    BY <1>2 DEF IInv, TypeOK, Transactions
  <1>4. Renewing' \subseteq Renewing
    BY DEF IInv, TypeOK, Renewing
  <1>5. Reserved'
    BY <1>2, <1>4, ReservedStays DEF IInv, Rows
  <1> QED
    BY <1>1, <1>2, <1>3, <1>5 DEF IInv

\* Every ended request leaves what it began to another of the family, unless
\* something failed.
LEMMA DeadlockLeavesOne ==
    ASSUME IInv, NEW c \in Calls, DeadlockAbort(c)
    PROVE  BegunIsDenied'
  <1>1. PICK d \in Calls :
          /\ WaitsFor(c, d)
          /\ WaitsFor(d, c) \/ \E e \in Calls : WaitsFor(d, e) /\ WaitsFor(e, c)
    BY DEF DeadlockAbort, InCycle
  <1>2. \A x, y \in Calls : WaitsFor(x, y) =>
          /\ x # y /\ call[x].pc \in {"select", "lock"} /\ call[y].held # {}
    BY DEF WaitsFor, Waits
  <1>3. \A x \in Calls : call[x].held # {} => call[x].pc \in {"rotate", "revoke", "lock"}
    BY DEF IInv, TypeOK, Transactions
  <1>4. call[c].pc = "lock" /\ call[d].pc = "lock" /\ c # d
    BY <1>1, <1>2, <1>3
  <1>5. PICK q \in call[c].todo : q \in call[d].held
    BY <1>1, <1>4 DEF WaitsFor, Waits, FirstOf
  <1>6. pair[call[d].token].family = pair[call[c].token].family
    BY <1>4, <1>5 DEF IInv, Transactions, Family
  <1> QED
    BY <1>4, <1>6 DEF IInv, TypeOK, BegunIsDenied, DeadlockAbort, Answer, Idle

LEMMA EndsInv ==
    ASSUME IInv, NEW c \in Calls, DeadlockAbort(c) \/ Fail(c)
    PROVE  IInv'
  <1>1. CASE DeadlockAbort(c)
    <2>1. faults' \in 0 .. MaxFaults
      BY <1>1 DEF DeadlockAbort, IInv, TypeOK
    <2> QED
      BY <1>1, <2>1, DeadlockLeavesOne, AnswerInv DEF DeadlockAbort
  <1>2. CASE Fail(c)
    <2>1. faults' \in 0 .. MaxFaults /\ faults' > 0
      BY <1>2, AuthAssumption DEF Fail, IInv, TypeOK
    <2>2. BegunIsDenied'
      BY <2>1 DEF BegunIsDenied
    <2> QED
      BY <1>2, <2>1, <2>2, AnswerInv DEF Fail
  <1> QED
    BY <1>1, <1>2

\* A request for a family that is under way stays under way: what has begun is
\* then still owed to somebody.
LEMMA BegunStays ==
    ASSUME IInv, UNCHANGED <<pair, doomed>>, begun' = begun, faults' = faults,
           \A c \in Calls : call[c].pc \in {"revoke", "lock"} =>
             call'[c].pc \in {"revoke", "lock"} /\ call'[c].token = call[c].token
    PROVE  BegunIsDenied'
  BY DEF IInv, BegunIsDenied

\* A transaction as TypeOK has it.
CallType == [pc : {"idle", "select", "rotate", "revoke", "lock"},
             token : Pairs \union {None}, logout : BOOLEAN,
             start : 0 .. MaxTime, held : SUBSET Pairs, todo : SUBSET Pairs]

\* A step of one transaction that locks nothing another has locked.
LEMMA CallTyped ==
    ASSUME TypeOK, NEW c \in Calls, call' = [call EXCEPT ![c] = call'[c]],
           call'[c] \in CallType,
           \A d \in Calls \ {c} : call'[c].held \intersect call[d].held = {},
           UNCHANGED <<now, pair, denied, jtis, doomed, ended>>,
           requests' \in 0 .. MaxRequests, faults' \in 0 .. MaxFaults, begun' \subseteq Pairs
    PROVE  TypeOK'
  <1>1. call' \in [Calls -> CallType]
    BY DEF TypeOK, CallType
  <1>2. \A d, e \in Calls : d # e => call'[d].held \intersect call'[e].held = {}
    BY DEF TypeOK
  <1> QED
    BY <1>1, <1>2 DEF TypeOK, CallType

\* BEGIN of a refresh: it counts only if it can still issue a pair.
LEMMA BeginRefreshInv ==
    ASSUME IInv, NEW c \in Calls, NEW p \in Pairs, BeginRefresh(c, p)
    PROVE  IInv'
  <1> USE DEF BeginRefresh, Idle
  <1>1. TypeOK'
    <2> DEFINE r == [Idle EXCEPT !.pc = "select", !.token = p, !.start = now]
    <2>1. r \in CallType /\ r.held = {}
      BY DEF IInv, TypeOK, CallType
    <2>2. requests' \in 0 .. MaxRequests /\ faults' \in 0 .. MaxFaults /\ begun' \subseteq Pairs
      BY AuthAssumption DEF IInv, TypeOK
    <2>3. call' = [call EXCEPT ![c] = r] /\ call'[c] = r
      BY DEF IInv, TypeOK
    <2>4. TypeOK /\ UNCHANGED <<now, pair, denied, jtis, doomed, ended>>
      BY DEF IInv
    <2> HIDE DEF r
    <2> QED
      BY <2>1, <2>2, <2>3, <2>4, CallTyped
  <1>2. Made' = Made /\ Rows' /\ OneChild' /\ Denials' /\ \A f : Family(f)' = Family(f)
    BY TablesStay
  <1>3. Transactions'
    BY <1>2, AuthAssumption DEF IInv, TypeOK, Transactions
  <1>4. Reserved'
    <2>1. CASE Room
      <3>1. Rotating \in SUBSET Calls /\ Renewing' \subseteq Rotating \union {c}
        BY DEF IInv, TypeOK, Renewing, Rotating
      <3>2. /\ Cardinality(Rotating) \in Nat
            /\ Cardinality(Rotating \union {c}) <= Cardinality(Rotating) + 1
        BY <3>1, CallsCount
      <3>3. /\ Cardinality(Renewing') \in Nat
            /\ Cardinality(Renewing') <= Cardinality(Rotating \union {c})
            /\ Cardinality(Rotating \union {c}) \in Nat
        BY <3>1, CallsCount
      <3>4. Cardinality(Made) \in Nat
        BY Numbered DEF IInv, Rows
      <3> QED
        BY <2>1, <3>2, <3>3, <3>4, <1>2, AuthAssumption DEF Room, Reserved
    <2>2. CASE ~Room
      <3>1. Renewing' \subseteq Renewing
        BY <2>2 DEF IInv, TypeOK, Renewing
      <3> QED
        BY <3>1, <1>2, ReservedStays DEF IInv, Rows
    <2> QED
      BY <2>1, <2>2
  <1>5. BegunIsDenied'
    BY BegunStays DEF IInv, TypeOK
  <1> QED
    BY <1>1, <1>2, <1>3, <1>4, <1>5 DEF IInv

\* BEGIN of a logout, whose token the guard accepted.
LEMMA BeginLogoutInv ==
    ASSUME IInv, NEW c \in Calls, NEW p \in Pairs, BeginLogout(c, p)
    PROVE  IInv'
  <1> USE DEF BeginLogout, Idle
  <1>1. TypeOK'
    <2> DEFINE r == [Idle EXCEPT !.pc = "revoke", !.token = p,
                                 !.logout = TRUE, !.start = now]
    <2>1. r \in CallType /\ r.held = {}
      BY DEF IInv, TypeOK, CallType
    <2>2. requests' \in 0 .. MaxRequests /\ faults' \in 0 .. MaxFaults /\ begun' \subseteq Pairs
      BY AuthAssumption DEF IInv, TypeOK
    <2>3. call' = [call EXCEPT ![c] = r] /\ call'[c] = r
      BY DEF IInv, TypeOK
    <2>4. TypeOK /\ UNCHANGED <<now, pair, denied, jtis, doomed, ended>>
      BY DEF IInv
    <2> HIDE DEF r
    <2> QED
      BY <2>1, <2>2, <2>3, <2>4, CallTyped
  <1>2. Made' = Made /\ Rows' /\ OneChild' /\ Denials' /\ \A f : Family(f)' = Family(f)
    BY TablesStay
  <1>3. Transactions'
    BY <1>2, AuthAssumption DEF IInv, TypeOK, Transactions, Accepts
  <1>4. Renewing' \subseteq Renewing
    BY DEF IInv, TypeOK, Renewing
  <1>5. Reserved'
    BY <1>2, <1>4, ReservedStays DEF IInv, Rows
  <1>6. BegunIsDenied'
    BY BegunStays DEF IInv, TypeOK
  <1> QED
    BY <1>1, <1>2, <1>3, <1>5, <1>6 DEF IInv

\* SELECT ... FOR UPDATE: nobody else has the row.
LEMMA LockRowInv ==
    ASSUME IInv, NEW c \in Calls, LockRow(c)
    PROVE  IInv'
  <1> DEFINE p == call[c].token
             next == Outcome(pair[p], call[c].start)
             r == [call[c] EXCEPT !.pc = next, !.held = {p}]
  <1>1. /\ call[c].pc = "select"
        /\ call' = [call EXCEPT ![c] = IF next = "reject" THEN Idle ELSE r]
        /\ UNCHANGED <<now, pair, denied, jtis, requests, faults, begun, doomed, ended>>
    BY DEF LockRow
  <1>2. BegunIsDenied'
    BY <1>1, BegunStays DEF IInv, TypeOK
  <1>3. CASE next = "reject"
    <2>1. Answer(c)
      BY <1>1, <1>3 DEF Answer
    <2>2. faults' \in 0 .. MaxFaults
      BY <1>1 DEF IInv, TypeOK
    <2> QED
      BY <1>1, <1>2, <2>1, <2>2, AnswerInv
  <1>4. CASE next # "reject"
    <2>1. /\ next \in {"revoke", "rotate"}
          /\ next = "rotate" => ~pair[p].used /\ ~pair[p].revoked
      BY <1>4 DEF Outcome
    <2>2. /\ p \in Made /\ p \in Pairs /\ \A d \in Calls : p \notin call[d].held
          /\ call[c].start <= now /\ now <= call[c].start + MaxOpen
          /\ call[c].todo = {}
      BY <1>1 DEF LockRow, IInv, Transactions, Made, Locked
    <2> HIDE DEF next
    <2>3. /\ r \in CallType /\ r.held = {p} /\ r.pc = next /\ r.token = p
          /\ r.start = call[c].start /\ r.todo = {}
      BY <2>1, <2>2 DEF IInv, TypeOK, CallType
    <2> HIDE DEF r
    <2>4. /\ call' = [call EXCEPT ![c] = r] /\ call'[c] = r
          /\ \A d \in Calls \ {c} : call'[d] = call[d]
      BY <1>1, <1>4 DEF IInv, TypeOK
    <2>5. TypeOK'
      <3>1. /\ requests' \in 0 .. MaxRequests /\ faults' \in 0 .. MaxFaults
            /\ begun' \subseteq Pairs /\ TypeOK
        BY <1>1 DEF IInv, TypeOK
      <3>2. \A d \in Calls \ {c} : r.held \intersect call[d].held = {}
        BY <2>2, <2>3
      <3> QED
        BY <1>1, <2>3, <2>4, <3>1, <3>2, CallTyped
    <2>6. Made' = Made /\ Rows' /\ OneChild' /\ Denials' /\ \A f : Family(f)' = Family(f)
      BY <1>1, TablesStay
    <2>7. p \in Family(pair[p].family)
      BY <2>2 DEF Family
    <2>8. Transactions'
      <3> SUFFICES ASSUME NEW d \in Calls
                   PROVE  /\ call'[d].pc # "idle" => /\ call'[d].token \in Made
                                                     /\ call'[d].start <= now
                                                     /\ now <= call'[d].start + MaxOpen
                          /\ call'[d].pc \in {"idle", "select"} => call'[d].held = {} /\ call'[d].todo = {}
                          /\ call'[d].pc = "rotate" => /\ call'[d].held = {call'[d].token}
                                                       /\ ~pair[call'[d].token].used
                                                       /\ ~pair[call'[d].token].revoked
                          /\ call'[d].pc \in {"revoke", "lock"} =>
                               call'[d].held \union call'[d].todo
                                 \subseteq Family(pair[call'[d].token].family)
        BY <1>1, <2>6 DEF Transactions
      <3>1. CASE d = c
        BY <2>1, <2>2, <2>3, <2>4, <2>7, <3>1
      <3>2. CASE d # c
        BY <2>4, <3>2 DEF IInv, Transactions
      <3> QED
        BY <3>1, <3>2
    <2>9. Renewing' \subseteq Renewing
      BY <1>1, <2>1, <2>3, <2>4 DEF Renewing
    <2>10. Reserved'
      BY <2>6, <2>9, ReservedStays DEF IInv, Rows
    <2> QED
      BY <1>1, <1>2, <2>5, <2>6, <2>8, <2>10 DEF IInv
  <1> QED
    BY <1>3, <1>4

\* The snapshot of the UPDATE, of the family's rows only.
LEMMA BeginRevokeInv ==
    ASSUME IInv, NEW c \in Calls, BeginRevoke(c)
    PROVE  IInv'
  <1> USE DEF BeginRevoke
  <1>1. TypeOK'
    <2> DEFINE r == [call[c] EXCEPT !.pc = "lock",
                       !.todo = {p \in Family(pair[call[c].token].family) :
                                   pair[p].there /\ ~pair[p].revoked} \ call[c].held]
    <2>1. r \in CallType /\ r.held = call[c].held
      BY DEF IInv, TypeOK, CallType, Family, Made
    <2>6. \A d \in Calls \ {c} : r.held \intersect call[d].held = {}
      BY <2>1 DEF IInv, TypeOK
    <2>2. call' = [call EXCEPT ![c] = r] /\ call'[c] = r
      BY DEF IInv, TypeOK
    <2>4. TypeOK /\ UNCHANGED <<now, pair, denied, jtis, doomed, ended>>
      BY DEF IInv
    <2>3. begun' \subseteq Pairs
      BY DEF IInv, TypeOK, Transactions, Made
    <2>5. requests' \in 0 .. MaxRequests /\ faults' \in 0 .. MaxFaults /\ begun' \subseteq Pairs
      BY <2>3 DEF IInv, TypeOK
    <2> HIDE DEF r
    <2> QED
      BY <2>1, <2>2, <2>4, <2>5, <2>6, CallTyped
  <1>2. Made' = Made /\ Rows' /\ OneChild' /\ Denials' /\ \A f : Family(f)' = Family(f)
    BY TablesStay
  <1>3. Transactions'
    BY <1>2 DEF IInv, TypeOK, Transactions
  <1>4. Renewing' \subseteq Renewing
    BY DEF IInv, TypeOK, Renewing
  <1>5. Reserved'
    BY <1>2, <1>4, ReservedStays DEF IInv, Rows
  <1>6. begun' \subseteq Made
    BY DEF IInv, Transactions
  <1>7. BegunIsDenied'
    BY DEF IInv, TypeOK, BegunIsDenied
  <1> QED
    BY <1>1, <1>2, <1>3, <1>5, <1>6, <1>7 DEF IInv

LEMMA LockNextInv ==
    ASSUME IInv, NEW c \in Calls, NEW p \in Pairs, LockNext(c, p)
    PROVE  IInv'
  <1> USE DEF LockNext
  <1>1. p \in call[c].todo /\ \A d \in Calls : p \notin call[d].held
    BY DEF FirstOf, Locked
  <1>2. TypeOK'
    <2> DEFINE r == [call[c] EXCEPT !.todo = @ \ {p},
                       !.held = IF pair[p].there THEN @ \union {p} ELSE @]
    <2>1. r \in CallType /\ r.held \subseteq call[c].held \union {p}
      BY DEF IInv, TypeOK, CallType
    <2>2. call' = [call EXCEPT ![c] = r] /\ call'[c] = r
      BY DEF IInv, TypeOK
    <2>4. TypeOK /\ UNCHANGED <<now, pair, denied, jtis, doomed, ended>>
      BY DEF IInv
    <2>5. requests' \in 0 .. MaxRequests /\ faults' \in 0 .. MaxFaults /\ begun' \subseteq Pairs
      BY DEF IInv, TypeOK
    <2>3. \A d \in Calls \ {c} : r.held \intersect call[d].held = {}
      BY <1>1, <2>1 DEF IInv, TypeOK
    <2> HIDE DEF r
    <2> QED
      BY <2>1, <2>2, <2>3, <2>4, <2>5, CallTyped
  <1>3. Made' = Made /\ Rows' /\ OneChild' /\ Denials' /\ \A f : Family(f)' = Family(f)
    BY TablesStay
  <1>4. Transactions'
    BY <1>1, <1>3 DEF IInv, TypeOK, Transactions
  <1>5. Renewing' \subseteq Renewing
    BY DEF IInv, TypeOK, Renewing
  <1>6. Reserved'
    BY <1>3, <1>5, ReservedStays DEF IInv, Rows
  <1>7. BegunIsDenied'
    BY BegunStays DEF IInv, TypeOK
  <1> QED
    BY <1>2, <1>3, <1>4, <1>6, <1>7 DEF IInv

\* Time passes: no transaction is open longer than MaxOpen.
LEMMA TickInv ==
    ASSUME IInv, Tick
    PROVE  IInv'
  <1> USE DEF Tick
  <1>1. now' = now + 1 /\ now \in Nat /\ now' \in 0 .. MaxTime
    BY AuthAssumption DEF IInv, TypeOK
  <1>2. TypeOK'
    BY <1>1 DEF IInv, TypeOK
  <1>3. Made' = Made /\ \A f : Family(f)' = Family(f)
    BY DEF Made, Family
  <1>4. \A p \in Made : pair[p].signed \in Nat /\ pair[p].family \in Pairs
    BY AuthAssumption DEF IInv, TypeOK, Made
  <1>5. Rows' /\ OneChild'
    <2>1. \A p \in Made : pair[p].signed <= now + 1
      BY <1>1, <1>4 DEF IInv, Rows
    <2> QED
      BY <1>1, <1>3, <2>1 DEF IInv, Rows, OneChild
  <1>6. Denials'
    BY <1>1, <1>3, <1>4, AuthAssumption DEF IInv, TypeOK, Denials
  <1>7. Transactions'
    <2>1. \A c \in Calls : call[c].start \in Nat
      BY AuthAssumption DEF IInv, TypeOK
    <2> QED
      BY <1>1, <1>3, <2>1, AuthAssumption DEF IInv, Transactions
  <1>8. Reserved' /\ begun' \subseteq Made' /\ BegunIsDenied'
    BY <1>3 DEF IInv, Reserved, Renewing, BegunIsDenied
  <1> QED
    BY <1>2, <1>5, <1>6, <1>7, <1>8 DEF IInv

-----------------------------------------------------------------------------
(* Steps that issue a pair.                                                *)

RowType == [family : Pairs \union {None}, parent : Pairs \union {None},
            signed : 0 .. MaxTime, expires : 0 .. MaxTime + RefreshTTL,
            used : BOOLEAN, revoked : BOOLEAN, there : BOOLEAN]

\* What no statement changes of the row of a pair that was issued.
Kept(p) ==
    /\ pair'[p].family = pair[p].family
    /\ pair'[p].parent = pair[p].parent
    /\ pair'[p].signed = pair[p].signed

\* A pair is issued under the next number, to a family that has a pair or to
\* itself.
LEMMA IssueKeeps ==
    ASSUME IInv, now' = now, NextPair \in Pairs,
           \A q \in Pairs \ {NextPair} :
             Kept(q) /\ (q \notin Made => pair'[q] = pair[q]),
           pair'[NextPair].family \in Pairs, pair'[NextPair].signed = now,
           pair'[NextPair].parent \in Made \union {None}
    PROVE  /\ Made' = Made \union {NextPair} /\ NextPair \notin Made
           /\ Rows'
           /\ Cardinality(Made') = Cardinality(Made) + 1
           /\ \A f : Family(f) \subseteq Family(f)'
  <1>1. /\ NextPair \notin Made /\ Made \union {NextPair} = 1 .. NextPair
        /\ NextPair \in Nat /\ NextPair = Cardinality(Made) + 1
        /\ Cardinality(Made \union {NextPair}) = NextPair
    BY Numbered DEF IInv, Rows
  <1>2. Made' = Made \union {NextPair}
    BY AuthAssumption DEF Made, Kept, Pairs
  <1>5. \A q \in Made : q \in Pairs \ {NextPair} /\ Kept(q)
    BY <1>1 DEF Made
  <1>3. Rows'
    <2>1. \E m \in Nat : Made' = 1 .. m
      BY <1>1, <1>2
    <2>2. \A q \in Pairs \ Made' : pair'[q] = pair[q] /\ q \in Pairs \ Made
      BY <1>2
    <2>3. \A q \in Made' : pair'[q].parent \in Made' \union {None} /\ pair'[q].signed <= now'
      <3>1. now <= now
        BY AuthAssumption DEF IInv, TypeOK
      <3> QED
        BY <1>2, <1>5, <3>1 DEF IInv, Rows, Kept
    <2> QED
      BY <2>1, <2>2, <2>3 DEF IInv, Rows
  <1>4. \A f : Family(f) \subseteq Family(f)'
    BY <1>2, <1>5 DEF Family, Kept
  <1> QED
    BY <1>1, <1>2, <1>3, <1>4

\* Denials that a sweep leaves are those of tokens that have not expired.
LEMMA DenialsStay ==
    ASSUME IInv, now' = now, doomed' = doomed, ended' = ended,
           Made \subseteq Made', \A p \in Made : Kept(p),
           \A f \in Pairs : denied'[f] = denied[f] \/ denied[f] <= now,
           \A p \in jtis : p \in jtis' \/ now >= pair[p].signed + AccessTTL
    PROVE  Denials'
  <1>1. \A p \in Made : pair[p].signed \in Nat /\ pair[p].family \in Pairs
                        /\ denied[pair[p].family] \in Nat
    BY AuthAssumption DEF IInv, TypeOK, Made
  <1>2. now \in Nat /\ MaxOpen \in Nat /\ AccessTTL \in Nat
    BY AuthAssumption DEF IInv, TypeOK
  <1> QED
    BY <1>1, <1>2 DEF IInv, Denials, Kept

\* What was begun stays denied or under way when a pair is issued.
LEMMA BegunStaysWithPairs ==
    ASSUME IInv, begun' = begun, doomed' = doomed, faults' = faults,
           \A p \in Made : Kept(p),
           \A c \in Calls : call[c].pc \in {"revoke", "lock"} => call'[c] = call[c]
    PROVE  BegunIsDenied'
  BY DEF IInv, BegunIsDenied, Transactions, Kept

LEMMA LoginInv ==
    ASSUME IInv, Login
    PROVE  IInv'
  <1> DEFINE n == NextPair
  <1>1. /\ Cardinality(Made) \in Nat /\ n = Cardinality(Made) + 1
        /\ Rotating \in SUBSET Calls /\ Renewing \subseteq Rotating
    BY Numbered DEF IInv, Rows, Rotating, Renewing
  <1>2. /\ Cardinality(Rotating) \in Nat /\ Cardinality(Renewing) \in Nat
        /\ Cardinality(Renewing) <= Cardinality(Rotating)
    BY <1>1, CallsCount
  <1>3. n \in Pairs
    BY <1>1, <1>2, AuthAssumption DEF Login, Room, Pairs
  <1>4. now \in Nat /\ now \in 0 .. MaxTime /\ MaxTime \in Nat /\ RefreshTTL \in Nat
    BY AuthAssumption DEF IInv, TypeOK
  <1>5. n \notin Made
    BY Numbered DEF IInv, Rows
  <1>6. \A q \in Pairs \ {n} :
          /\ pair'[q] \in {pair[q], [pair[q] EXCEPT !.there = FALSE]}
          /\ ~pair[q].there => pair'[q] = pair[q]
    BY DEF Login, Swept
  <1>7. pair'[n] = [family |-> n, parent |-> None, signed |-> now,
                    expires |-> now + RefreshTTL, used |-> FALSE,
                    revoked |-> FALSE, there |-> TRUE]
    BY <1>3 DEF Login, Swept, NewPair
  <1>8. pair' \in [Pairs -> RowType]
    <2>1. DOMAIN pair' = Pairs /\ pair' = [q \in Pairs |-> pair'[q]]
      BY DEF Login, Swept
    <2>2. pair'[n] \in RowType
      BY <1>3, <1>4, <1>7 DEF RowType
    <2>3. \A q \in Pairs \ {n} : pair'[q] \in RowType
      <3>1. \A row \in RowType : [row EXCEPT !.there = FALSE] \in RowType
        BY DEF RowType
      <3>2. \A q \in Pairs : pair[q] \in RowType
        BY DEF IInv, TypeOK, RowType
      <3> HIDE DEF n
      <3> QED
        BY <1>6, <3>1, <3>2
    <2> QED
      BY <2>1, <2>2, <2>3
  <1>9. /\ \A f \in Pairs : denied'[f] = denied[f] \/ denied[f] <= now
        /\ denied' \in [Pairs -> 0 .. MaxTime + AccessTTL]
    BY AuthAssumption DEF Login, SweptFamilies, IInv, TypeOK
  <1>10. /\ jtis' \subseteq Pairs
         /\ \A p \in jtis : p \in jtis' \/ now >= pair[p].signed + AccessTTL
    BY <1>4, AuthAssumption DEF Login, SweptJtis, IInv, TypeOK
  <1>11. /\ UNCHANGED <<now, call, requests, faults, begun, doomed, ended>>
         /\ Cardinality(Made) + Cardinality(Rotating) < MaxPairs
    BY DEF Login, Room
  <1>12. TypeOK'
    BY <1>8, <1>9, <1>10, <1>11 DEF IInv, TypeOK, RowType
  <1>13. \A q \in Pairs \ {n} : Kept(q) /\ (q \notin Made => pair'[q] = pair[q])
    BY <1>6 DEF Kept, IInv, TypeOK, Rows
  <1>14. /\ Made' = Made \union {n} /\ Rows' /\ Cardinality(Made') = Cardinality(Made) + 1
         /\ \A f : Family(f) \subseteq Family(f)'
    <2>1. /\ pair'[n].family \in Pairs /\ pair'[n].signed = now
          /\ pair'[n].parent \in Made \union {None}
      BY <1>3, <1>7
    <2> QED
      BY <1>3, <1>11, <1>13, <2>1, IssueKeeps
  <1>15. \A q \in Made : /\ Kept(q) /\ q \in Pairs \ {n}
                         /\ pair'[q].used = pair[q].used
                         /\ pair'[q].revoked = pair[q].revoked
    BY <1>5, <1>6, <1>13 DEF Made, IInv, TypeOK
  <1> HIDE DEF n
  <1>16. OneChild'
    BY <1>5, <1>7, <1>14, <1>15, AuthAssumption DEF IInv, OneChild, Rows, Kept, Made, Pairs
  <1>17. Transactions'
    BY <1>11, <1>14, <1>15 DEF IInv, Transactions, Kept
  <1>18. Renewing' \subseteq Renewing
    BY <1>11, <1>15 DEF IInv, Transactions, Renewing
  <1>19. Reserved'
    <2>1. Cardinality(Renewing') \in Nat /\ Cardinality(Renewing') <= Cardinality(Rotating)
      BY <1>1, <1>18, CallsCount
    <2> QED
      BY <1>1, <1>2, <1>11, <1>14, <2>1, AuthAssumption DEF Reserved
  <1>20. Denials'
    BY <1>9, <1>10, <1>11, <1>14, <1>15, DenialsStay
  <1>21. BegunIsDenied'
    BY <1>11, <1>15, BegunStaysWithPairs
  <1> QED
    BY <1>11, <1>12, <1>14, <1>16, <1>17, <1>19, <1>20, <1>21 DEF IInv

\* The one child of a row that nobody else has locked, so that nobody else
\* rotates or revokes it.
LEMMA RotateInv ==
    ASSUME IInv, NEW c \in Calls, Rotate(c)
    PROVE  IInv'
  <1> DEFINE n == NextPair
             p == call[c].token
  <1>1. /\ call[c].pc = "rotate" /\ p \in Made /\ call[c].held = {p}
        /\ ~pair[p].used /\ ~pair[p].revoked
    BY DEF Rotate, IInv, Transactions
  <1>2. /\ Cardinality(Made) \in Nat /\ n = Cardinality(Made) + 1 /\ n \notin Made
        /\ Renewing \in SUBSET Calls /\ c \in Renewing
    BY <1>1, Numbered DEF IInv, Rows, Renewing
  <1>3. /\ Cardinality(Renewing) \in Nat /\ Cardinality(Renewing \ {c}) \in Nat
        /\ Cardinality(Renewing \ {c}) = Cardinality(Renewing) - 1
    BY <1>2, CallsCount
  <1>4. n \in Pairs
    BY <1>2, <1>3, AuthAssumption DEF IInv, Reserved, Pairs
  <1>5. n # p /\ p \in Pairs /\ pair[p].family \in Pairs
    BY <1>1, <1>2, AuthAssumption DEF Made, IInv, TypeOK
  <1>6. /\ UNCHANGED <<now, denied, jtis, requests, faults, begun, doomed, ended>>
        /\ Answer(c)
        /\ pair' = [pair EXCEPT ![p].used = TRUE,
                      ![n] = NewPair(pair[p].family, p, call[c].start, now)]
    BY DEF Rotate
  <1>7. /\ now \in 0 .. MaxTime /\ now \in Nat /\ call[c].start \in Nat
        /\ call[c].start + RefreshTTL \in 0 .. MaxTime + RefreshTTL
    BY AuthAssumption DEF IInv, TypeOK
  <1>8. NewPair(pair[p].family, p, call[c].start, now) =
          [family |-> pair[p].family, parent |-> p, signed |-> now,
           expires |-> call[c].start + RefreshTTL, used |-> FALSE,
           revoked |-> FALSE, there |-> TRUE]
    BY DEF NewPair
  <1> HIDE DEF n, p
  <1>9. pair[p] \in RowType /\ pair \in [Pairs -> RowType]
    BY <1>5 DEF IInv, TypeOK, RowType
  <1>10. /\ pair'[n] = [family |-> pair[p].family, parent |-> p, signed |-> now,
                        expires |-> call[c].start + RefreshTTL, used |-> FALSE,
                        revoked |-> FALSE, there |-> TRUE]
         /\ pair'[p] = [pair[p] EXCEPT !.used = TRUE]
         /\ \A q \in Pairs \ {n, p} : pair'[q] = pair[q]
    BY <1>4, <1>5, <1>6, <1>8, <1>9
  <1>11. pair' \in [Pairs -> RowType]
    <2>1. pair'[n] \in RowType
      BY <1>5, <1>7, <1>10 DEF RowType
    <2>2. pair'[p] \in RowType
      BY <1>9, <1>10 DEF RowType
    <2> QED
      BY <1>4, <1>5, <1>6, <1>9, <1>10, <2>1, <2>2
  <1>12. /\ pair'[p].used /\ ~pair'[p].revoked /\ Kept(p)
         /\ \A q \in Pairs \ {n} : Kept(q) /\ (q \notin Made => pair'[q] = pair[q])
    BY <1>1, <1>9, <1>10 DEF Kept, RowType
  <1>13. /\ Made' = Made \union {n} /\ Rows' /\ Cardinality(Made') = Cardinality(Made) + 1
         /\ \A f : Family(f) \subseteq Family(f)'
    <2>1. /\ pair'[n].family \in Pairs /\ pair'[n].signed = now
          /\ pair'[n].parent \in Made \union {None}
      BY <1>1, <1>5, <1>10
    <2> QED
      BY <1>4, <1>6, <1>12, <2>1, IssueKeeps DEF n
  <1>14. \A q \in Made : q \in Pairs \ {n} /\ Kept(q)
    BY <1>2, <1>12 DEF Made
  <1>15. \A q \in Made \ {p} : pair'[q].used = pair[q].used /\ pair'[q].revoked = pair[q].revoked
    BY <1>10, <1>14
  <1>16. /\ call' = [call EXCEPT ![c] = Idle] /\ call'[c] = Idle
         /\ \A d \in Calls \ {c} : call'[d] = call[d]
    BY <1>6 DEF Answer, IInv, TypeOK
  <1>17. TypeOK'
    <2>1. /\ Idle \in CallType /\ Idle.held = {}
      BY AuthAssumption DEF Idle, CallType
    <2>2. call' \in [Calls -> CallType]
      BY <1>16, <2>1 DEF IInv, TypeOK, CallType
    <2>3. \A d, e \in Calls : d # e => call'[d].held \intersect call'[e].held = {}
      BY <1>16, <2>1 DEF IInv, TypeOK
    <2> QED
      BY <1>6, <1>11, <2>2, <2>3 DEF IInv, TypeOK, RowType, CallType
  <1>18. OneChild'
    <2>1. ~\E q \in Made : pair[q].parent = p
      BY <1>1 DEF IInv, OneChild
    <2>2. \A q \in Made : pair[q].parent # n
      BY <1>2, <1>4, AuthAssumption DEF IInv, Rows, Pairs
    <2>3. \A q, r \in Made' :
            pair'[q].parent = pair'[r].parent /\ pair'[q].parent # None => q = r
      BY <1>10, <1>13, <1>14, <2>1 DEF IInv, OneChild, Kept
    <2>4. \A q \in Made' : pair'[q].used <=> \E r \in Made' : pair'[r].parent = q
      <3>1. pair'[p].used /\ pair'[n].parent = p /\ n \in Made'
        BY <1>10, <1>12, <1>13
      <3>2. ~pair'[n].used /\ \A r \in Made' : pair'[r].parent # n
        BY <1>5, <1>10, <1>13, <1>14, <2>2 DEF Kept
      <3>3. \A q \in Made \ {p} : pair'[q].used <=> \E r \in Made : pair[r].parent = q
        BY <1>15 DEF IInv, OneChild
      <3>4. \A q \in Made \ {p} :
              (\E r \in Made' : pair'[r].parent = q) <=> \E r \in Made : pair[r].parent = q
        BY <1>10, <1>13, <1>14 DEF Kept
      <3> QED
        BY <1>13, <3>1, <3>2, <3>3, <3>4
    <2> QED
      BY <2>3, <2>4 DEF OneChild
  <1>19. \A d \in Calls \ {c} : call[d].pc = "rotate" => call[d].token # p
    BY <1>1 DEF IInv, TypeOK, Transactions
  <1>20. Transactions'
    <2>1. /\ call'[c].pc = "idle" /\ call'[c].held = {} /\ call'[c].todo = {}
      BY <1>16 DEF Idle
    <2>2. ASSUME NEW d \in Calls \ {c}, call[d].pc # "idle"
          PROVE  /\ call[d].token \in Made' /\ call[d].token \in Made
                 /\ Family(pair[call[d].token].family)
                      \subseteq Family(pair[call[d].token].family)'
      BY <1>13, <1>14, <1>16, <2>2 DEF IInv, Transactions, Kept
    <2>3. ASSUME NEW d \in Calls \ {c}, call[d].pc = "rotate"
          PROVE  ~pair'[call[d].token].used /\ ~pair'[call[d].token].revoked
      BY <1>15, <1>19, <2>3 DEF IInv, Transactions
    <2> QED
      BY <1>6, <1>16, <2>1, <2>2, <2>3 DEF IInv, Transactions
  <1>21. Renewing' \subseteq Renewing \ {c}
    BY <1>12, <1>15, <1>16 DEF IInv, Transactions, Renewing, Idle
  <1>22. Reserved'
    <2>1. /\ Cardinality(Renewing') \in Nat
          /\ Cardinality(Renewing') <= Cardinality(Renewing \ {c})
      BY <1>2, <1>21, CallsCount
    <2> QED
      BY <1>2, <1>3, <1>13, <2>1, AuthAssumption DEF IInv, Reserved
  <1>23. Denials'
    BY <1>6, <1>13, <1>14, DenialsStay
  <1>24. BegunIsDenied'
    BY <1>1, <1>6, <1>14, <1>16, BegunStaysWithPairs
  <1> QED
    BY <1>6, <1>13, <1>17, <1>18, <1>20, <1>22, <1>23, <1>24 DEF IInv

-----------------------------------------------------------------------------
(* A revocation commits.                                                   *)

\* What it does to the rows: those it holds are revoked, a logout's sweep
\* deletes some, and nothing else of them changes.
LEMMA RevocationRows ==
    ASSUME IInv, NEW c \in Calls, CommitRevocation(c)
    PROVE  /\ pair' \in [Pairs -> RowType]
           /\ \A q \in Pairs : /\ Kept(q) /\ pair'[q].used = pair[q].used
                               /\ pair[q].revoked => pair'[q].revoked
                               /\ q \notin call[c].held => pair'[q].revoked = pair[q].revoked
                               /\ q \notin Made => pair'[q] = pair[q]
  <1> DEFINE held == call[c].held
             R == Revoked(held)
             W == Swept(R, call[c].start, Locked \ held)
  <1>1. pair' = R \/ pair' = W
    BY DEF CommitRevocation
  <1>2. pair \in [Pairs -> RowType] /\ held \subseteq Made
    BY DEF CommitRevocation, IInv, TypeOK, RowType, Transactions, Family
  <1>3. \A q \in Pairs : R[q] = IF q \in held THEN [pair[q] EXCEPT !.revoked = TRUE] ELSE pair[q]
    BY DEF Revoked
  <1>4. \A row \in RowType : /\ [row EXCEPT !.revoked = TRUE] \in RowType
                             /\ [row EXCEPT !.there = FALSE] \in RowType
    BY DEF RowType
  <1>5. /\ R \in [Pairs -> RowType]
        /\ \A q \in Pairs : /\ R[q].family = pair[q].family /\ R[q].parent = pair[q].parent
                            /\ R[q].signed = pair[q].signed /\ R[q].used = pair[q].used
                            /\ R[q].there = pair[q].there
                            /\ pair[q].revoked => R[q].revoked
                            /\ q \notin held => R[q] = pair[q]
    <2>1. R = [q \in Pairs |-> R[q]]
      BY DEF Revoked
    <2>2. \A q \in Pairs : pair[q] \in RowType
      BY <1>2
    <2> HIDE DEF R, held
    <2>3. \A q \in Pairs : R[q] \in RowType
      BY <1>3, <1>4, <2>2
    <2>4. \A q \in Pairs : pair[q].revoked => R[q].revoked
      BY <1>3, <2>2 DEF RowType
    <2>5. \A q \in Pairs : /\ R[q].family = pair[q].family /\ R[q].parent = pair[q].parent
                           /\ R[q].signed = pair[q].signed /\ R[q].used = pair[q].used
                           /\ R[q].there = pair[q].there
      BY <1>3, <2>2 DEF RowType
    <2> QED
      BY <1>3, <2>1, <2>3, <2>4, <2>5
  <1>6. /\ W = [q \in Pairs |-> W[q]]
        /\ \A q \in Pairs : /\ W[q] \in {R[q], [R[q] EXCEPT !.there = FALSE]}
                            /\ ~R[q].there => W[q] = R[q]
    BY DEF Swept
  <1> HIDE DEF R, W, held
  <1>7. W \in [Pairs -> RowType]
    <2>1. \A q \in Pairs : R[q] \in RowType
      BY <1>5
    <2>2. \A q \in Pairs : W[q] \in RowType
      BY <1>4, <1>6, <2>1
    <2> QED
      BY <1>6, <2>2
  <1>8. \A q \in Pairs : /\ W[q].family = R[q].family /\ W[q].parent = R[q].parent
                         /\ W[q].signed = R[q].signed /\ W[q].used = R[q].used
                         /\ W[q].revoked = R[q].revoked
    BY <1>5, <1>6 DEF RowType
  <1>9. \A q \in Pairs \ Made : q \notin held /\ R[q] = pair[q] /\ W[q] = pair[q]
    BY <1>2, <1>5, <1>6 DEF IInv, Rows
  <1> QED
    BY <1>1, <1>2, <1>5, <1>7, <1>8, <1>9 DEF Kept, held

\* What it does to the denials: the family's is set from its BEGIN, the others'
\* and the jtis' that a sweep deletes have run out.
LEMMA RevocationDenials ==
    ASSUME IInv, NEW c \in Calls, CommitRevocation(c)
    PROVE  LET p == call[c].token  f == pair[p].family IN
           /\ p \in Made /\ f \in Pairs
           /\ denied' \in [Pairs -> 0 .. MaxTime + AccessTTL]
           /\ denied'[f] = call[c].start + AccessTTL
           /\ \A g \in Pairs \ {f} : denied'[g] = denied[g] \/ denied[g] <= now
           /\ jtis' \subseteq Pairs
           /\ \A q \in jtis : q \in jtis' \/ now >= pair[q].signed + AccessTTL
           /\ ended' = ended \/ (ended' = ended \union {p} /\ p \in jtis')
  <1> DEFINE p == call[c].token
             f == pair[p].family
             t == call[c].start
  <1>1. /\ call[c].pc = "lock" /\ p \in Made /\ f \in Pairs /\ p \in Pairs
        /\ t <= now /\ t \in 0 .. MaxTime /\ t \in Nat /\ now \in Nat
        /\ t + AccessTTL \in 0 .. MaxTime + AccessTTL
    BY AuthAssumption DEF CommitRevocation, IInv, TypeOK, Transactions, Made
  <1>2. /\ denied \in [Pairs -> 0 .. MaxTime + AccessTTL] /\ jtis \subseteq Pairs
        /\ \A g \in Pairs : denied[g] \in Nat
        /\ \A q \in Pairs : pair[q].signed \in Nat
    BY AuthAssumption DEF IInv, TypeOK
  <1>3. CASE call[c].logout
    <2>1. /\ denied' = [SweptFamilies(t) EXCEPT ![f] = t + AccessTTL]
          /\ jtis' = SweptJtis(t) \union {p} /\ ended' = ended \union {p}
      BY <1>3 DEF CommitRevocation
    <2>2. /\ SweptFamilies(t) \in [Pairs -> 0 .. MaxTime + AccessTTL]
          /\ \A g \in Pairs : SweptFamilies(t)[g] = denied[g] \/ denied[g] <= now
      <3>1. \A g \in Pairs : denied[g] <= t => denied[g] <= now
        BY <1>1, <1>2
      <3>2. 0 \in 0 .. MaxTime + AccessTTL
        BY AuthAssumption
      <3> HIDE DEF t
      <3> QED
        BY <1>2, <3>1, <3>2 DEF SweptFamilies
    <2>3. \A q \in jtis : q \in SweptJtis(t) \/ now >= pair[q].signed + AccessTTL
      <3> HIDE DEF t
      <3> QED
        BY <1>1, <1>2, AuthAssumption DEF SweptJtis
    <2>4. SweptJtis(t) \subseteq Pairs
      BY <1>2 DEF SweptJtis
    <2> HIDE DEF p, f, t
    <2>5. /\ denied' \in [Pairs -> 0 .. MaxTime + AccessTTL]
          /\ denied'[f] = t + AccessTTL
          /\ \A g \in Pairs \ {f} : denied'[g] = denied[g] \/ denied[g] <= now
      BY <1>1, <2>1, <2>2
    <2> QED
      BY <1>1, <2>1, <2>3, <2>4, <2>5 DEF p, f, t
  <1>4. CASE ~call[c].logout
    <2>1. denied' = [denied EXCEPT ![f] = t + AccessTTL] /\ jtis' = jtis /\ ended' = ended
      BY <1>4 DEF CommitRevocation
    <2> HIDE DEF p, f, t
    <2> QED
      BY <1>1, <1>2, <2>1 DEF p, f, t
  <1> QED
    BY <1>3, <1>4

LEMMA CommitRevocationInv ==
    ASSUME IInv, NEW c \in Calls, CommitRevocation(c)
    PROVE  IInv'
  <1> DEFINE p == call[c].token
             f == pair[p].family
  <1>1. /\ pair' \in [Pairs -> RowType]
        /\ \A q \in Pairs : /\ Kept(q) /\ pair'[q].used = pair[q].used
                            /\ pair[q].revoked => pair'[q].revoked
                            /\ q \notin call[c].held => pair'[q].revoked = pair[q].revoked
                            /\ q \notin Made => pair'[q] = pair[q]
    BY RevocationRows
  <1>2. /\ p \in Made /\ f \in Pairs
        /\ denied' \in [Pairs -> 0 .. MaxTime + AccessTTL]
        /\ denied'[f] = call[c].start + AccessTTL
        /\ \A g \in Pairs \ {f} : denied'[g] = denied[g] \/ denied[g] <= now
        /\ jtis' \subseteq Pairs
        /\ \A q \in jtis : q \in jtis' \/ now >= pair[q].signed + AccessTTL
        /\ ended' = ended \/ (ended' = ended \union {p} /\ p \in jtis')
    BY RevocationDenials
  <1>3. /\ call[c].pc = "lock" /\ doomed' = doomed \union Family(f)
        /\ Answer(c) /\ UNCHANGED <<now, requests, faults, begun>>
        /\ call[c].start <= now /\ now <= call[c].start + MaxOpen
    BY DEF CommitRevocation, IInv, Transactions
  <1> HIDE DEF p, f
  <1>4. /\ call' = [call EXCEPT ![c] = Idle] /\ call'[c] = Idle
        /\ \A d \in Calls \ {c} : call'[d] = call[d]
    BY <1>3 DEF Answer, IInv, TypeOK
  <1>5. Made' = Made /\ \A g : Family(g)' = Family(g)
    BY <1>1 DEF Made, Family, Kept
  <1>6. TypeOK'
    <2>1. /\ Idle \in CallType /\ Idle.held = {}
      BY AuthAssumption DEF Idle, CallType
    <2>2. call' \in [Calls -> CallType]
      BY <1>4, <2>1 DEF IInv, TypeOK, CallType
    <2>3. \A d, e \in Calls : d # e => call'[d].held \intersect call'[e].held = {}
      BY <1>4, <2>1 DEF IInv, TypeOK
    <2>4. doomed' \subseteq Pairs /\ ended' \subseteq Pairs
      BY <1>2, <1>3 DEF IInv, TypeOK, Family, Made
    <2> QED
      BY <1>1, <1>2, <1>3, <2>2, <2>3, <2>4 DEF IInv, TypeOK, RowType, CallType
  <1>7. Rows' /\ OneChild'
    BY <1>1, <1>3, <1>5 DEF IInv, Rows, OneChild, Kept, Made
  <1>8. \A d \in Calls \ {c} : call[d].pc = "rotate" => call[d].token \notin call[c].held
    BY DEF IInv, TypeOK, Transactions
  <1>9. Transactions'
    <2>1. call'[c].pc = "idle" /\ call'[c].held = {} /\ call'[c].todo = {}
      BY <1>4 DEF Idle
    <2>2. ASSUME NEW d \in Calls \ {c}, call[d].pc # "idle"
          PROVE  call[d].token \in Made' /\ call[d].token \in Pairs /\ Kept(call[d].token)
      BY <1>1, <1>5, <2>2 DEF IInv, Transactions, Made
    <2>3. ASSUME NEW d \in Calls \ {c}, call[d].pc = "rotate"
          PROVE  ~pair'[call[d].token].used /\ ~pair'[call[d].token].revoked
      BY <1>1, <1>8, <2>2, <2>3 DEF IInv, Transactions
    <2> QED
      BY <1>3, <1>4, <1>5, <2>1, <2>2, <2>3 DEF IInv, Transactions, Kept
  <1>10. Reserved'
    <2>1. \A d \in Calls : call[d].pc # "idle" => call[d].token \in Pairs
      BY DEF IInv, Transactions, Made
    <2>2. Renewing' \subseteq Renewing
      BY <1>1, <1>4, <2>1 DEF Renewing, Idle
    <2> QED
      BY <1>5, <2>2, ReservedStays DEF IInv, Rows
  <1>11. Denials'
    <2>1. /\ now \in Nat /\ MaxOpen \in Nat /\ AccessTTL \in Nat /\ call[c].start \in Nat
          /\ \A q \in Made : /\ q \in Pairs /\ pair[q].signed \in Nat /\ pair[q].signed <= now
                             /\ pair[q].family \in Pairs /\ denied[pair[q].family] \in Nat
                             /\ denied'[pair[q].family] \in Nat
      BY <1>2, AuthAssumption DEF IInv, TypeOK, Made, Rows
    <2>2. ASSUME NEW q \in Made, pair[q].family = f
          PROVE  denied'[pair[q].family] + MaxOpen >= pair[q].signed + AccessTTL
      BY <1>2, <1>3, <2>1, <2>2
    <2>3. ASSUME NEW q \in doomed, pair[q].family # f
          PROVE  \/ denied'[pair[q].family] + MaxOpen >= pair[q].signed + AccessTTL
                 \/ now + MaxOpen >= pair[q].signed + AccessTTL
      BY <1>2, <2>1, <2>3 DEF IInv, Denials
    <2>4. doomed' \subseteq Made /\ \A q \in doomed' : q \in doomed \/ pair[q].family = f
      BY <1>3 DEF IInv, Denials, Family
    <2>5. \A q \in doomed' :
            \/ denied'[pair[q].family] + MaxOpen >= pair[q].signed + AccessTTL
            \/ now + MaxOpen >= pair[q].signed + AccessTTL
      BY <2>2, <2>3, <2>4
    <2>6. ended' \subseteq Made /\ \A q \in ended' : q \in jtis' \/ now >= pair[q].signed + AccessTTL
      BY <1>2 DEF IInv, Denials
    <2> QED
      BY <1>1, <1>3, <1>5, <2>1, <2>4, <2>5, <2>6 DEF Denials, Kept
  <1>12. begun' \subseteq Made'
    BY <1>3, <1>5 DEF IInv
  <1>13. BegunIsDenied'
    <2> SUFFICES ASSUME NEW q \in begun, q \notin doomed', ~(faults > 0)
                 PROVE  \E d \in Calls : /\ call'[d].pc \in {"revoke", "lock"}
                                         /\ pair'[call'[d].token].family = pair'[q].family
      BY <1>3 DEF BegunIsDenied
    <2>1. q \in Made /\ q \notin doomed /\ pair[q].family # f
      BY <1>3 DEF IInv, Family
    <2>2. PICK d \in Calls : /\ call[d].pc \in {"revoke", "lock"}
                             /\ pair[call[d].token].family = pair[q].family
      BY <2>1 DEF IInv, BegunIsDenied
    <2>3. d # c /\ call[d].token \in Pairs /\ q \in Pairs
      BY <2>1, <2>2 DEF IInv, Transactions, Made, f, p
    <2> QED
      BY <1>1, <1>4, <2>2, <2>3 DEF Kept
  <1> QED
    BY <1>6, <1>7, <1>9, <1>10, <1>11, <1>12, <1>13 DEF IInv

-----------------------------------------------------------------------------
(* The theorems.                                                           *)

LEMMA NextInv == IInv /\ [Next]_vars => IInv'
  <1> SUFFICES ASSUME IInv, [Next]_vars PROVE IInv'
    OBVIOUS
  <1>1. CASE Login
    BY <1>1, LoginInv
  <1>2. CASE Tick
    BY <1>2, TickInv
  <1>3. ASSUME NEW c \in Calls, Step(c) PROVE IInv'
    <2>1. CASE LockRow(c)
      BY <2>1, LockRowInv
    <2>2. CASE Rotate(c)
      BY <2>2, RotateInv
    <2>3. CASE BeginRevoke(c)
      BY <2>3, BeginRevokeInv
    <2>4. CASE CommitRevocation(c)
      BY <2>4, CommitRevocationInv
    <2>5. CASE DeadlockAbort(c)
      BY <2>5, EndsInv
    <2>6. ASSUME NEW p \in Pairs, LockNext(c, p) PROVE IInv'
      BY <2>6, LockNextInv
    <2> QED
      BY <1>3, <2>1, <2>2, <2>3, <2>4, <2>5, <2>6 DEF Step
  <1>4. ASSUME NEW c \in Calls, Fail(c) PROVE IInv'
    BY <1>4, EndsInv
  <1>5. ASSUME NEW c \in Calls, NEW p \in Pairs, BeginRefresh(c, p) \/ BeginLogout(c, p)
        PROVE  IInv'
    BY <1>5, BeginRefreshInv, BeginLogoutInv
  <1>6. CASE UNCHANGED vars
    <2>1. /\ Made' = Made /\ Renewing' = Renewing
          /\ \A f : Family(f)' = Family(f)
      BY <1>6 DEF vars, Made, Renewing, Family
    <2> QED
      BY <1>6, <2>1 DEF vars, IInv, TypeOK, Rows, Reserved, Transactions, OneChild,
                        Denials, BegunIsDenied
  <1> QED
    BY <1>1, <1>2, <1>3, <1>4, <1>5, <1>6 DEF Next

THEOREM Invariance == Spec => []IInv
  BY InitInv, NextInv, PTL DEF Spec

\* Type correctness, and with it that no two open transactions of
\* auth.service.ts hold the same refresh row.
THEOREM TypeCorrect == Spec => []TypeOK
  <1>1. IInv => TypeOK
    BY DEF IInv
  <1> QED
    BY <1>1, Invariance, PTL

\* The number of children, from their being at most one.
LEMMA CountsChildren == IInv => RotatedOnce
  <1> SUFFICES ASSUME IInv, NEW p \in Made
               PROVE  Cardinality({q \in Made : pair[q].parent = p})
                        = IF pair[p].used THEN 1 ELSE 0
    BY DEF RotatedOnce
  <1> DEFINE S == {q \in Made : pair[q].parent = p}
  <1>1. CASE pair[p].used
    <2>1. PICK q \in Made : pair[q].parent = p
      BY <1>1 DEF IInv, OneChild
    <2>2. p # None
      BY AuthAssumption DEF Made
    <2>3. S = {q}
      BY <2>1, <2>2 DEF IInv, OneChild
    <2> QED
      BY <1>1, <2>3, FS_Singleton
  <1>2. CASE ~pair[p].used
    <2>1. S = {}
      BY <1>2 DEF IInv, OneChild
    <2> QED
      BY <1>2, <2>1, FS_EmptySet
  <1> QED
    BY <1>1, <1>2

\* RotatedOnce, RevokedTokensDenied, LoggedOutTokenDenied and BegunIsDenied, for
\* every interleaving of refresh(), logout() and login(): a refresh token has one
\* child, and revokeFamily() and the denylists keep the tokens they are about out.
THEOREM TokensAreSafe == Spec => []TokensSafe
  <1>1. IInv => TokensSafe
    <2> SUFFICES ASSUME IInv PROVE TokensSafe
      OBVIOUS
    <2>1. /\ now \in Nat /\ AccessTTL \in Nat /\ MaxOpen \in Nat
          /\ \A p \in Made : /\ pair[p].signed \in Nat /\ pair[p].family \in Pairs
                             /\ denied[pair[p].family] \in Nat
      BY AuthAssumption DEF IInv, TypeOK, Made
    <2>2. RevokedTokensDenied
      BY <2>1 DEF RevokedTokensDenied, Accepts, IInv, Denials
    <2>3. LoggedOutTokenDenied
      BY <2>1 DEF LoggedOutTokenDenied, Accepts, IInv, Denials
    <2> QED
      BY <2>2, <2>3, CountsChildren DEF IInv, TokensSafe
  <1> QED
    BY <1>1, Invariance, PTL

\* A row that revokeFamily() has revoked is never rotated by refresh(), though
\* the revocation and the rotation may run at once: the row lock orders them.
THEOREM RevokedHasNoChild == Spec => NoChildOfRevoked
  <1> DEFINE A == \A q \in Pairs :
                    pair[q].family = None /\ pair'[q].parent # None =>
                      ~pair[pair'[q].parent].revoked
  <1>1. IInv /\ Next => A
    <2> SUFFICES ASSUME IInv, Next, NEW q \in Pairs,
                        pair[q].family = None, pair'[q].parent # None
                 PROVE  ~pair[pair'[q].parent].revoked
      OBVIOUS
    <2>1. q \notin Made /\ pair[q].parent = None
      BY DEF Made, IInv, Rows
    <2>2. CASE Login
      <3>1. pair'[q].parent = pair[q].parent \/ pair'[q].parent = None
        BY <2>2 DEF Login, Swept, NewPair, IInv, TypeOK
      <3> QED
        BY <2>1, <3>1
    <2>3. ASSUME NEW c \in Calls, Rotate(c) PROVE ~pair[pair'[q].parent].revoked
      <3>1. /\ call[c].token \in Made /\ ~pair[call[c].token].revoked
        BY <2>3 DEF Rotate, IInv, Transactions
      <3>2. pair'[q].parent = call[c].token
        BY <2>1, <2>3, <3>1 DEF Rotate, NewPair, IInv, TypeOK
      <3> QED
        BY <3>1, <3>2
    <2>4. ASSUME NEW c \in Calls, CommitRevocation(c) PROVE FALSE
      BY <2>1, <2>4, RevocationRows DEF Kept
    <2>5. CASE pair' = pair
      BY <2>1, <2>5
    <2>6. Login \/ (\E c \in Calls : Rotate(c) \/ CommitRevocation(c)) \/ pair' = pair
      BY DEF Next, Step, Tick, Fail, BeginRefresh, BeginLogout, LockRow, BeginRevoke,
             DeadlockAbort, LockNext
    <2> QED
      BY <2>2, <2>3, <2>4, <2>5, <2>6
  <1>2. IInv /\ [Next]_vars => [A]_vars
    BY <1>1
  <1> QED
    BY <1>2, Invariance, PTL DEF Spec, NoChildOfRevoked

=============================================================================
