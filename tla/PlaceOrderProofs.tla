-------------------------- MODULE PlaceOrderProofs --------------------------
(***************************************************************************)
(* What PlaceOrder guarantees for every set of requests, products and keys.*)
(***************************************************************************)
EXTENDS PlaceOrder, SumTheorems, SequenceTheorems

-----------------------------------------------------------------------------
(* The inductive invariant, part by part.                                  *)

\* A row lock is held exactly by the open transaction that updated the row.
LocksOwned ==
    /\ \A r \in Requests : updated[r] \subseteq Lines(r)
    /\ \A r \in Requests : ~InTransaction(r) => updated[r] = {}
    /\ \A r \in Requests, p \in Products :
          lock[p] = r <=> \E i \in updated[r] : Items(r)[i].product = p

\* The lines are updated in ascending product id.
LinesAscend ==
    \A r \in Requests : \A i \in updated[r] : \A j \in Remaining(r) :
        Items(r)[i].product <= Items(r)[j].product

\* Past insertOrder all lines are locked and their rows inserted.
AllLinesLocked ==
    \A r \in Requests :
        pc[r] \in {"claim", "outbox", "commit"} =>
            updated[r] = Lines(r) /\ Distinct(r)

\* The uncommitted version of a row is the committed one less the line.
VersionsPending ==
    \A r \in Requests : Distinct(r) =>
        \A i \in updated[r] :
            /\ Items(r)[i].product \in Active
            /\ Items(r)[i].quantity <= stock[Items(r)[i].product]
            /\ version[Items(r)[i].product] =
                 stock[Items(r)[i].product] - Items(r)[i].quantity

\* What the transaction has written at each statement.
WritesSoFar ==
    \A r \in Requests :
        /\ pc[r] \in {"begin", "items", "replay", "done"} => writes[r] = {}
        /\ pc[r] \in {"claim", "outbox", "commit"} => "order" \in writes[r]
        /\ pc[r] \in {"claim", "outbox"} => "event" \notin writes[r]
        /\ pc[r] = "commit" => "event" \in writes[r]

\* An uncommitted claim belongs to a transaction about to commit, and only
\* to a key that has no committed record.
ClaimsOwned ==
    /\ \A k \in Keys : claim[k] # None =>
          /\ KeyOf[claim[k]] = k
          /\ pc[claim[k]] \in {"outbox", "commit"}
          /\ records[k] = None
    /\ \A r \in Requests :
          pc[r] \in {"outbox", "commit"} /\ HasKey(r) => claim[KeyOf[r]] = r
    /\ \A r \in Requests : pc[r] \in {"claim", "replay"} => HasKey(r)

\* A record stands for the one order of its key.
RecordsFaithful ==
    /\ \A k \in Keys : records[k] # None =>
          /\ records[k].order \in orders
          /\ KeyOf[records[k].order] = k
          /\ records[k].body = BodyOf[records[k].order]
    /\ \A r \in orders : HasKey(r) =>
          records[KeyOf[r]] # None /\ records[KeyOf[r]].order = r

\* A call is done exactly when it has an answer; an order belongs to a call
\* that is done and was not refused.
AnswersFinal ==
    /\ \A r \in Requests : pc[r] = "done" <=> resp[r] # None
    /\ \A r \in orders : pc[r] = "done"

IInv ==
    /\ TypeOK
    /\ LocksOwned
    /\ LinesAscend
    /\ AllLinesLocked
    /\ VersionsPending
    /\ WritesSoFar
    /\ ClaimsOwned
    /\ RecordsFaithful
    /\ AnswersFinal
    /\ EventPerOrder
    /\ LoserFindsRecord
    /\ AnswerFaithful
    /\ RefusedLeavesNothing

-----------------------------------------------------------------------------
(* Facts about the constants.                                              *)

\* The lines of a validated body name products and positive quantities.
LEMMA ItemsType ==
    ASSUME NEW r \in Requests
    PROVE  /\ Lines(r) \subseteq Nat
           /\ \A i \in Lines(r) : /\ Items(r)[i].product \in Products
                                 /\ Items(r)[i].product \in Int
                                 /\ Items(r)[i].quantity \in Nat \ {0}
  <1>1. Items(r) \in Seq([product : Products, quantity : Nat \ {0}])
    BY RequestAssumption DEF Items
  <1>2. Lines(r) = 1 .. Len(Items(r)) /\ Len(Items(r)) \in Nat
    BY <1>1 DEF Lines
  <1>3. \A i \in Lines(r) :
          Items(r)[i] \in [product : Products, quantity : Nat \ {0}]
    BY <1>1, <1>2, ElementOfSeq
  <1> QED
    BY <1>2, <1>3, RequestAssumption

\* An answer is never mistaken for the absence of one.
LEMMA AnswerType ==
    /\ \A s \in {400, 404, 422, 500} :
          Refusal(s) \in Answers /\ Refusal(s) # None
    /\ \A o \in Requests :
          /\ Created(o) \in Answers /\ Created(o) # None
          /\ Replayed(o) \in Answers /\ Replayed(o) # None
  <1>1. None \notin Answers
    BY RequestAssumption
  <1>2. \A s \in {400, 404, 422, 500} : Refusal(s) \in Answers
    BY DEF Answers, Refusal
  <1>3. \A o \in Requests : Created(o) \in Answers /\ Replayed(o) \in Answers
    BY DEF Answers, Created, Replayed
  <1> QED
    BY <1>1, <1>2, <1>3

\* The first statement runs from a state that satisfies the invariant.
LEMMA InitInv == Init => IInv
  <1> SUFFICES ASSUME Init PROVE IInv
    OBVIOUS
  <1>1. TypeOK
    BY RequestAssumption DEF Init, TypeOK
  <1>2. LocksOwned /\ LinesAscend /\ AllLinesLocked /\ VersionsPending
    BY RequestAssumption
    DEF Init, LocksOwned, LinesAscend, AllLinesLocked, VersionsPending,
        InTransaction
  <1>3. WritesSoFar /\ ClaimsOwned /\ RecordsFaithful /\ AnswersFinal
    BY RequestAssumption
    DEF Init, WritesSoFar, ClaimsOwned, RecordsFaithful, AnswersFinal
  <1>4. EventPerOrder /\ LoserFindsRecord /\ AnswerFaithful
        /\ RefusedLeavesNothing
    BY DEF Init, EventPerOrder, LoserFindsRecord, AnswerFaithful,
           RefusedLeavesNothing
  <1> QED
    BY <1>1, <1>2, <1>3, <1>4 DEF IInv

-----------------------------------------------------------------------------
(* Steps shared by several actions.                                        *)

\* An answer without an order, and the rollback of whatever was open.
LEMMA RollbackReplies ==
    ASSUME IInv, NEW r \in Requests, pc[r] # "done",
           NEW s \in {400, 404, 500}, ReplyError(r, s), Rollback(r)
    PROVE  IInv'
  <1> USE DEF ReplyError, Reply, Goto, Rollback, EndTransaction,
              FreeLocks, FreeClaims, tables
  <1>0. Refusal(s) \in Answers /\ Refusal(s) # None
    BY AnswerType
  <1>1. TypeOK'
    BY <1>0, RequestAssumption DEF IInv, TypeOK
  <1>2. LocksOwned'
    BY RequestAssumption DEF IInv, TypeOK, LocksOwned, InTransaction
  <1>3. LinesAscend'
    BY DEF IInv, TypeOK, LinesAscend, Remaining
  <1>4. AllLinesLocked' /\ WritesSoFar'
    BY DEF IInv, TypeOK, AllLinesLocked, WritesSoFar
  <1>5. VersionsPending'
    BY DEF IInv, TypeOK, VersionsPending
  <1>6. ClaimsOwned'
    BY RequestAssumption DEF IInv, TypeOK, ClaimsOwned, HasKey
  <1>7. RecordsFaithful' /\ EventPerOrder' /\ LoserFindsRecord'
    BY DEF IInv, TypeOK, RecordsFaithful, EventPerOrder, LoserFindsRecord,
           HasKey
  <1>8. AnswersFinal'
    BY <1>0 DEF IInv, TypeOK, AnswersFinal
  <1>9. AnswerFaithful' /\ RefusedLeavesNothing'
    BY DEF IInv, TypeOK, AnswersFinal, AnswerFaithful, RefusedLeavesNothing,
           EventPerOrder, HasKey, Refusal
  <1> QED
    BY <1>1, <1>2, <1>3, <1>4, <1>5, <1>6, <1>7, <1>8, <1>9 DEF IInv

\* The commit of all writes, whatever the caller hears of it.
LEMMA CommitReplies ==
    ASSUME IInv, NEW r \in Requests, pc[r] = "commit", CommitWrites(r),
           NEW a \in {Created(r), Refusal(500)}, Reply(r, a)
    PROVE  IInv'
  <1> USE DEF Reply, Goto, CommitWrites, EndTransaction, FreeLocks, FreeClaims
  <1>0. a \in Answers /\ a # None
    BY AnswerType
  <1> DEFINE rec == [order |-> r, body |-> BodyOf[r]]
  <1>a. /\ rec \in [order : Requests, body : Bodies]
        /\ rec # None
        /\ rec.order = r /\ rec.body = BodyOf[r]
    BY RequestAssumption
  <1>b. records' = [k \in Keys |-> IF claim[k] = r THEN rec ELSE records[k]]
    OBVIOUS
  <1> HIDE DEF rec
  <1>1. TypeOK'
    BY <1>0, <1>a, <1>b, RequestAssumption DEF IInv, TypeOK
  <1>2. LocksOwned'
    BY RequestAssumption DEF IInv, TypeOK, LocksOwned, InTransaction
  <1>3. LinesAscend'
    BY DEF IInv, TypeOK, LinesAscend, Remaining
  <1>4. AllLinesLocked' /\ WritesSoFar'
    BY DEF IInv, TypeOK, AllLinesLocked, WritesSoFar
  <1>5. VersionsPending'
    BY ItemsType DEF IInv, TypeOK, VersionsPending, LocksOwned
  <1>6. ClaimsOwned'
    BY RequestAssumption DEF IInv, TypeOK, ClaimsOwned, HasKey
  <1>7. orders' = orders \union {r} /\ outbox' = outbox \union {r}
    BY DEF IInv, WritesSoFar
  <1>8. RecordsFaithful'
    BY <1>7, <1>a, <1>b, RequestAssumption
    DEF IInv, TypeOK, RecordsFaithful, ClaimsOwned, HasKey
  <1>9. EventPerOrder' /\ LoserFindsRecord'
    <2>1. EventPerOrder'
      BY <1>7 DEF IInv, EventPerOrder
    <2>2. ASSUME NEW s \in Requests, pc'[s] = "replay"
          PROVE  records'[KeyOf[s]] # None
      <3>1. pc[s] = "replay" /\ KeyOf[s] \in Keys
        BY <2>2 DEF IInv, TypeOK, ClaimsOwned, HasKey
      <3>2. records[KeyOf[s]] # None
        BY <3>1 DEF IInv, LoserFindsRecord
      <3> QED
        BY <3>1, <3>2, <1>a, <1>b
    <2> QED
      BY <2>1, <2>2 DEF LoserFindsRecord
  <1>10. AnswersFinal'
    BY <1>0, <1>7 DEF IInv, TypeOK, AnswersFinal
  <1>11. AnswerFaithful'
    BY <1>7 DEF IInv, TypeOK, AnswersFinal, AnswerFaithful, HasKey, Created,
                Refusal
  <1>12. RefusedLeavesNothing'
    BY <1>7 DEF IInv, TypeOK, AnswersFinal, RefusedLeavesNothing, Created,
                Refusal
  <1> QED
    BY <1>1, <1>2, <1>3, <1>4, <1>5, <1>6, <1>8, <1>9, <1>10, <1>11, <1>12
    DEF IInv

\* findReplay answers from a committed record.
LEMMA FoundReplies ==
    ASSUME IInv, NEW r \in Requests, pc[r] \in {"begin", "replay"}, HasKey(r),
           records[KeyOf[r]] # None, Found(r),
           UNCHANGED <<updated, claim, writes>>, UNCHANGED rows,
           UNCHANGED tables
    PROVE  IInv'
  <1> USE DEF Reply, Goto, rows, tables
  <1> DEFINE a == IF records[KeyOf[r]].body = BodyOf[r]
                  THEN Replayed(records[KeyOf[r]].order)
                  ELSE Refusal(422)
  <1>0. records[KeyOf[r]].order \in orders /\ orders \subseteq Requests
    BY DEF IInv, TypeOK, RecordsFaithful, HasKey
  <1>1. a \in Answers /\ a # None /\ Reply(r, a)
    BY <1>0, AnswerType DEF Found
  <1> HIDE DEF a
  <1>2. TypeOK'
    BY <1>1 DEF IInv, TypeOK
  <1>3. LocksOwned' /\ LinesAscend'
    BY <1>1 DEF IInv, TypeOK, LocksOwned, InTransaction, LinesAscend, Remaining
  <1>4. AllLinesLocked' /\ WritesSoFar' /\ VersionsPending'
    BY <1>1 DEF IInv, TypeOK, AllLinesLocked, WritesSoFar, VersionsPending
  <1>5. ClaimsOwned'
    BY <1>1, RequestAssumption DEF IInv, TypeOK, ClaimsOwned, HasKey
  <1>6. RecordsFaithful' /\ EventPerOrder' /\ LoserFindsRecord'
    BY <1>1 DEF IInv, TypeOK, RecordsFaithful, EventPerOrder, LoserFindsRecord,
                HasKey
  <1>7. AnswersFinal'
    BY <1>1 DEF IInv, TypeOK, AnswersFinal
  <1>8. AnswerFaithful'
    BY <1>0, <1>1 DEF IInv, TypeOK, AnswersFinal, AnswerFaithful,
                      RecordsFaithful, HasKey, Replayed, Refusal, a
  <1>9. RefusedLeavesNothing'
    BY <1>0, <1>1 DEF IInv, TypeOK, AnswersFinal, RefusedLeavesNothing,
                      EventPerOrder, Replayed, Refusal, a
  <1> QED
    BY <1>2, <1>3, <1>4, <1>5, <1>6, <1>7, <1>8, <1>9 DEF IInv

-----------------------------------------------------------------------------
(* The actions, one lemma each where the step is not one of the above.     *)

LEMMA BeginInv ==
    ASSUME IInv, NEW r \in Requests, Begin(r)
    PROVE  IInv'
  <1>1. CASE HasKey(r) /\ records[KeyOf[r]] # None
    BY <1>1, FoundReplies DEF Begin
  <1>2. CASE ~(HasKey(r) /\ records[KeyOf[r]] # None)
    <2>0. /\ pc[r] = "begin" /\ pc' = [pc EXCEPT ![r] = "items"]
          /\ UNCHANGED <<updated, stock, version, lock, records, claim, writes,
                         orders, outbox, resp>>
      BY <1>2 DEF Begin, Goto, rows, tables
    <2>1. TypeOK' /\ LocksOwned' /\ LinesAscend' /\ VersionsPending'
      BY <2>0 DEF IInv, TypeOK, LocksOwned, LinesAscend, Remaining,
                  VersionsPending, InTransaction
    <2>2. AllLinesLocked' /\ WritesSoFar' /\ AnswersFinal'
      BY <2>0 DEF IInv, TypeOK, AllLinesLocked, WritesSoFar, AnswersFinal
    <2>3. ClaimsOwned'
      BY <2>0, RequestAssumption DEF IInv, TypeOK, ClaimsOwned, HasKey
    <2>4. RecordsFaithful' /\ EventPerOrder' /\ LoserFindsRecord'
          /\ AnswerFaithful' /\ RefusedLeavesNothing'
      BY <2>0 DEF IInv, TypeOK, RecordsFaithful, EventPerOrder,
                  LoserFindsRecord, AnswerFaithful, RefusedLeavesNothing,
                  HasKey
    <2> QED
      BY <2>1, <2>2, <2>3, <2>4 DEF IInv
  <1> QED
    BY <1>1, <1>2

LEMMA UpdateProductInv ==
    ASSUME IInv, NEW r \in Requests, UpdateProduct(r)
    PROVE  IInv'
  <1> PICK i \in Lines(r) :
        /\ pc[r] = "items"
        /\ IsNext(r, i)
        /\ Matches(r, i)
        /\ lock[Items(r)[i].product] \in {None, r}
        /\ lock' = [lock EXCEPT ![Items(r)[i].product] = r]
        /\ version' = [version EXCEPT ![Items(r)[i].product] =
                         Visible(r, Items(r)[i].product) - Items(r)[i].quantity]
        /\ updated' = [updated EXCEPT ![r] = @ \union {i}]
        /\ UNCHANGED <<pc, stock, claim, writes, resp, records, orders, outbox>>
    BY DEF UpdateProduct, tables
  <1> DEFINE p == Items(r)[i].product
             q == Items(r)[i].quantity
  <1>0. /\ p \in Products /\ q \in Nat /\ i \in Nat
        /\ p \in Active /\ Visible(r, p) \in Nat /\ q <= Visible(r, p)
    BY ItemsType DEF IInv, TypeOK, Matches, Visible
  <1>1. TypeOK'
    BY <1>0 DEF IInv, TypeOK
  <1>2. LocksOwned'
    <2>1. \A s \in Requests : updated'[s] \subseteq Lines(s)
      BY DEF IInv, TypeOK, LocksOwned
    <2>2. \A s \in Requests : ~InTransaction(s)' => updated'[s] = {}
      BY DEF IInv, TypeOK, LocksOwned, InTransaction
    <2>3. ASSUME NEW s \in Requests, NEW o \in Products
          PROVE  lock'[o] = s <=> \E j \in updated'[s] : Items(s)[j].product = o
      <3>1. lock[o] = s <=> \E j \in updated[s] : Items(s)[j].product = o
        BY DEF IInv, LocksOwned
      <3>2. CASE s = r
        <4>1. updated'[s] = updated[s] \union {i}
          BY <3>2 DEF IInv, TypeOK
        <4>2. lock'[o] = (IF o = p THEN r ELSE lock[o])
          BY <1>0 DEF IInv, TypeOK
        <4> QED
          BY <3>1, <3>2, <4>1, <4>2
      <3>3. CASE s # r
        <4>1. updated'[s] = updated[s]
          BY <3>3 DEF IInv, TypeOK
        <4>2. lock'[o] = (IF o = p THEN r ELSE lock[o])
          BY <1>0 DEF IInv, TypeOK
        <4>3. lock[p] # s
          BY <3>3, RequestAssumption
        <4> QED
          BY <3>1, <3>3, <4>1, <4>2, <4>3
      <3> QED
        BY <3>2, <3>3
    <2> QED
      BY <2>1, <2>2, <2>3 DEF LocksOwned
  <1>3. LinesAscend'
    BY <1>0, ItemsType DEF IInv, TypeOK, LinesAscend, Remaining, IsNext
  <1>4. AllLinesLocked' /\ WritesSoFar' /\ AnswersFinal'
    BY DEF IInv, TypeOK, AllLinesLocked, WritesSoFar, AnswersFinal
  <1>5. VersionsPending'
    <2> SUFFICES ASSUME NEW s \in Requests, Distinct(s), NEW j \in updated'[s]
                 PROVE  /\ Items(s)[j].product \in Active
                        /\ Items(s)[j].quantity <= stock[Items(s)[j].product]
                        /\ version'[Items(s)[j].product] =
                             stock[Items(s)[j].product] - Items(s)[j].quantity
      BY DEF VersionsPending
    <2>1. CASE s = r /\ j = i
      <3>1. ~\E l \in updated[r] : Items(r)[l].product = p
        BY <2>1 DEF IInv, LocksOwned, Distinct, IsNext, Remaining
      <3>2. lock[p] # r
        BY <3>1, <1>0 DEF IInv, LocksOwned
      <3>3. Visible(r, p) = stock[p]
        BY <3>2 DEF Visible
      <3> QED
        BY <2>1, <3>3, <1>0 DEF IInv, TypeOK
    <2>2. CASE s = r /\ j # i
      <3>1. j \in updated[r] /\ j \in Lines(r)
        BY <2>2 DEF IInv, TypeOK, LocksOwned
      <3>2. Items(r)[j].product # p
        BY <2>2, <3>1 DEF Distinct
      <3> QED
        BY <2>2, <3>1, <3>2, ItemsType DEF IInv, TypeOK, VersionsPending
    <2>3. CASE s # r
      <3>1. j \in updated[s] /\ j \in Lines(s)
        BY <2>3 DEF IInv, TypeOK, LocksOwned
      <3>2. lock[Items(s)[j].product] = s
        BY <3>1, ItemsType DEF IInv, LocksOwned
      <3>3. Items(s)[j].product # p
        BY <3>2, <2>3, RequestAssumption
      <3> QED
        BY <3>1, <3>3, ItemsType DEF IInv, TypeOK, VersionsPending
    <2> QED
      BY <2>1, <2>2, <2>3
  <1>6. ClaimsOwned' /\ RecordsFaithful' /\ EventPerOrder' /\ LoserFindsRecord'
        /\ AnswerFaithful' /\ RefusedLeavesNothing'
    BY DEF IInv, ClaimsOwned, RecordsFaithful, EventPerOrder, LoserFindsRecord,
           AnswerFaithful, RefusedLeavesNothing, HasKey
  <1> QED
    BY <1>1, <1>2, <1>3, <1>4, <1>5, <1>6 DEF IInv

\* The statements that only write a row of the open transaction: the order,
\* the claim of a free key, the event.
LEMMA InsertRowInv ==
    ASSUME IInv, NEW r \in Requests,
           NEW row \in {"order", "record", "event"},
           NEW next \in {"claim", "outbox", "commit"},
           \/ /\ pc[r] = "items" /\ row = "order"
              /\ next = (IF HasKey(r) THEN "claim" ELSE "outbox")
              /\ Remaining(r) = {} /\ Distinct(r)
              /\ UNCHANGED claim
           \/ /\ pc[r] = "claim" /\ row = "record" /\ next = "outbox"
              /\ claim[KeyOf[r]] = None /\ records[KeyOf[r]] = None
              /\ claim' = [claim EXCEPT ![KeyOf[r]] = r]
           \/ /\ pc[r] = "outbox" /\ row = "event" /\ next = "commit"
              /\ UNCHANGED claim,
           pc' = [pc EXCEPT ![r] = next],
           writes' = [writes EXCEPT ![r] = @ \union {row}],
           UNCHANGED <<updated, stock, version, lock, records, orders, outbox,
                       resp>>
    PROVE  IInv'
  <1>a. \/ claim' = claim
        \/ pc[r] = "claim" /\ claim' = [claim EXCEPT ![KeyOf[r]] = r]
    OBVIOUS
  <1>b. claim' \in [Keys -> Requests \union {None}]
    BY <1>a DEF IInv, TypeOK, ClaimsOwned, HasKey
  <1>1. TypeOK'
    BY <1>b DEF IInv, TypeOK
  <1>2. LocksOwned' /\ LinesAscend' /\ VersionsPending'
    BY DEF IInv, TypeOK, LocksOwned, InTransaction, LinesAscend, Remaining,
           VersionsPending
  <1>3. AllLinesLocked'
    <2>1. updated[r] = Lines(r) /\ Distinct(r)
      BY DEF IInv, AllLinesLocked, LocksOwned, Remaining
    <2> QED
      BY <2>1 DEF IInv, TypeOK, AllLinesLocked
  <1>4. WritesSoFar'
    BY DEF IInv, TypeOK, WritesSoFar
  <1>5. ClaimsOwned'
    <2>1. CASE pc[r] = "items"
      <3>1. claim' = claim /\ next = (IF HasKey(r) THEN "claim" ELSE "outbox")
        BY <2>1
      <3> QED
        BY <2>1, <3>1, RequestAssumption DEF IInv, TypeOK, ClaimsOwned, HasKey
    <2>2. CASE pc[r] = "claim"
      <3>1. /\ claim' = [claim EXCEPT ![KeyOf[r]] = r] /\ next = "outbox"
            /\ claim[KeyOf[r]] = None /\ records[KeyOf[r]] = None
        BY <2>2
      <3> QED
        BY <2>2, <3>1, RequestAssumption DEF IInv, TypeOK, ClaimsOwned, HasKey
    <2>3. CASE pc[r] = "outbox"
      <3>1. claim' = claim /\ next = "commit"
        BY <2>3
      <3> QED
        BY <2>3, <3>1, RequestAssumption DEF IInv, TypeOK, ClaimsOwned, HasKey
    <2> QED
      BY <2>1, <2>2, <2>3
  <1>6. RecordsFaithful' /\ EventPerOrder' /\ LoserFindsRecord'
        /\ AnswersFinal' /\ AnswerFaithful' /\ RefusedLeavesNothing'
    BY DEF IInv, TypeOK, RecordsFaithful, EventPerOrder, LoserFindsRecord,
           AnswersFinal, AnswerFaithful, RefusedLeavesNothing, HasKey
  <1> QED
    BY <1>1, <1>2, <1>3, <1>4, <1>5, <1>6 DEF IInv

\* The loser of a key rolls back and goes to read the record.
LEMMA ClaimLoserInv ==
    ASSUME IInv, NEW r \in Requests, pc[r] = "claim",
           records[KeyOf[r]] # None, Goto(r, "replay"), Rollback(r),
           UNCHANGED resp
    PROVE  IInv'
  <1> USE DEF Goto, Rollback, EndTransaction, FreeLocks, FreeClaims, tables
  <1>1. TypeOK'
    BY RequestAssumption DEF IInv, TypeOK
  <1>2. LocksOwned'
    BY RequestAssumption DEF IInv, TypeOK, LocksOwned, InTransaction
  <1>3. LinesAscend'
    BY DEF IInv, TypeOK, LinesAscend, Remaining
  <1>4. AllLinesLocked' /\ WritesSoFar' /\ VersionsPending'
    BY DEF IInv, TypeOK, AllLinesLocked, WritesSoFar, VersionsPending
  <1>5. ClaimsOwned'
    BY RequestAssumption DEF IInv, TypeOK, ClaimsOwned, HasKey
  <1>6. RecordsFaithful' /\ EventPerOrder' /\ LoserFindsRecord'
        /\ AnswersFinal' /\ AnswerFaithful' /\ RefusedLeavesNothing'
    BY DEF IInv, TypeOK, RecordsFaithful, EventPerOrder, LoserFindsRecord,
           AnswersFinal, AnswerFaithful, RefusedLeavesNothing, HasKey
  <1> QED
    BY <1>1, <1>2, <1>3, <1>4, <1>5, <1>6 DEF IInv

\* Every step of every call preserves the invariant.
LEMMA NextInv == IInv /\ [Next]_vars => IInv'
  <1> SUFFICES ASSUME IInv, [Next]_vars PROVE IInv'
    OBVIOUS
  <1>1. ASSUME NEW r \in Requests, Begin(r) PROVE IInv'
    BY <1>1, BeginInv
  <1>2. ASSUME NEW r \in Requests, UpdateProduct(r) PROVE IInv'
    BY <1>2, UpdateProductInv
  <1>3. ASSUME NEW r \in Requests, RefuseLine(r) PROVE IInv'
    BY <1>3, RollbackReplies DEF RefuseLine
  <1>4. ASSUME NEW r \in Requests, InsertOrder(r) PROVE IInv'
    <2>1. CASE Distinct(r)
      BY <1>4, <2>1, InsertRowInv DEF InsertOrder, Goto, rows, tables
    <2>2. CASE ~Distinct(r)
      BY <1>4, <2>2, RollbackReplies DEF InsertOrder
    <2> QED
      BY <2>1, <2>2
  <1>5. ASSUME NEW r \in Requests, Claim(r) PROVE IInv'
    <2>1. CASE records[KeyOf[r]] = None
      BY <1>5, <2>1, InsertRowInv DEF Claim, Goto, rows, tables
    <2>2. CASE records[KeyOf[r]] # None
      BY <1>5, <2>2, ClaimLoserInv DEF Claim
    <2> QED
      BY <2>1, <2>2
  <1>6. ASSUME NEW r \in Requests, ReplayLoser(r) PROVE IInv'
    <2>1. HasKey(r) /\ records[KeyOf[r]] # None
      BY <1>6 DEF ReplayLoser, IInv, ClaimsOwned, LoserFindsRecord
    <2> QED
      BY <1>6, <2>1, FoundReplies DEF ReplayLoser
  <1>7. ASSUME NEW r \in Requests, InsertOutbox(r) PROVE IInv'
    BY <1>7, InsertRowInv DEF InsertOutbox, Goto, rows, tables
  <1>8. ASSUME NEW r \in Requests, Commit(r) \/ CommitUnheard(r) PROVE IInv'
    BY <1>8, CommitReplies DEF Commit, CommitUnheard, ReplyError
  <1>9. ASSUME NEW r \in Requests, Fail(r) PROVE IInv'
    BY <1>9, RollbackReplies DEF Fail
  <1>10. CASE UNCHANGED vars
    BY <1>10
    DEF vars, IInv, TypeOK, LocksOwned, LinesAscend, AllLinesLocked,
        VersionsPending, WritesSoFar, ClaimsOwned, RecordsFaithful,
        AnswersFinal, EventPerOrder, LoserFindsRecord, AnswerFaithful,
        RefusedLeavesNothing, InTransaction, Remaining, HasKey
  <1> QED
    BY <1>1, <1>2, <1>3, <1>4, <1>5, <1>6, <1>7, <1>8, <1>9, <1>10
    DEF Next, Step

-----------------------------------------------------------------------------
(* The theorems.                                                           *)

\* The invariant holds in every reachable state.
THEOREM Invariance == Spec => []IInv
  BY InitInv, NextInv, PTL DEF Spec

\* Every variable keeps its type; in particular stock never becomes negative.
THEOREM TypeCorrect == Spec => []TypeOK
  <1>1. IInv => TypeOK
    BY DEF IInv
  <1> QED
    BY <1>1, Invariance, PTL

\* An order and its outbox row commit together, racing calls with one
\* Idempotency-Key create at most one order, and a loser finds its record.
THEOREM OrdersBalance == Spec => []OrdersHold
  <1>1. IInv => OneOrderPerKey
    BY DEF IInv, TypeOK, RecordsFaithful, OneOrderPerKey, HasKey
  <1>2. IInv => OrdersHold
    BY <1>1 DEF IInv, OrdersHold
  <1> QED
    BY <1>2, Invariance, PTL

\* Every 201 is about an existing order of the same body and, for a replay,
\* the same key; a refused call left nothing.
THEOREM AnswersTrue == Spec => []AnswersHold
  <1>1. IInv => AnswersHold
    BY DEF IInv, AnswersHold
  <1> QED
    BY <1>1, Invariance, PTL

\* Taking the rows in ascending product id lets no cycle of waits form.
THEOREM LockOrder == Spec => []WaitsRise
  <1>1. ASSUME IInv PROVE WaitsRise
    <2> SUFFICES ASSUME NEW r \in Requests, NEW s \in Requests,
                        NEW t \in Requests
                 PROVE  /\ WaitsForRow(r, s) /\ WaitsForRow(s, t) =>
                              \A p, q \in Products :
                                  NeedsRow(r, p) /\ NeedsRow(s, q) => p < q
                        /\ WaitsForKey(r, s) => ~Waits(s, t)
      BY DEF WaitsRise
    <2>1. ASSUME WaitsForRow(r, s), WaitsForRow(s, t),
                 NEW p \in Products, NEW q \in Products,
                 NeedsRow(r, p), NeedsRow(s, q)
          PROVE  p < q
      <3>1. \A u \in Requests, o \in Products, n \in Products :
              NeedsRow(u, o) /\ NeedsRow(u, n) => o = n
        BY ItemsType, RequestAssumption DEF NeedsRow, IsNext
      <3>2. lock[p] = s
        BY <2>1, <3>1 DEF WaitsForRow
      <3>3. lock[q] # s
        BY <2>1, <3>1 DEF WaitsForRow
      <3>4. PICK i \in updated[s] : i \in Lines(s) /\ Items(s)[i].product = p
        BY <3>2, <1>1 DEF IInv, LocksOwned
      <3>5. PICK j \in Remaining(s) : Items(s)[j].product = q
        BY <2>1 DEF NeedsRow, IsNext
      <3>6. p <= q
        BY <3>4, <3>5, <1>1 DEF IInv, LinesAscend
      <3> QED
        BY <3>2, <3>3, <3>6, RequestAssumption
    <2>2. ASSUME WaitsForKey(r, s) PROVE ~Waits(s, t)
      <3>1. claim[KeyOf[r]] = s /\ KeyOf[r] \in Keys /\ s # None
        BY <2>2, RequestAssumption DEF WaitsForKey, HasKey
      <3>2. pc[s] \in {"outbox", "commit"}
        BY <3>1, <1>1 DEF IInv, ClaimsOwned
      <3> QED
        BY <3>2 DEF Waits, WaitsForRow, NeedsRow, WaitsForKey
    <2> QED
      BY <2>1, <2>2
  <1> QED
    BY <1>1, Invariance, PTL

\* Of any calls that are open at once, one waits for none of the others.
NoWaitCycle ==
    \A D \in SUBSET Requests :
        IsFiniteSet(D) /\ D # {} => \E r \in D : \A s \in D : ~Waits(r, s)

\* A deadlock of placeOrder() would be some calls that all wait for one another.
\* Of the fewest such calls none waits for a key, whose holder does not wait; and
\* those that need a higher product than one of them are fewer still.
THEOREM NoDeadlock == Spec => []NoWaitCycle
  <1>1. ASSUME WaitsRise PROVE NoWaitCycle
    <2> DEFINE Stuck(D) == D # {} /\ IsFiniteSet(D) /\ \A r \in D : \E s \in D : Waits(r, s)
               Bad == {D \in SUBSET Requests : Stuck(D)}
    <2>1. ASSUME Bad # {} PROVE FALSE
      <3>1. Bad \in SUBSET SUBSET Requests /\ \A D \in Bad : IsFiniteSet(D)
        OBVIOUS
      <3> HIDE DEF Bad
      <3>2. PICK D \in Bad : \A E \in Bad : Cardinality(D) <= Cardinality(E)
        BY <2>1, <3>1, LeastSet
      <3>3. D \in SUBSET Requests /\ Stuck(D)
        BY DEF Bad
      <3>4. ASSUME NEW r \in D
            PROVE  \E s \in D : WaitsForRow(r, s)
        <4>1. PICK s \in D : Waits(r, s)
          BY <3>3
        <4>2. PICK u \in D : Waits(s, u)
          BY <3>3
        <4>3. ~WaitsForKey(r, s)
          BY <1>1, <3>3, <4>2 DEF WaitsRise
        <4> QED
          BY <4>1, <4>3 DEF Waits
      <3>5. PICK r \in D : TRUE
        BY <3>3
      <3>6. PICK p \in Products : NeedsRow(r, p)
        BY <3>4 DEF WaitsForRow
      <3> DEFINE E == {s \in D : \E q \in Products : NeedsRow(s, q) /\ p < q}
      <3>7. ASSUME NEW s \in D, NEW q \in Products, NeedsRow(s, q), p <= q
            PROVE  \E u \in E : WaitsForRow(s, u)
        <4>1. PICK u \in D : WaitsForRow(s, u)
          BY <3>4
        <4>2. PICK v \in D : WaitsForRow(u, v)
          BY <3>4
        <4>3. PICK o \in Products : NeedsRow(u, o)
          BY <4>2 DEF WaitsForRow
        <4>4. q < o
          BY <1>1, <3>3, <3>7, <4>1, <4>2, <4>3 DEF WaitsRise
        <4>5. p < o
          BY <3>7, <4>4, RequestAssumption
        <4> QED
          BY <4>1, <4>3, <4>5
      <3>8. E # {} /\ \A s \in E : \E u \in E : Waits(s, u)
        <4>1. p <= p
          BY RequestAssumption
        <4>2. E # {}
          BY <3>6, <3>7, <4>1
        <4>3. \A q \in Products : p < q => p <= q
          BY RequestAssumption
        <4> QED
          BY <3>7, <4>2, <4>3 DEF Waits
      <3>9. r \notin E
        <4>1. \A q \in Products : NeedsRow(r, q) => q = p
          BY <3>3, <3>6, ItemsType, RequestAssumption DEF NeedsRow, IsNext
        <4> QED
          BY <4>1, RequestAssumption
      <3> HIDE DEF E
      <3>10. E \subseteq D \ {r}
        BY <3>9 DEF E
      <3>11. /\ IsFiniteSet(D \ {r}) /\ Cardinality(D \ {r}) < Cardinality(D)
             /\ Cardinality(D \ {r}) \in Nat /\ Cardinality(D) \in Nat
        BY <3>3, <3>5, Shrinks
      <3>12. /\ IsFiniteSet(E) /\ Cardinality(E) <= Cardinality(D \ {r})
             /\ Cardinality(E) \in Nat
        BY <3>10, <3>11, FS_Subset, FS_CardinalityType
      <3>13. E \in Bad
        BY <3>3, <3>8, <3>10, <3>12 DEF Bad
      <3> QED
        BY <3>2, <3>11, <3>12, <3>13
    <2> QED
      BY <2>1 DEF NoWaitCycle
  <1> QED
    BY <1>1, LockOrder, PTL

-----------------------------------------------------------------------------
(* Refinement: the statements of a call that change no committed row and   *)
(* give no answer are stutters of AtomicOrders; the others are its actions.*)

\* A commit takes all the lines of the order from the committed stock, which
\* the row locks have kept as the UPDATEs saw it.
LEMMA CommitPlaces ==
    ASSUME IInv, NEW r \in Requests, pc[r] = "commit", CommitWrites(r),
           NEW a \in {Created(r), Refusal(500)}, Reply(r, a)
    PROVE  Atomic!Place(r)
  <1> USE DEF Atomic!Lines, Atomic!Items, Lines, Items
  <1>1. /\ updated[r] = Lines(r) /\ Distinct(r)
        /\ resp[r] = None /\ r \notin orders
    BY DEF IInv, AllLinesLocked, AnswersFinal
  <1>2. Atomic!Distinct(r)
    BY <1>1 DEF Distinct, Atomic!Distinct
  <1>3. Atomic!Available(r)
    BY <1>1 DEF IInv, VersionsPending, Atomic!Available
  <1>4. KeyOf[r] \in Keys => records[KeyOf[r]] = None
    BY RequestAssumption DEF IInv, ClaimsOwned, HasKey
  <1>5. stock' = [p \in Products |-> stock[p] - Atomic!Demand(r, p)]
    <2> SUFFICES ASSUME NEW p \in Products
                 PROVE  (IF lock[p] = r THEN version[p] ELSE stock[p])
                          = stock[p] - Atomic!Demand(r, p)
      BY DEF CommitWrites
    <2>1. CASE lock[p] = r
      <3>1. PICK i \in Lines(r) : Items(r)[i].product = p
        BY <2>1, <1>1 DEF IInv, LocksOwned
      <3>2. \A j \in Lines(r) : Items(r)[j].product = p => j = i
        BY <3>1, <1>1 DEF Distinct
      <3>3. Atomic!Demand(r, p) = Items(r)[i].quantity
        BY <3>1, <3>2 DEF Atomic!Demand
      <3>4. version[p] = stock[p] - Items(r)[i].quantity
        BY <3>1, <1>1 DEF IInv, VersionsPending
      <3> QED
        BY <2>1, <3>3, <3>4
    <2>2. CASE lock[p] # r
      <3>1. ~\E i \in Lines(r) : Items(r)[i].product = p
        BY <2>2, <1>1 DEF IInv, LocksOwned
      <3>2. Atomic!Demand(r, p) = 0
        BY <3>1 DEF Atomic!Demand
      <3>3. stock[p] \in Nat
        BY DEF IInv, TypeOK
      <3> QED
        BY <2>2, <3>2, <3>3
    <2> QED
      BY <2>1, <2>2
  <1>6. orders' = orders \union {r} /\ outbox' = outbox \union {r}
    BY DEF CommitWrites, IInv, WritesSoFar
  <1>7. records' = [k \in Keys |->
                      IF k = KeyOf[r] THEN [order |-> r, body |-> BodyOf[r]]
                      ELSE records[k]]
    <2>1. \A k \in Keys : claim[k] = r <=> k = KeyOf[r]
      BY RequestAssumption DEF IInv, ClaimsOwned, HasKey
    <2> QED
      BY <2>1 DEF CommitWrites
  <1>8. \/ resp' = [resp EXCEPT ![r] = Atomic!Created(r)]
        \/ resp' = [resp EXCEPT ![r] = Atomic!Refusal(500)]
    BY DEF Reply, Created, Refusal, Atomic!Created, Atomic!Refusal
  <1> QED
    BY <1>1, <1>2, <1>3, <1>4, <1>5, <1>6, <1>7, <1>8 DEF Atomic!Place

\* A line refused is refused for a reason the committed stock shows.
LEMMA RefuseLineRefuses ==
    ASSUME IInv, NEW r \in Requests, RefuseLine(r)
    PROVE  Atomic!Refuse(r)
  <1> USE DEF Atomic!Lines, Atomic!Items, Lines, Items
  <1> PICK i \in Lines(r) :
        /\ pc[r] = "items" /\ IsNext(r, i) /\ ~Matches(r, i)
        /\ ReplyError(r, IF Items(r)[i].product \in Active THEN 400 ELSE 404)
        /\ Rollback(r)
    BY DEF RefuseLine
  <1>1. resp[r] = None /\ UNCHANGED <<stock, orders, outbox, records>>
    BY DEF IInv, AnswersFinal, Rollback, tables
  <1>2. CASE Items(r)[i].product \notin Active
    <2>1. resp' = [resp EXCEPT ![r] = Atomic!Refusal(404)]
      BY <1>2 DEF ReplyError, Reply, Refusal, Atomic!Refusal
    <2> QED
      BY <1>1, <1>2, <2>1 DEF Atomic!Refuse
  <1>3. CASE Items(r)[i].product \in Active
    <2>1. resp' = [resp EXCEPT ![r] = Atomic!Refusal(400)]
      BY <1>3 DEF ReplyError, Reply, Refusal, Atomic!Refusal
    <2>2. \/ ~Atomic!Distinct(r)
          \/ Items(r)[i].quantity > stock[Items(r)[i].product]
      <3>1. CASE lock[Items(r)[i].product] = r
        <4>1. PICK j \in updated[r] : Items(r)[j].product = Items(r)[i].product
          BY <3>1, ItemsType DEF IInv, LocksOwned
        <4>2. j \in Lines(r) /\ j # i
          BY <4>1 DEF IInv, LocksOwned, IsNext, Remaining
        <4> QED
          BY <4>1, <4>2 DEF Atomic!Distinct
      <3>2. CASE lock[Items(r)[i].product] # r
        <4>1. /\ Items(r)[i].product \in Products
              /\ Items(r)[i].quantity \in Nat
          BY ItemsType
        <4>2. ~(stock[Items(r)[i].product] >= Items(r)[i].quantity)
          BY <3>2, <1>3 DEF Matches, Visible
        <4>3. stock[Items(r)[i].product] \in Nat
          BY <4>1 DEF IInv, TypeOK
        <4> QED
          BY <4>1, <4>2, <4>3
      <3> QED
        BY <3>1, <3>2
    <2> QED
      BY <1>1, <2>1, <2>2 DEF Atomic!Refuse
  <1> QED
    BY <1>2, <1>3

\* An answer from the record is the abstract replay.
LEMMA FoundIsReplay ==
    ASSUME IInv, NEW r \in Requests, pc[r] # "done", HasKey(r),
           records[KeyOf[r]] # None, Found(r), UNCHANGED rows, UNCHANGED tables
    PROVE  Atomic!Replay(r)
  <1>1. resp[r] = None
    BY DEF IInv, AnswersFinal
  <1> QED
    BY <1>1 DEF Atomic!Replay, Found, Reply, HasKey, rows, tables, Refusal,
                Replayed, Atomic!Refusal, Atomic!Replayed

\* A 500 with everything rolled back is the abstract failure.
LEMMA RollbackFails ==
    ASSUME IInv, NEW r \in Requests, pc[r] # "done", ReplyError(r, 500),
           Rollback(r)
    PROVE  Atomic!Fail(r)
  BY DEF IInv, AnswersFinal, ReplyError, Reply, Rollback, tables, Refusal,
         Atomic!Refusal, Atomic!Fail

\* Every statement is an action of AtomicOrders or changes none of its variables.
LEMMA StepRefines == IInv /\ [Next]_vars => [Atomic!Next]_(Atomic!vars)
  <1> SUFFICES ASSUME IInv, [Next]_vars
               PROVE  Atomic!Next \/ UNCHANGED Atomic!vars
    OBVIOUS
  <1> USE DEF Atomic!vars, Atomic!Next
  <1>1. ASSUME NEW r \in Requests, Begin(r)
        PROVE  Atomic!Next \/ UNCHANGED Atomic!vars
    BY <1>1, FoundIsReplay DEF Begin, rows, tables
  <1>2. ASSUME NEW r \in Requests, UpdateProduct(r)
        PROVE  UNCHANGED Atomic!vars
    BY <1>2 DEF UpdateProduct, tables
  <1>3. ASSUME NEW r \in Requests, RefuseLine(r)
        PROVE  Atomic!Next
    BY <1>3, RefuseLineRefuses
  <1>4. ASSUME NEW r \in Requests, InsertOrder(r)
        PROVE  Atomic!Next \/ UNCHANGED Atomic!vars
    BY <1>4, RollbackFails DEF InsertOrder, rows, tables
  <1>5. ASSUME NEW r \in Requests, Claim(r)
        PROVE  UNCHANGED Atomic!vars
    BY <1>5 DEF Claim, rows, tables, Rollback
  <1>6. ASSUME NEW r \in Requests, ReplayLoser(r)
        PROVE  Atomic!Next
    <2>1. HasKey(r) /\ records[KeyOf[r]] # None /\ pc[r] # "done"
      BY <1>6 DEF ReplayLoser, IInv, ClaimsOwned, LoserFindsRecord
    <2> QED
      BY <1>6, <2>1, FoundIsReplay DEF ReplayLoser
  <1>7. ASSUME NEW r \in Requests, InsertOutbox(r)
        PROVE  UNCHANGED Atomic!vars
    BY <1>7 DEF InsertOutbox, rows, tables
  <1>8. ASSUME NEW r \in Requests, Commit(r) \/ CommitUnheard(r)
        PROVE  Atomic!Next
    BY <1>8, CommitPlaces DEF Commit, CommitUnheard, ReplyError
  <1>9. ASSUME NEW r \in Requests, Fail(r)
        PROVE  Atomic!Next
    BY <1>9, RollbackFails DEF Fail
  <1>10. CASE UNCHANGED vars
    BY <1>10 DEF vars
  <1> QED
    BY <1>1, <1>2, <1>3, <1>4, <1>5, <1>6, <1>7, <1>8, <1>9, <1>10
    DEF Next, Step

\* The statements of placeOrder, run concurrently and failing anywhere,
\* implement an order book in which each request is one atomic step.
THEOREM Refinement == Spec => ImplementsAtomicOrders
  <1>1. Init => Atomic!Init
    BY DEF Init, Atomic!Init
  <1> QED
    BY <1>1, StepRefines, Invariance, PTL DEF Spec, Atomic!Spec, ImplementsAtomicOrders

-----------------------------------------------------------------------------
(* The stock: a sum over a set grows by what an order joining it asks.     *)

\* What each order asks of product p.
Asked(p) == [r \in Requests |-> Demand(r, p)]

\* No order asks for less than nothing, nor for a fraction.
LEMMA DemandType ==
    ASSUME NEW r \in Requests, NEW p
    PROVE  Demand(r, p) \in Nat
  BY ItemsType DEF Demand

\* StockConservation, as a sum that can be taken apart.
Balanced ==
    /\ IsFiniteSet(orders) /\ orders \in SUBSET Requests
    /\ \A p \in Products : InitStock[p] = stock[p] + Total(Asked(p), orders)

\* An order that is placed takes from the stock what it adds to the sum.
LEMMA PlaceBalances ==
    ASSUME IInv, Balanced, NEW r \in Requests, Atomic!Place(r)
    PROVE  Balanced'
  <1>1. /\ r \notin orders /\ orders' = orders \union {r}
        /\ stock' = [p \in Products |-> stock[p] - Demand(r, p)]
    BY DEF Atomic!Place, Atomic!Demand, Demand, Atomic!Lines, Atomic!Items, Lines, Items
  <1>2. IsFiniteSet(orders') /\ orders' \in SUBSET Requests /\ orders' \ {r} = orders
    BY <1>1, FS_AddElement DEF Balanced
  <1>3. ASSUME NEW p \in Products
        PROVE  InitStock[p] = stock'[p] + Total(Asked(p), orders')
    <2>1. InitStock[p] = stock[p] + Total(Asked(p), orders)
      BY DEF Balanced
    <2>2. Total(Asked(p), orders') = Demand(r, p) + Total(Asked(p), orders)
      <3>1. \A q \in orders' : Asked(p)[q] \in Nat
        BY <1>2, DemandType DEF Asked
      <3>2. Total(Asked(p), orders') = Asked(p)[r] + Total(Asked(p), orders' \ {r})
        BY <1>1, <1>2, <3>1, TotalTakes
      <3> QED
        BY <1>2, <3>2 DEF Asked
    <2>3. stock'[p] = stock[p] - Demand(r, p)
      BY <1>1
    <2>4. stock[p] \in Nat /\ Demand(r, p) \in Nat /\ Total(Asked(p), orders) \in Nat
      <3>1. \A q \in orders : Asked(p)[q] \in Nat
        BY DemandType DEF Asked, Balanced
      <3> QED
        BY <3>1, DemandType, TotalType DEF Balanced, IInv, TypeOK
    <2> QED
      BY <2>1, <2>2, <2>3, <2>4
  <1> QED
    BY <1>2, <1>3 DEF Balanced

\* What was there at the start is what is left and what the committed orders
\* took, whatever was rolled back and however the UPDATEs interleaved.
THEOREM StockIsConserved == Spec => []StockConservation
  <1>1. Init => Balanced
    <2> SUFFICES ASSUME Init PROVE Balanced
      OBVIOUS
    <2>1. orders = {} /\ IsFiniteSet(orders) /\ stock = InitStock
      BY FS_EmptySet DEF Init
    <2>2. ASSUME NEW p \in Products PROVE InitStock[p] = stock[p] + Total(Asked(p), orders)
      <3>1. Total(Asked(p), orders) = 0
        BY <2>1, TotalOfNone
      <3> QED
        BY <2>1, <3>1, RequestAssumption
    <2> QED
      BY <2>1, <2>2 DEF Balanced
  <1>2. IInv /\ Balanced /\ [Next]_vars => Balanced'
    <2> SUFFICES ASSUME IInv, Balanced, [Next]_vars PROVE Balanced'
      OBVIOUS
    <2>1. ASSUME UNCHANGED <<stock, orders>> PROVE Balanced'
      BY <2>1 DEF Balanced
    <2>2. ASSUME NEW r \in Requests, Atomic!Replay(r) \/ Atomic!Refuse(r) \/ Atomic!Fail(r)
          PROVE  Balanced'
      BY <2>1, <2>2 DEF Atomic!Replay, Atomic!Refuse, Atomic!Fail
    <2>3. CASE UNCHANGED Atomic!vars
      BY <2>1, <2>3 DEF Atomic!vars
    <2> QED
      BY <2>2, <2>3, StepRefines, PlaceBalances DEF Atomic!Next
  <1>3. Balanced => StockConservation
    BY TotalIsSum DEF Balanced, StockConservation, Asked
  <1> QED
    BY <1>1, <1>2, <1>3, Invariance, PTL DEF Spec

=============================================================================
