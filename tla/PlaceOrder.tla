---------------------------- MODULE PlaceOrder -----------------------------
(***************************************************************************)
(* placeOrder() of src/src/orders/place-order.ts, run by any number of     *)
(* concurrent POST /orders calls against one Postgres at READ COMMITTED.   *)
(* One action per SQL statement: between two of them other calls run.      *)
(*                                                                         *)
(* Postgres is modelled by what the statements use of it:                  *)
(*   - an UPDATE locks the product row until its transaction ends; others  *)
(*     see the committed version (stock), the owner its own (version);     *)
(*   - INSERT ... ON CONFLICT DO NOTHING waits for an uncommitted claim of *)
(*     the same key and then inserts or does nothing;                      *)
(*   - COMMIT publishes all writes of the transaction in one step,         *)
(*     ROLLBACK drops them.                                                *)
(***************************************************************************)
EXTENDS OrderRequests, Functions

VARIABLES
    pc,        \* the statement each call will run next
    updated,   \* lines whose UPDATE products the open transaction has run
    stock,     \* committed products.stock
    version,   \* products.stock in the uncommitted row version of the owner
    lock,      \* transaction holding the row lock of a product
    records,   \* committed idempotency_records
    claim,     \* transaction holding an uncommitted record of a key
    writes,    \* rows the open transaction has inserted
    orders,    \* committed orders (with their order_items)
    outbox,    \* committed outbox rows, by the order they announce
    resp       \* answer of each call

vars == <<pc, updated, stock, version, lock, records, claim, writes, orders,
          outbox, resp>>

rows == <<stock, version, lock>>
tables == <<records, orders, outbox>>

TypeOK ==
    /\ pc \in [Requests -> {"begin", "items", "claim", "outbox", "commit",
                            "replay", "done"}]
    /\ updated \in [Requests -> SUBSET Nat]
    /\ stock \in [Products -> Nat]
    /\ version \in [Products -> Nat]
    /\ lock \in [Products -> Requests \union {None}]
    /\ records \in [Keys -> [order : Requests, body : Bodies] \union {None}]
    /\ claim \in [Keys -> Requests \union {None}]
    /\ writes \in [Requests -> SUBSET {"order", "record", "event"}]
    /\ orders \in SUBSET Requests
    /\ outbox \in SUBSET Requests
    /\ resp \in [Requests -> Answers \union {None}]

Init ==
    /\ pc = [r \in Requests |-> "begin"]
    /\ updated = [r \in Requests |-> {}]
    /\ stock = InitStock
    /\ version = InitStock
    /\ lock = [p \in Products |-> None]
    /\ records = [k \in Keys |-> None]
    /\ claim = [k \in Keys |-> None]
    /\ writes = [r \in Requests |-> {}]
    /\ orders = {}
    /\ outbox = {}
    /\ resp = [r \in Requests |-> None]

HasKey(r) == KeyOf[r] \in Keys

Goto(r, label) == pc' = [pc EXCEPT ![r] = label]

Reply(r, answer) ==
    /\ Goto(r, "done")
    /\ resp' = [resp EXCEPT ![r] = answer]

ReplyError(r, status) == Reply(r, Refusal(status))

-----------------------------------------------------------------------------
(* The end of a transaction.                                               *)

InTransaction(r) == pc[r] \in {"items", "claim", "outbox", "commit"}

FreeLocks(r) == [p \in Products |-> IF lock[p] = r THEN None ELSE lock[p]]

FreeClaims(r) == [k \in Keys |-> IF claim[k] = r THEN None ELSE claim[k]]

EndTransaction(r) ==
    /\ lock' = FreeLocks(r)
    /\ claim' = FreeClaims(r)
    /\ updated' = [updated EXCEPT ![r] = {}]
    /\ writes' = [writes EXCEPT ![r] = {}]

Rollback(r) ==
    /\ EndTransaction(r)
    /\ UNCHANGED <<stock, version>>
    /\ UNCHANGED tables

CommitWrites(r) ==
    /\ EndTransaction(r)
    /\ stock' = [p \in Products |-> IF lock[p] = r THEN version[p] ELSE stock[p]]
    /\ orders' = IF "order" \in writes[r] THEN orders \union {r} ELSE orders
    /\ outbox' = IF "event" \in writes[r] THEN outbox \union {r} ELSE outbox
    /\ records' = [k \in Keys |->
                     IF claim[k] = r THEN [order |-> r, body |-> BodyOf[r]]
                     ELSE records[k]]
    /\ UNCHANGED version

-----------------------------------------------------------------------------
(* findReplay: a statement of its own, before the transaction or after it. *)

\* Faulty variant: the request hash is not compared.
FoundAnyBody(r) == Reply(r, Replayed(records[KeyOf[r]].order))

Found(r) ==
    Reply(r, IF records[KeyOf[r]].body = BodyOf[r]
             THEN Replayed(records[KeyOf[r]].order)
             ELSE Refusal(422))

\* Without a key the transaction starts at once.
Begin(r) ==
    /\ pc[r] = "begin"
    /\ IF HasKey(r) /\ records[KeyOf[r]] # None
       THEN Found(r)
       ELSE /\ Goto(r, "items")
            /\ UNCHANGED resp
    /\ UNCHANGED <<updated, claim, writes>>
    /\ UNCHANGED rows
    /\ UNCHANGED tables

\* The claim found a committed record: its transaction is rolled back and the
\* record read.  Finding none would rethrow IdempotentReplay, a 500.
ReplayLoser(r) ==
    /\ pc[r] = "replay"
    /\ IF records[KeyOf[r]] # None THEN Found(r) ELSE ReplyError(r, 500)
    /\ UNCHANGED <<updated, claim, writes>>
    /\ UNCHANGED rows
    /\ UNCHANGED tables

-----------------------------------------------------------------------------
(* insertOrder: the lines in ascending product id, stable.                 *)

Remaining(r) == Lines(r) \ updated[r]

\* Faulty variant: the lines in the order the client sent them.
IsNextUnsorted(r, i) ==
    /\ i \in Remaining(r)
    /\ \A j \in Remaining(r) : i <= j

IsNext(r, i) ==
    /\ i \in Remaining(r)
    /\ \A j \in Remaining(r) :
          \/ Items(r)[i].product < Items(r)[j].product
          \/ Items(r)[i].product = Items(r)[j].product /\ i <= j

\* products.stock as a statement of r sees it.
Visible(r, p) == IF lock[p] = r THEN version[p] ELSE stock[p]

\* Faulty variant: stock >= $1 is not in the WHERE, so a row is matched
\* however little is left.
MatchesAnyStock(r, i) == Items(r)[i].product \in Active

\* WHERE id = $2 AND is_active = true AND stock >= $1
Matches(r, i) ==
    /\ Items(r)[i].product \in Active
    /\ Visible(r, Items(r)[i].product) >= Items(r)[i].quantity

\* Faulty variant: the update does not wait for the row's lock.
UpdateProductUnlocked(r) ==
    \E i \in Lines(r) :
        LET p == Items(r)[i].product
        IN  /\ pc[r] = "items"
            /\ IsNext(r, i)
            /\ Matches(r, i)
            /\ lock' = [lock EXCEPT ![p] = r]
            /\ version' = [version EXCEPT ![p] = Visible(r, p) - Items(r)[i].quantity]
            /\ updated' = [updated EXCEPT ![r] = @ \union {i}]
            /\ UNCHANGED <<pc, stock, claim, writes, resp>>
            /\ UNCHANGED tables

UpdateProduct(r) ==
    \E i \in Lines(r) :
        LET p == Items(r)[i].product
        IN  /\ pc[r] = "items"
            /\ IsNext(r, i)
            /\ Matches(r, i)
            /\ lock[p] \in {None, r}
            /\ lock' = [lock EXCEPT ![p] = r]
            /\ version' = [version EXCEPT ![p] = Visible(r, p) - Items(r)[i].quantity]
            /\ updated' = [updated EXCEPT ![r] = @ \union {i}]
            /\ UNCHANGED <<pc, stock, claim, writes, resp>>
            /\ UNCHANGED tables

\* No row matched: a lock held by another does not delay this.
RefuseLine(r) ==
    \E i \in Lines(r) :
        /\ pc[r] = "items"
        /\ IsNext(r, i)
        /\ ~Matches(r, i)
        /\ ReplyError(r, IF Items(r)[i].product \in Active THEN 400 ELSE 404)
        /\ Rollback(r)

\* INSERT INTO orders and order_items; two lines of one product break the
\* unique constraint.
InsertOrder(r) ==
    /\ pc[r] = "items"
    /\ Remaining(r) = {}
    /\ IF Distinct(r)
       THEN /\ writes' = [writes EXCEPT ![r] = @ \union {"order"}]
            /\ Goto(r, IF HasKey(r) THEN "claim" ELSE "outbox")
            /\ UNCHANGED <<updated, claim, resp>>
            /\ UNCHANGED rows
            /\ UNCHANGED tables
       ELSE /\ ReplyError(r, 500)
            /\ Rollback(r)

-----------------------------------------------------------------------------
(* The Idempotency-Key claim, the outbox row and the commit.               *)

\* Faulty variant: a key somebody else is claiming is not waited for; the
\* second insert is answered with "no row", as if the record were committed.
ClaimWithoutWaiting(r) ==
    LET k == KeyOf[r]
    IN  /\ pc[r] = "claim"
        /\ IF records[k] = None /\ claim[k] = None
           THEN /\ claim' = [claim EXCEPT ![k] = r]
                /\ writes' = [writes EXCEPT ![r] = @ \union {"record"}]
                /\ Goto(r, "outbox")
                /\ UNCHANGED <<updated, resp>>
                /\ UNCHANGED rows
                /\ UNCHANGED tables
           ELSE /\ Goto(r, "replay")
                /\ Rollback(r)
                /\ UNCHANGED resp

\* Faulty variant: the record replaces the one the key already has.
ClaimUpsert(r) ==
    LET k == KeyOf[r]
    IN  /\ pc[r] = "claim"
        /\ claim[k] = None
        /\ claim' = [claim EXCEPT ![k] = r]
        /\ writes' = [writes EXCEPT ![r] = @ \union {"record"}]
        /\ Goto(r, "outbox")
        /\ UNCHANGED <<updated, resp>>
        /\ UNCHANGED rows
        /\ UNCHANGED tables

\* Faulty variant: the loser of the key returns from the transaction instead
\* of throwing, so its order is committed before the record is read.
ClaimLoserCommits(r) ==
    LET k == KeyOf[r]
    IN  /\ pc[r] = "claim"
        /\ claim[k] = None
        /\ IF records[k] = None
           THEN /\ claim' = [claim EXCEPT ![k] = r]
                /\ writes' = [writes EXCEPT ![r] = @ \union {"record"}]
                /\ Goto(r, "outbox")
                /\ UNCHANGED <<updated, resp>>
                /\ UNCHANGED rows
                /\ UNCHANGED tables
           ELSE /\ Goto(r, "replay")
                /\ CommitWrites(r)
                /\ UNCHANGED resp

Claim(r) ==
    LET k == KeyOf[r]
    IN  /\ pc[r] = "claim"
        /\ claim[k] = None
        /\ IF records[k] = None
           THEN /\ claim' = [claim EXCEPT ![k] = r]
                /\ writes' = [writes EXCEPT ![r] = @ \union {"record"}]
                /\ Goto(r, "outbox")
                /\ UNCHANGED <<updated, resp>>
                /\ UNCHANGED rows
                /\ UNCHANGED tables
           ELSE /\ Goto(r, "replay")
                /\ Rollback(r)
                /\ UNCHANGED resp

\* Faulty variant: the event is written through another connection and
\* commits by itself.
InsertOutboxOutside(r) ==
    /\ pc[r] = "outbox"
    /\ outbox' = outbox \union {r}
    /\ Goto(r, "commit")
    /\ UNCHANGED <<updated, writes, records, claim, orders, resp>>
    /\ UNCHANGED rows

InsertOutbox(r) ==
    /\ pc[r] = "outbox"
    /\ writes' = [writes EXCEPT ![r] = @ \union {"event"}]
    /\ Goto(r, "commit")
    /\ UNCHANGED <<updated, claim, resp>>
    /\ UNCHANGED rows
    /\ UNCHANGED tables

Commit(r) ==
    /\ pc[r] = "commit"
    /\ CommitWrites(r)
    /\ Reply(r, Created(r))

\* Postgres commits, but the connection is lost before the call hears of it.
CommitUnheard(r) ==
    /\ pc[r] = "commit"
    /\ CommitWrites(r)
    /\ ReplyError(r, 500)

\* Any statement may fail, and the process may die before any of them:
\* Postgres rolls an open transaction back and no order is answered for.
Fail(r) ==
    /\ pc[r] # "done"
    /\ ReplyError(r, 500)
    /\ Rollback(r)

Step(r) ==
    \/ Begin(r)
    \/ UpdateProduct(r)
    \/ RefuseLine(r)
    \/ InsertOrder(r)
    \/ Claim(r)
    \/ ReplayLoser(r)
    \/ InsertOutbox(r)
    \/ Commit(r)

Next == \E r \in Requests : Step(r) \/ CommitUnheard(r) \/ Fail(r)

Spec == Init /\ [][Next]_vars

\* A call whose next statement can run keeps being run; that a statement
\* fails or the process dies is never owed.
FairSpec == Spec /\ \A r \in Requests : WF_vars(Step(r))

-----------------------------------------------------------------------------
(* Who waits for whom.                                                     *)

\* The row the next UPDATE of r needs, if there is one left and it matches.
NeedsRow(r, p) ==
    /\ pc[r] = "items"
    /\ \E i \in Lines(r) :
          Items(r)[i].product = p /\ IsNext(r, i) /\ Matches(r, i)

WaitsForRow(r, s) ==
    /\ r # s
    /\ \E p \in Products : lock[p] = s /\ NeedsRow(r, p)

WaitsForKey(r, s) ==
    pc[r] = "claim" /\ HasKey(r) /\ claim[KeyOf[r]] = s

Waits(r, s) == WaitsForRow(r, s) \/ WaitsForKey(r, s)

-----------------------------------------------------------------------------
(* Properties.                                                             *)

\* Stock is neither lost nor invented: what was there at the start is what is
\* left plus what the committed orders took, however their UPDATEs, rollbacks
\* and commits interleave.
StockConservation ==
    \A p \in Products :
        InitStock[p] = stock[p] + SumFunctionOnSet([r \in Requests |-> Demand(r, p)], orders)

\* An order and the outbox row that announces it commit together: no order
\* without its event, no event without its order.
EventPerOrder == outbox = orders

\* However many calls race with one Idempotency-Key, one of them creates an
\* order.
OneOrderPerKey ==
    \A r, s \in orders : HasKey(r) /\ KeyOf[r] = KeyOf[s] => r = s

\* Every 201 names an order that exists, was asked for with the same body,
\* and is the caller's own unless it is a replay of the same key.
AnswerFaithful ==
    \A r \in Requests :
        resp[r] # None /\ resp[r].status = 201 =>
            LET o == resp[r].order
            IN  /\ o \in orders
                /\ BodyOf[o] = BodyOf[r]
                /\ IF resp[r].kind = "replayed"
                   THEN HasKey(r) /\ KeyOf[o] = KeyOf[r]
                   ELSE o = r

\* A refused call (400, 404, 422) left nothing behind.
RefusedLeavesNothing ==
    \A r \in Requests :
        resp[r] # None /\ resp[r].status \in {400, 404, 422} =>
            r \notin orders \union outbox

\* A call whose claim was refused finds the record it lost to: the rethrow of
\* IdempotentReplay after findReplay is never reached.
LoserFindsRecord ==
    \A r \in Requests : pc[r] = "replay" => records[KeyOf[r]] # None

\* The books balance at every commit of placeOrder: one event per order, one
\* order per key, and a committed record for the call that lost the key.
OrdersHold == EventPerOrder /\ OneOrderPerKey /\ LoserFindsRecord

\* What a client is told is what the tables hold: a 201 is backed by its
\* order, a refusal by the absence of one.
AnswersHold == AnswerFaithful /\ RefusedLeavesNothing

\* The stable lock order: a call that waits for a row is only ever held up by
\* calls waiting for a higher product, or not waiting for a row at all; the
\* holder of a key waits for nobody.  No cycle of waits can form.
WaitsRise ==
    \A r, s, t \in Requests :
        /\ WaitsForRow(r, s) /\ WaitsForRow(s, t) =>
              \A p, q \in Products : NeedsRow(r, p) /\ NeedsRow(s, q) => p < q
        /\ WaitsForKey(r, s) => ~Waits(s, t)

\* Every call is answered.
EveryCallAnswered == \A r \in Requests : <>(resp[r] # None)

\* The transaction behaves as one atomic step of the abstract order book.
Atomic == INSTANCE AtomicOrders

ImplementsAtomicOrders == Atomic!Spec

=============================================================================
