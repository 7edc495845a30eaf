--------------------------- MODULE AtomicOrders ----------------------------
(***************************************************************************)
(* What POST /orders promises, with no transaction in sight: a request is  *)
(* answered in one step, which either takes all its lines from the stock,  *)
(* creates the order, its event and its idempotency record together, or    *)
(* leaves everything as it was.  PlaceOrder implements it.                 *)
(***************************************************************************)
EXTENDS OrderRequests

VARIABLES
    stock,     \* units left of each product
    orders,    \* orders placed
    outbox,    \* orders whose OrderPlaced event is recorded
    records,   \* idempotency record of each key, or None
    resp       \* answer each request got, or None

vars == <<stock, orders, outbox, records, resp>>

Init ==
    /\ stock = InitStock
    /\ orders = {}
    /\ outbox = {}
    /\ records = [k \in Keys |-> None]
    /\ resp = [r \in Requests |-> None]

Available(r) ==
    \A i \in Lines(r) :
        /\ Items(r)[i].product \in Active
        /\ Items(r)[i].quantity <= stock[Items(r)[i].product]

\* The order is placed; the answer says so unless it is lost on the way.
Place(r) ==
    /\ resp[r] = None
    /\ Distinct(r)
    /\ Available(r)
    /\ r \notin orders
    /\ KeyOf[r] \in Keys => records[KeyOf[r]] = None
    /\ stock' = [p \in Products |-> stock[p] - Demand(r, p)]
    /\ orders' = orders \union {r}
    /\ outbox' = outbox \union {r}
    /\ records' = [k \in Keys |->
                     IF k = KeyOf[r] THEN [order |-> r, body |-> BodyOf[r]]
                     ELSE records[k]]
    /\ \/ resp' = [resp EXCEPT ![r] = Created(r)]
       \/ resp' = [resp EXCEPT ![r] = Refusal(500)]

\* The key is taken: the recorded answer, or 422 for another body.
Replay(r) ==
    /\ resp[r] = None
    /\ KeyOf[r] \in Keys
    /\ records[KeyOf[r]] # None
    /\ resp' = [resp EXCEPT ![r] =
                  IF records[KeyOf[r]].body = BodyOf[r]
                  THEN Replayed(records[KeyOf[r]].order)
                  ELSE Refusal(422)]
    /\ UNCHANGED <<stock, orders, outbox, records>>

\* 404 only for a product not on sale; 400 only when a line asks for more
\* than is left (or the same product twice).
Refuse(r) ==
    /\ resp[r] = None
    /\ \/ /\ \E i \in Lines(r) : Items(r)[i].product \notin Active
          /\ resp' = [resp EXCEPT ![r] = Refusal(404)]
       \/ /\ \/ ~Distinct(r)
             \/ \E i \in Lines(r) :
                    Items(r)[i].quantity > stock[Items(r)[i].product]
          /\ resp' = [resp EXCEPT ![r] = Refusal(400)]
    /\ UNCHANGED <<stock, orders, outbox, records>>

\* Any failure without effect.
Fail(r) ==
    /\ resp[r] = None
    /\ resp' = [resp EXCEPT ![r] = Refusal(500)]
    /\ UNCHANGED <<stock, orders, outbox, records>>

Next == \E r \in Requests : Place(r) \/ Replay(r) \/ Refuse(r) \/ Fail(r)

Spec == Init /\ [][Next]_vars

=============================================================================
