--------------------------- MODULE OrderRequests ---------------------------
(***************************************************************************)
(* What POST /orders is given: the requests, their Idempotency-Key and     *)
(* their body, and the helpers over the lines of a body.  Shared by the    *)
(* abstract order book (AtomicOrders) and the transaction that implements  *)
(* it (PlaceOrder).                                                        *)
(*                                                                         *)
(* A body stands for everything hashRequest() covers: user, country and    *)
(* the lines in the order sent.  Two requests have the same hash exactly   *)
(* when they have the same body.                                           *)
(***************************************************************************)
EXTENDS Integers, Sequences

CONSTANTS
    Requests,    \* POST /orders calls; the order a call creates has its name
    Products,    \* ids the lines may name, compared as numbers
    Active,      \* products whose row exists with is_active = true
    InitStock,   \* stock before the first call
    Keys,        \* Idempotency-Key values
    Bodies,      \* request bodies
    KeyOf,       \* key sent with a request, or NoKey
    BodyOf,      \* body of a request
    ItemsOf,     \* lines of a body: sequence of [product, quantity]
    NoKey,       \* the header is absent or blank
    None         \* absent row, free lock, no answer yet

(* Answers: the order created, the recorded one with Idempotent-Replayed,  *)
(* or an error status without an order.                                    *)
Answers ==
    [kind : {"created", "replayed", "error"}, order : Requests \union {None},
     status : {201, 400, 404, 422, 500}]

Created(o) == [kind |-> "created", order |-> o, status |-> 201]

Replayed(o) == [kind |-> "replayed", order |-> o, status |-> 201]

Refusal(s) == [kind |-> "error", order |-> None, status |-> s]

\* The validated input: CreateOrderDto lets only integer product ids and the
\* quantities through that the CHECK of order_items accepts.
ASSUME RequestAssumption ==
    /\ Products \subseteq Int
    /\ Active \subseteq Products
    /\ InitStock \in [Products -> Nat]
    /\ NoKey \notin Keys
    /\ None \notin Requests
    /\ None \notin [order : Requests, body : Bodies]
    /\ None \notin Answers
    /\ KeyOf \in [Requests -> Keys \union {NoKey}]
    /\ BodyOf \in [Requests -> Bodies]
    /\ ItemsOf \in [Bodies -> Seq([product : Products, quantity : Nat \ {0}])]

Items(r) == ItemsOf[BodyOf[r]]

Lines(r) == DOMAIN Items(r)

\* UQ_order_items_order_product: one line per product and order.
Distinct(r) ==
    \A i, j \in Lines(r) : Items(r)[i].product = Items(r)[j].product => i = j

\* What the lines of r ask of product p, for a body without duplicates.
Demand(r, p) ==
    IF \E i \in Lines(r) : Items(r)[i].product = p
    THEN Items(r)[CHOOSE i \in Lines(r) : Items(r)[i].product = p].quantity
    ELSE 0

=============================================================================
