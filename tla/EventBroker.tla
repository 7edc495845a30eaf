---------------------------- MODULE EventBroker ----------------------------
(***************************************************************************)
(* The RabbitMQ side of the outbox pipeline and what all its processes     *)
(* share: the topology of src/src/broker/topology.ts, the copies of each   *)
(* event that were handed to the broker, a clock in days for the retention *)
(* rules, and a budget of faults that bounds how often the environment     *)
(* fails.                                                                  *)
(*                                                                         *)
(* An event is the OrderPlaced event of one order and stands for the order *)
(* too.  Events are numbered in the order of outbox.created_at, which is   *)
(* the start of the placing transaction: they may commit in another order. *)
(***************************************************************************)
EXTENDS Integers, FiniteSets

CONSTANTS
    Events,         \* orders that may be placed
    Copies,         \* messages the broker may be handed (a bound)
    Garbage,        \* content parseOrderPlacedEvent refuses
    DeliveryLimit,  \* returns after which a quorum queue dead-letters
    MaxFaults,      \* faults the environment may inject (a bound)
    MaxDay,         \* last day of the clock (a bound)
    None            \* nobody, nothing

ASSUME BrokerAssumption ==
    /\ Events \subseteq Nat
    /\ Copies \subseteq Nat
    /\ Garbage \notin Events
    /\ None \notin Events
    /\ None \notin Copies
    /\ None \notin Nat
    /\ DeliveryLimit \in Nat
    /\ MaxFaults \in Nat
    /\ MaxDay \in Nat

VARIABLES
    topology,   \* how far the exchange, queue and binding are declared
    copies,     \* each message: its event, where it is, how often returned
    faults,     \* faults injected so far
    day         \* the clock

brokerVars == <<topology, copies, faults, day>>

\* Where a message can be: not yet sent, in shop.order.placed and not
\* delivered (ready) or delivered and not settled (held), acknowledged, in the
\* dead-letter queue, in the unroutable queue.
Places == {"unsent", "ready", "held", "acked", "dlq", "unroutable"}

BrokerTypeOK ==
    /\ topology \in {"none", "exchange", "bound"}
    /\ copies \in [Copies -> [event : Events \union {Garbage, None},
                              at : Places, returns : Nat]]
    /\ faults \in 0 .. MaxFaults
    /\ day \in 0 .. MaxDay

BrokerInit ==
    /\ topology = "none"
    /\ copies = [c \in Copies |-> [event |-> None, at |-> "unsent", returns |-> 0]]
    /\ faults = 0
    /\ day = 0

Fault ==
    /\ faults < MaxFaults
    /\ faults' = faults + 1

CopiesOf(e) == {c \in Copies : copies[c].event = e}

\* The next message id; sending waits for one (a bound).
IsNextCopy(c) ==
    /\ copies[c].at = "unsent"
    /\ \A d \in Copies : d < c => copies[d].at # "unsent"

\* A message published to shop.events: before the queue is bound the alternate
\* exchange takes it.
Routed == IF topology = "bound" THEN "ready" ELSE "unroutable"

Store(content) ==
    \E c \in Copies :
        /\ IsNextCopy(c)
        /\ copies' = [copies EXCEPT ![c] =
                        [event |-> content, at |-> Routed, returns |-> 0]]

\* A delivery given back: reject with requeue, or its channel is gone.
\* x-delivery-count grows, up to the limit of the queue.
Returned(copy) ==
    IF copy.returns < DeliveryLimit
    THEN [copy EXCEPT !.at = "ready", !.returns = @ + 1]
    ELSE [copy EXCEPT !.at = "dlq"]

\* assertTopology: each declaration is idempotent.  The exchange with its
\* alternate comes before the dead-letter queue, the queue and its binding.
AssertTopology ==
    /\ topology' = IF topology = "none" THEN "exchange" ELSE "bound"
    /\ UNCHANGED <<copies, faults, day>>

\* Somebody else publishes to order.placed what is not an OrderPlaced event.
PublishGarbage ==
    /\ Fault
    /\ topology # "none"
    /\ Store(Garbage)
    /\ UNCHANGED <<topology, day>>

Tick ==
    /\ day < MaxDay
    /\ day' = day + 1
    /\ UNCHANGED <<topology, copies, faults>>

=============================================================================
