---------------------------- MODULE ConfirmOnce ----------------------------
(***************************************************************************)
(* What the outbox pipeline promises to an order, with no broker, relay or *)
(* consumer in sight: a placed order is confirmed at most once, and its    *)
(* receipt is asked for only when it is confirmed.                         *)
(***************************************************************************)
CONSTANT Events

VARIABLES
    placed,      \* orders whose transaction committed
    confirmed,   \* orders with a row in order_confirmations
    requested    \* orders whose receipt was asked for

vars == <<placed, confirmed, requested>>

Init == placed = {} /\ confirmed = {} /\ requested = {}

Place(e) ==
    /\ e \notin placed
    /\ placed' = placed \union {e}
    /\ UNCHANGED <<confirmed, requested>>

Confirm(e) ==
    /\ e \in placed \ confirmed
    /\ confirmed' = confirmed \union {e}
    /\ UNCHANGED <<placed, requested>>

Request(e) ==
    /\ e \in confirmed \ requested
    /\ requested' = requested \union {e}
    /\ UNCHANGED <<placed, confirmed>>

Next == \E e \in Events : Place(e) \/ Confirm(e) \/ Request(e)

Spec == Init /\ [][Next]_vars

=============================================================================
