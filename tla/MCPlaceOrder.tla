---------------------------- MODULE MCPlaceOrder ----------------------------
(***************************************************************************)
(* Instances of PlaceOrder for TLC.                                        *)
(***************************************************************************)
EXTENDS PlaceOrder, TLC

CONSTANTS r1, r2, r3, r4, r5, k1

Line(p, q) == [product |-> p, quantity |-> q]

\* Products on sale in bodies that name them in opposite orders, with stock
\* for one of these; a body that shares no row with them; one with a duplicate
\* line and one naming a product that is not on sale.
MCProducts == {1, 2, 3, 4}
MCActive == {1, 2, 3}
MCInitStock == (1 :> 2) @@ (2 :> 2) @@ (3 :> 1) @@ (4 :> 1)
MCBodies == {"ab", "ba", "c", "aa", "bd"}
MCItemsOf ==
    [ab |-> <<Line(1, 1), Line(2, 1)>>,
     ba |-> <<Line(2, 2), Line(1, 1)>>,
     c  |-> <<Line(3, 1)>>,
     aa |-> <<Line(1, 1), Line(1, 1)>>,
     bd |-> <<Line(4, 1), Line(2, 1)>>]

\* One key sent twice with one body and once with another whose rows are free
\* while the first is under way; a call that wants their rows in the opposite
\* order, and one with a duplicate line.
MCKeyOf ==
    (r1 :> k1) @@ (r2 :> k1) @@ (r3 :> k1) @@ (r4 :> NoKey) @@ (r5 :> NoKey)
MCBodyOf ==
    (r1 :> "ab") @@ (r2 :> "ab") @@ (r3 :> "c") @@ (r4 :> "ba") @@ (r5 :> "aa")

=============================================================================
