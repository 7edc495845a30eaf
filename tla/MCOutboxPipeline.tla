-------------------------- MODULE MCOutboxPipeline --------------------------
(***************************************************************************)
(* Instances of OutboxPipeline for TLC.                                    *)
(***************************************************************************)
EXTENDS OutboxPipeline, TLC

CONSTANTS c1, c2, h1, h2, r1, r2

OneProcess == (h1 :> c1) @@ (h2 :> c1)
NoProcess == [h \in {} |-> c1]
TwoProcesses == (h1 :> c1) @@ (h2 :> c2)

\* Two relays may change names, and two processes, each with its handler.
SameProcesses ==
    {f \in Permutations({c1, c2, h1, h2}) :
       \A h \in {h1, h2} : /\ f[h] \in {h1, h2}
                            /\ f[TwoProcesses[h]] = TwoProcesses[f[h]]}
SameRelays == Permutations({r1, r2})

=============================================================================
