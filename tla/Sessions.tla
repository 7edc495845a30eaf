------------------------------ MODULE Sessions ------------------------------
(***************************************************************************)
(* The sessions of src/src/session/session.store.ts: one hash per sid in   *)
(* the noeviction Redis.  Sids are random, so an id is used once; what the *)
(* hash holds besides its lifetime is left out.                            *)
(***************************************************************************)
EXTENDS Naturals

CONSTANTS
    MaxSids,     \* bound: sessions ever created
    SessionTTL   \* SESSION_TTL_MS

ASSUME SessionAssumption == {MaxSids, SessionTTL} \subseteq Nat \ {0}

Sids == 1 .. MaxSids

VARIABLES
    session,  \* time each key has left, 0 when there is none
    created,  \* how many sids were ever given out
    ended     \* history: expired, or ended by a login or a logout that said so

sessionVars == <<session, created, ended>>

SessionTypeOK ==
    /\ session \in [Sids -> 0 .. SessionTTL]
    /\ created \in 0 .. MaxSids
    /\ ended \subseteq 1 .. created
    /\ \A s \in Sids : session[s] > 0 => s <= created

SessionInit == session = [s \in Sids |-> 0] /\ created = 0 /\ ended = {}

Live(s) == session[s] > 0

\* TOUCH: EXISTS, HINCRBY, HSET and PEXPIRE in one script.
TouchAlways(s) == session' = [session EXCEPT ![s] = SessionTTL]
Touch(s) == session' = [session EXCEPT ![s] = IF Live(s) THEN SessionTTL ELSE 0]

\* MULTI HSET PEXPIRE EXEC under a new sid.
Create ==
    /\ created < MaxSids
    /\ created' = created + 1
    /\ session' = [session EXCEPT ![created + 1] = SessionTTL]

Destroy(s) == session' = [session EXCEPT ![s] = 0]

SessionTick ==
    /\ session' = [s \in Sids |-> IF Live(s) THEN session[s] - 1 ELSE 0]
    /\ ended' = ended \union {s \in Sids : session[s] = 1}
    /\ UNCHANGED created

-----------------------------------------------------------------------------
\* An ended session is never revived: not by the touch of a request that was
\* under way when it expired or when another request logged out, and a login
\* that found it live does not leave it behind.
EndedStaysEnded == \A s \in ended : ~Live(s)

=============================================================================
