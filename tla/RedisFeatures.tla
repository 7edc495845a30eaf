--------------------------- MODULE RedisFeatures ---------------------------
(***************************************************************************)
(* The features of src/src/redis/redis-features.module.ts around a         *)
(* request: the session middleware of every route, then GET                *)
(* /products/:id/card behind the rate limiter, or POST and DELETE          *)
(* /session.  Requests interleave at every Redis command; a command fails, *)
(* its answer is lost or ioredis sends it twice; a pod dies; time passes   *)
(* for every key at once.                                                  *)
(***************************************************************************)
EXTENDS SlidingWindow, Sessions, SingleFlight

CONSTANTS
    Traffic,     \* the kinds of request: card, login, logout
    MaxRequests, \* bound: requests
    MaxFaults    \* bound: faults

ASSUME TrafficAssumption ==
    /\ Traffic \subseteq {"card", "login", "logout"}
    /\ {MaxRequests, MaxFaults} \subseteq Nat

VARIABLES request, requests, faults

vars == <<windowVars, sessionVars, flightVars, request, requests, faults>>

Idle == [at |-> "idle", kind |-> None, sid |-> None, session |-> FALSE]

TypeOK ==
    /\ WindowTypeOK /\ SessionTypeOK /\ FlightTypeOK
    /\ request \in [Callers -> [at : {"idle", "touch", "guard", "card", "destroy", "create"},
                                kind : Traffic \union {None}, sid : Sids \union {None},
                                session : BOOLEAN]]
    /\ \A c \in Callers : request[c].at # "card" <=> flight[c] = Landed
    /\ requests \in 0 .. MaxRequests /\ faults \in 0 .. MaxFaults

Init ==
    /\ WindowInit /\ SessionInit /\ FlightInit
    /\ request = [c \in Callers |-> Idle] /\ requests = 0 /\ faults = 0

At(c, place) == request[c].at = place
Answer(c) == request' = [request EXCEPT ![c] = Idle]
Go(c, place) == request' = [request EXCEPT ![c].at = place]

\* The handler a request reaches once the middleware is done with it.
Handler(kind, found) ==
    CASE kind = "card" -> "guard"
      [] kind = "login" -> IF found THEN "destroy" ELSE "create"
      [] kind = "logout" -> IF found THEN "destroy" ELSE "idle"

Handled(r, found) ==
    LET place == Handler(r.kind, found) IN
    IF place = "idle" THEN Idle ELSE [r EXCEPT !.at = place, !.session = found]

LoginsUnderWay == Cardinality({c \in Callers : request[c].kind = "login"})

Arrive(c, kind, sid) ==
    /\ At(c, "idle") /\ requests < MaxRequests
    /\ sid # None => sid <= created
    /\ kind = "login" => created + LoginsUnderWay < MaxSids
    /\ requests' = requests + 1
    /\ request' = [request EXCEPT ![c] =
         LET r == [Idle EXCEPT !.at = "touch", !.kind = kind, !.sid = sid]
         IN  IF sid = None THEN Handled(r, FALSE) ELSE r]
    /\ UNCHANGED <<windowVars, sessionVars, flightVars, faults>>

Fault == faults < MaxFaults /\ faults' = faults + 1
Heard == UNCHANGED faults

\* SessionMiddleware.use: without an answer the request goes on without a session.
Touching(c) == LET s == request[c].sid IN
    /\ At(c, "touch")
    /\ \/ Heard /\ Touch(s) /\ request' = [request EXCEPT ![c] = Handled(@, Live(s))]
       \/ Fault /\ (Touch(s) \/ UNCHANGED session)
          /\ request' = [request EXCEPT ![c] = Handled(@, FALSE)]
    /\ UNCHANGED <<windowVars, created, ended, flightVars, requests>>

\* RateLimitGuard: 429, or on to the card, also when Redis does not answer.
Guarding(c) ==
    /\ At(c, "guard")
    /\ \/ Heard /\ RunScript /\ HasRoom(log) /\ Go(c, "card") /\ Enter(c)
       \/ Heard /\ RunScript /\ ~HasRoom(log) /\ Answer(c) /\ UNCHANGED flightVars
       \/ Fault /\ RunScript /\ ~HasRoomAgain(log) /\ Answer(c) /\ UNCHANGED flightVars
       \/ Fault /\ (RunScript \/ UNCHANGED windowVars) /\ Go(c, "card") /\ Enter(c)
    /\ UNCHANGED <<sessionVars, requests>>

OnCard(c) ==
    /\ At(c, "card")
    /\ \/ Heard /\ FlightStep(c)
       \/ Fault /\ CommandFails(c)
    /\ IF flight'[c] = Landed THEN Answer(c) ELSE UNCHANGED request
    /\ UNCHANGED <<windowVars, sessionVars, requests>>

\* SessionController.create and destroy: a command that fails is answered 500.
Destroying(c) == LET s == request[c].sid IN
    /\ At(c, "destroy")
    /\ \/ /\ Heard /\ Destroy(s)
          /\ IF request[c].kind = "login" THEN Go(c, "create") /\ UNCHANGED ended
             ELSE Answer(c) /\ ended' = ended \union {s}
       \/ Fault /\ (Destroy(s) \/ UNCHANGED session) /\ Answer(c) /\ UNCHANGED ended
    /\ UNCHANGED <<windowVars, created, flightVars, requests>>

Creating(c) ==
    /\ At(c, "create")
    /\ Answer(c)
    /\ \/ /\ Heard /\ Create
          /\ ended' = IF request[c].session THEN ended \union {request[c].sid} ELSE ended
       \/ Fault /\ (Create \/ UNCHANGED <<session, created>>) /\ UNCHANGED ended
    /\ UNCHANGED <<windowVars, flightVars, requests>>

\* A pod dies with the request it serves.
Crash(c) ==
    /\ ~At(c, "idle") /\ Fault
    /\ Answer(c) /\ Abandon({c})
    /\ UNCHANGED <<windowVars, sessionVars, requests>>

\* The product changes, or the cache Redis runs out of memory.
Around ==
    /\ Changes \/ Evict
    /\ UNCHANGED <<windowVars, sessionVars, request, requests, faults>>

Tick ==
    /\ WindowTick /\ SessionTick /\ FlightTick
    /\ UNCHANGED <<request, requests, faults>>

RequestStep(c) == Touching(c) \/ Guarding(c) \/ OnCard(c) \/ Destroying(c) \/ Creating(c)

Next ==
    \/ Tick \/ Around
    \/ \E c \in Callers :
         \/ RequestStep(c) \/ Crash(c)
         \/ \E kind \in Traffic, sid \in Sids \union {None} : Arrive(c, kind, sid)

Spec == Init /\ [][Next]_vars

\* Node runs every callback and time passes; nothing is owed of arrivals,
\* faults, evictions or changes of the product.
FairSpec == Spec /\ WF_vars(Tick) /\ \A c \in Callers : WF_vars(RequestStep(c))

-----------------------------------------------------------------------------
\* Every request is answered, those too that poll for a loader that died with
\* the lock: in the end no request is under way.
RequestsEnd == <>[](\A c \in Callers : At(c, "idle"))

=============================================================================
