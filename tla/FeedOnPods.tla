----------------------------- MODULE FeedOnPods -----------------------------
(***************************************************************************)
(* The live feed on the pods of a rollout: clients connect to pods that    *)
(* are routed to, streams keep a closing pod open until they are cut and   *)
(* sockets until their peer answers, the WebSocket gateway stops when      *)
(* app.close() begins, and a client resumes on whatever pod it is sent to  *)
(* next.                                                                   *)
(***************************************************************************)
EXTENDS PodLifecycle, OrderFeed

CONSTANTS MaxFaults, MaxConnects  \* bounds: faults; connections made

\* One bus for each process.
ASSUME PlacesArePods == Places = Pods

ASSUME BoundsAssumption == MaxFaults \in Nat /\ MaxConnects \in Nat

VARIABLES
    followers,  \* the clients of this behaviour, streams or sockets: clients only
                \* read the bus and do not see each other
    faults, connects

vars == <<podVars, feedVars, followers, faults, connects>>

Up == {p \in Pods : stage[p] \in Serving \union {"closing"}}

TypeOK ==
    /\ PodTypeOK /\ FeedTypeOK
    /\ followers \in {Streams, Sockets}
    /\ faults \in 0 .. MaxFaults /\ connects \in 0 .. MaxConnects
    /\ \A p \in Pods \ Up : Here(p) = {} /\ UpdatesIn(p) = {}

Init ==
    /\ PodInit /\ FeedInit
    /\ faults = 0 /\ connects = 0
    /\ followers \in {Streams, Sockets}

Fault == faults < MaxFaults /\ faults' = faults + 1

SocketsOf(p) == Here(p) \intersect Sockets
StreamsOf(p) == Here(p) \intersect Streams

PastCut(p) == stage[p] = "closing" /\ since[p] >= Drain + CloseTimeout

\* What app.close() waits for: the closing handshake of every socket, and the
\* HTTP connections until closeAllConnections() cuts them, requests under way
\* included, whose handlers go on.
Open(p) ==
    \/ SocketsOf(p) # {} \/ StreamsOf(p) # {}
    \/ UpdatesIn(p) # {} /\ ~PastCut(p)

\* A timer of shutdown() that is due, or a close() that is done, does not wait
\* for the clock.
Due ==
    \E p \in Pods :
        \/ DrainDue(p)
        \/ CutDue(p) /\ StreamsOf(p) # {}
        \/ stage[p] = "closing" /\ ~Open(p)

Starts(p) ==
    /\ TakeLock(p) \/ Migrate(p) \/ Listen(p) \/ Probe(p)
    /\ UNCHANGED <<feedVars, followers, faults, connects>>

Stops(p) ==
    /\ Sigterm(p)
    /\ UNCHANGED <<feedVars, followers, faults, connects>>

Unroutes(p) == Unroute(p) /\ UNCHANGED <<feedVars, followers, faults, connects>>

\* app.close(): onModuleDestroy of the gateway, after which sockets get nothing
\* more, then io.close(), which sends every socket a close frame, and the server
\* waits for its connections.
Closes(p) ==
    /\ UNCHANGED <<followers, faults, connects>>
    /\ \/ BeginClose(p) /\ UNCHANGED feedVars
       \/ CutDue(p) /\ StreamsOf(p) # {} /\ Cut(StreamsOf(p)) /\ UNCHANGED podVars
       \/ EndClose(p) /\ ~Open(p) /\ PlaceEnds(p)

\* The peer of a socket answers the close frame, or ws gives up on it; neither
\* knows of the cut.
Answers(c) ==
    /\ c \in Sockets /\ client[c].pc # "off" /\ stage[client[c].place] = "closing"
    /\ Cut({c})
    /\ UNCHANGED <<podVars, followers, faults, connects>>

Kills(p) == Kill(p) /\ PlaceEnds(p) /\ UNCHANGED <<followers, faults, connects>>

Crashes(p) == CrashPod(p) /\ PlaceEnds(p) /\ Fault /\ UNCHANGED <<followers, connects>>

\* PATCH /orders/:id/status, which arrived at a pod that served; the handler goes
\* on while the pod closes.
Updating(u) ==
    /\ UNCHANGED <<podVars, followers, connects>>
    /\ \/ (\E p \in Up : Save(u, p)) /\ UNCHANGED faults
       \/ Up # {} /\ FailUpdate(u) /\ Fault
       \/ Publish(u, stage[update[u].place] \in Serving) /\ UNCHANGED faults

Connecting(c) ==
    /\ c \in followers
    /\ connects < MaxConnects /\ connects' = connects + 1
    /\ \E p \in routed : stage[p] \in Serving /\ Connect(c, p)
    /\ UNCHANGED <<podVars, followers, faults>>

Following(c) ==
    /\ Subscribe(c) \/ Receive(c)
    /\ UNCHANGED <<podVars, followers, faults, connects>>

Leaving(c) == Disconnect(c) /\ Fault /\ UNCHANGED <<podVars, followers, connects>>

Tick == ~Due /\ PodTick /\ UNCHANGED <<feedVars, followers, faults, connects>>

Next ==
    \/ \E p \in Pods : Starts(p) \/ Stops(p) \/ Unroutes(p) \/ Closes(p) \/ Kills(p) \/ Crashes(p)
    \/ \E u \in Updates : Updating(u)
    \/ \E c \in Clients : Connecting(c) \/ Following(c) \/ Answers(c) \/ Leaving(c)
    \/ Tick

Spec == Init /\ [][Next]_vars

\* Handlers run and written events arrive; nothing is owed of rollouts, timers,
\* updates, connecting clients or faults.
FairSpec == Spec /\ \A c \in Clients : WF_vars(Following(c))

-----------------------------------------------------------------------------
\* Past the cut only a socket whose peer has not answered holds a pod up: no
\* stream and no update under way does, and a pod without such a socket is done
\* and exits, so SIGKILL, which is later, ends no drain but a silent socket's.
HeldBySocketsOnly ==
    \A p \in Pods :
        since[p] > Drain + CloseTimeout /\ SocketsOf(p) = {} => stage[p] = "closing" /\ ~Open(p)

\* A rollout applies the migrations once, routes nobody to a closed socket, and
\* has no pod left past the cut but for a silent socket.
RolloutSafe == AppliedOnce /\ RoutedServes /\ HeldBySocketsOnly

=============================================================================
