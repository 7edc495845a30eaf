----------------------------- MODULE OrderFeed ------------------------------
(***************************************************************************)
(* The status of one order and its live feed: updateStatus() of            *)
(* src/src/orders/orders.service.ts, the event bus each process keeps for  *)
(* itself (order-events.service.ts), the SSE stream that resumes from      *)
(* Last-Event-ID (orders.controller.ts) and the WebSocket room             *)
(* (orders.gateway.ts).  Written events travel in order and are lost with  *)
(* their connection.                                                       *)
(***************************************************************************)
EXTENDS Naturals, Sequences, FiniteSets

CONSTANTS
    Places,       \* processes, each with a bus of its own
    MaxUpdates,   \* bound: calls of updateStatus, each for a status of its own,
                  \* numbered as they come to save()
    Streams,      \* SSE clients
    Sockets,      \* WebSocket clients
    BufferLimit,  \* BUFFER_LIMIT
    None

Updates == 1 .. MaxUpdates
Clients == Streams \union Sockets

ASSUME FeedAssumption ==
    /\ BufferLimit \in Nat \ {0} /\ MaxUpdates \in Nat
    /\ None \notin Places /\ None \notin Nat
    /\ Streams \intersect Sockets = {}

VARIABLES
    status,      \* committed status: the update that set it, or None
    update,      \* each call: where it is and in which process
    bus,         \* each process: how many events of the order it published
    client,      \* each client: its connection, what is written and not received
    last,        \* the last event it received, which is its Last-Event-ID
    announced,   \* history: the status of the last event any process published
    rivals       \* history: the updates that were between save and publish when
                 \* the status was saved

feedVars == <<status, update, bus, client, last, announced, rivals>>

Off == [pc |-> "off", place |-> None, chan |-> <<>>, first |-> TRUE]
Done == [pc |-> "done", place |-> None]
Untold == [pc |-> "lost", place |-> None]  \* saved, and never announced
Nothing == [place |-> None, id |-> 0]

FeedTypeOK ==
    /\ status \in Updates \union {None} /\ announced \in Updates \union {None}
    /\ update \in [Updates -> [pc : {"new", "saved", "lost", "done"}, place : Places \union {None}]]
    /\ bus \in [Places -> 0 .. MaxUpdates]
    /\ \A c \in Clients :
         /\ client[c].pc \in {"off", "checking", "on"}
         /\ (client[c].pc = "off") = (client[c] = Off)
         /\ client[c].chan \in Seq(1 .. MaxUpdates)
         /\ last[c] \in [place : Places \union {None}, id : 0 .. MaxUpdates]
    /\ rivals \subseteq Updates

FeedInit ==
    /\ status = None /\ announced = None /\ rivals = {}
    /\ update = [u \in Updates |-> [pc |-> "new", place |-> None]]
    /\ bus = [p \in Places |-> 0]
    /\ client = [c \in Clients |-> Off] /\ last = [c \in Clients |-> Nothing]

\* Faulty variant: the event the client names is sent again.
HistoryFrom(p, id) ==
    LET from == IF id + BufferLimit <= bus[p] THEN bus[p] - BufferLimit ELSE id - 1
    IN  [i \in 1 .. bus[p] - from |-> from + i]

\* What historyAfter finds in the buffer of the last BufferLimit events.
HistoryAfter(p, id) ==
    LET from == IF id + BufferLimit < bus[p] THEN bus[p] - BufferLimit ELSE id
    IN  [i \in 1 .. bus[p] - from |-> from + i]

-----------------------------------------------------------------------------
Fresh(u) == update[u].pc = "new" /\ \A v \in Updates : v < u => update[v].pc # "new"
InFlight == {u \in Updates : update[u].pc = "saved"}
Unheard == {u \in Updates : update[u].pc = "lost"}

\* The UPDATE is committed: of the row findEntity() read only user_id is used,
\* which never changes, and the last save wins.
Commit(u, then) ==
    /\ status' = u
    /\ rivals' = InFlight
    /\ update' = [update EXCEPT ![u] = then]

Save(u, p) ==
    /\ Fresh(u) /\ Commit(u, [pc |-> "saved", place |-> p])
    /\ UNCHANGED <<bus, client, last, announced>>

\* Faulty variant: a save that threw is announced all the same.
FailUpdateAnnounced(u) ==
    /\ Fresh(u)
    /\ \/ Commit(u, Untold)
       \/ update' = [update EXCEPT ![u] = Done] /\ UNCHANGED <<status, rivals>>
    /\ announced' = u
    /\ UNCHANGED <<bus, client, last>>

\* The checks refuse, or save() throws, be it that its COMMIT was applied and only
\* the answer was lost: nothing is published.
FailUpdate(u) ==
    /\ Fresh(u)
    /\ \/ Commit(u, Untold)
       \/ update' = [update EXCEPT ![u] = Done] /\ UNCHANGED <<status, rivals>>
    /\ UNCHANGED <<bus, client, last, announced>>

\* publish(): the id, the buffer and every subscriber in one block.
PublishAgain(u, socketsToo) ==
    LET p == update[u].place  id == bus[p] + 1 IN
    /\ update[u].pc = "saved"
    /\ bus' = [bus EXCEPT ![p] = id]
    /\ announced' = u
    /\ client' = [c \in Clients |->
         IF client[c].pc = "on" /\ client[c].place = p /\ (c \in Streams \/ socketsToo)
         THEN [client[c] EXCEPT !.chan = Append(@, id)] ELSE client[c]]
    /\ UNCHANGED <<status, update, last, rivals>>

Publish(u, socketsToo) ==
    LET p == update[u].place  id == bus[p] + 1 IN
    /\ update[u].pc = "saved"
    /\ update' = [update EXCEPT ![u] = Done]
    /\ bus' = [bus EXCEPT ![p] = id]
    /\ announced' = u
    /\ client' = [c \in Clients |->
         IF client[c].pc = "on" /\ client[c].place = p /\ (c \in Streams \/ socketsToo)
         THEN [client[c] EXCEPT !.chan = Append(@, id)] ELSE client[c]]
    /\ UNCHANGED <<status, last, rivals>>

-----------------------------------------------------------------------------
\* A request for the stream, or a join: authenticate and requireOwner are awaited.
Connect(c, p) ==
    /\ client[c].pc = "off"
    /\ client' = [client EXCEPT ![c] = [Off EXCEPT !.pc = "checking", !.place = p]]
    /\ UNCHANGED <<status, update, bus, last, announced, rivals>>

\* Replay of the history and subscription, with no await between them.
Replay(c) ==
    IF c \in Streams /\ last[c] # Nothing
    THEN HistoryAfter(client[c].place, last[c].id) ELSE <<>>

SubscribeOnly(c) ==
    /\ client[c].pc = "checking"
    /\ client' = [client EXCEPT ![c].pc = "on"]
    /\ UNCHANGED <<status, update, bus, last, announced, rivals>>

Subscribe(c) ==
    /\ client[c].pc = "checking"
    /\ client' = [client EXCEPT ![c].pc = "on", ![c].chan = Replay(c)]
    /\ UNCHANGED <<status, update, bus, last, announced, rivals>>

Receive(c) ==
    /\ client[c].chan # <<>>
    /\ last' = [last EXCEPT ![c] = [place |-> client[c].place, id |-> Head(client[c].chan)]]
    /\ client' = [client EXCEPT ![c].chan = Tail(@), ![c].first = FALSE]
    /\ UNCHANGED <<status, update, bus, announced, rivals>>

\* The client goes or the network does.
Disconnect(c) ==
    /\ client[c].pc # "off"
    /\ client' = [client EXCEPT ![c] = Off]
    /\ UNCHANGED <<status, update, bus, last, announced, rivals>>

Here(p) == {c \in Clients : client[c].place = p}
UpdatesIn(p) == {u \in InFlight : update[u].place = p}

\* The process closes connections.
Cut(cs) ==
    /\ client' = [c \in Clients |-> IF c \in cs THEN Off ELSE client[c]]
    /\ UNCHANGED <<status, update, bus, last, announced, rivals>>

\* The process ends with all it was doing.
PlaceEnds(p) ==
    /\ client' = [c \in Clients |-> IF c \in Here(p) THEN Off ELSE client[c]]
    /\ update' = [u \in Updates |-> IF u \in UpdatesIn(p) THEN Untold ELSE update[u]]
    /\ UNCHANGED <<status, bus, last, announced, rivals>>

-----------------------------------------------------------------------------
\* What a client receives from one process is that process's events in order,
\* none twice, and none left out: save what it missed before a first event of a
\* socket, or what the buffer no longer held.
EventsInSequence ==
    [][\A c \in Clients :
         LET p == last[c].place  id == Head(client[c].chan) IN
         /\ client[c].pc = "on" /\ client'[c].pc = "on"
         /\ Len(client'[c].chan) < Len(client[c].chan)
         /\ client[c].place = p
         => /\ id > last[c].id
            /\ \A i \in last[c].id + 1 .. id - 1 :
                 i + BufferLimit <= bus[p] \/ (c \in Sockets /\ client[c].first)]_feedVars

\* The last event published tells the order's status, however updates interleave,
\* fail and die between save and publish, with two exceptions that end with the
\* next update that runs alone: the status is of an update whose own event is
\* owed or lost, or the event is of an update that was already under way when
\* the status was saved and that was announced after it.
LastEventIsStatus ==
    announced = status \/ status \in InFlight \union Unheard \/ announced \in rivals

\* A stream that has had an event of the process it is connected to ends up
\* with the newest, however often it was cut and resumed.
StreamsCatchUp ==
    <>[](\A c \in Streams :
           client[c].pc = "on" /\ last[c].place = client[c].place =>
             last[c].id = bus[client[c].place])

=============================================================================
