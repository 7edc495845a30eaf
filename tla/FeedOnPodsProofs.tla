-------------------------- MODULE FeedOnPodsProofs --------------------------
(***************************************************************************)
(* Of a rollout with any number of pods, clients and updates, any timers   *)
(* that infra/index.ts accepts and any history: the migrations are applied *)
(* once, nobody is routed to a closed socket, past the cut only a silent   *)
(* socket holds a pod up, and the last event published is the order's      *)
(* status as far as updates that overlap or are lost allow.                *)
(***************************************************************************)
EXTENDS FeedOnPods, TLAPS, FiniteSetTheorems, SequenceTheorems

\* The advisory lock: one migrator at a time, and only it has a list of what is
\* pending, which was empty had the migrations been applied.
LockHolds ==
    /\ \A p, q \in Pods : stage[p] = "migrating" /\ stage[q] = "migrating" => p = q
    /\ \A p \in pending : stage[p] = "migrating"
    /\ pending # {} => applied = 0

\* The time since SIGTERM stays within the timers of shutdown(), and a pod whose
\* drain is due is out of the endpoints.
TimersHold ==
    \A p \in Pods :
        /\ stage[p] = "draining" => since[p] <= Drain
        /\ stage[p] = "draining" /\ p \in routed => since[p] <= Propagation
        /\ stage[p] = "closing" => since[p] <= Grace
        /\ stage[p] \notin {"draining", "closing"} => since[p] = 0

PodInv == PodTypeOK /\ LockHolds /\ AppliedOnce /\ RoutedServes /\ TimersHold

UpdatesTyped ==
    /\ update \in [Updates -> [pc : {"new", "saved", "lost", "done"}, place : Places \union {None}]]
    /\ rivals \subseteq Updates

\* An update that is under way set the status or was under way when it was set.
RivalsKnown == \A u \in InFlight : u = status \/ u \in rivals

FeedInv == UpdatesTyped /\ RivalsKnown /\ LastEventIsStatus

-----------------------------------------------------------------------------
LEMMA PodInvInit == Init => PodInv
  BY LifecycleAssumption
  DEF Init, PodInit, PodInv, PodTypeOK, LockHolds, AppliedOnce, RoutedServes, TimersHold,
      Starting, Serving, Ended

\* What main() does.
LEMMA StartsKeep ==
    ASSUME PodInv, NEW p \in Pods, TakeLock(p) \/ Migrate(p) \/ Listen(p) \/ Probe(p)
    PROVE  PodInv'
  <1> USE DEF PodInv, PodTypeOK, LockHolds, AppliedOnce, RoutedServes, TimersHold,
              Starting, Serving, Ended, Enters
  <1>1. CASE TakeLock(p)
    BY <1>1 DEF TakeLock
  <1>2. CASE Migrate(p)
    BY <1>2 DEF Migrate
  <1>3. CASE Listen(p)
    BY <1>3 DEF Listen
  <1>4. CASE Probe(p)
    BY <1>4 DEF Probe
  <1> QED
    BY <1>1, <1>2, <1>3, <1>4

\* SIGTERM, the two ends of shutdown(), and a death.
LEMMA StopsKeep ==
    ASSUME PodInv, NEW p \in Pods,
           Sigterm(p) \/ BeginClose(p) \/ EndClose(p) \/ Kill(p) \/ CrashPod(p)
    PROVE  PodInv'
  <1> USE LifecycleAssumption
      DEF PodInv, PodTypeOK, LockHolds, AppliedOnce, RoutedServes, TimersHold,
          Starting, Serving, Ended, Enters
  <1>1. CASE Sigterm(p)
    BY <1>1 DEF Sigterm
  <1>2. CASE BeginClose(p)
    BY <1>2 DEF BeginClose, DrainDue
  <1>3. CASE EndClose(p)
    BY <1>3 DEF EndClose
  <1>4. CASE CrashPod(p)
    BY <1>4 DEF CrashPod
  <1>5. CASE Kill(p)
    BY <1>5 DEF Kill
  <1> QED
    BY <1>1, <1>2, <1>3, <1>4, <1>5

LEMMA UnrouteKeeps ==
    ASSUME PodInv, NEW p \in Pods, Unroute(p)
    PROVE  PodInv'
  BY DEF Unroute, PodInv, PodTypeOK, LockHolds, AppliedOnce, RoutedServes, TimersHold

\* Time stands while a timer is due or an endpoint is late, so neither is passed.
LEMMA TickKeeps ==
    ASSUME PodInv, ~Due, PodTick
    PROVE  PodInv'
  <1> USE LifecycleAssumption DEF PodTick
  <1>1. \A p \in Pods : stage[p] = "draining" => since[p] # Drain
    BY DEF Due, DrainDue
  <1>2. PodTypeOK'
    BY DEF PodInv, PodTypeOK
  <1>3. TimersHold'
    BY <1>1 DEF PodInv, PodTypeOK, TimersHold
  <1>4. LockHolds' /\ AppliedOnce' /\ RoutedServes'
    BY DEF PodInv, LockHolds, AppliedOnce, RoutedServes
  <1> QED
    BY <1>2, <1>3, <1>4 DEF PodInv

LEMMA PodInvNext == PodInv /\ [Next]_vars => PodInv'
  <1> SUFFICES ASSUME PodInv, [Next]_vars PROVE PodInv'
    OBVIOUS
  <1>1. ASSUME UNCHANGED podVars PROVE PodInv'
    BY <1>1 DEF podVars, PodInv, PodTypeOK, LockHolds, AppliedOnce, RoutedServes, TimersHold
  <1>2. ASSUME NEW p \in Pods, Starts(p) PROVE PodInv'
    BY <1>2, StartsKeep DEF Starts
  <1>3. ASSUME NEW p \in Pods, Stops(p) PROVE PodInv'
    BY <1>3, StopsKeep DEF Stops
  <1>4. ASSUME NEW p \in Pods, Unroutes(p) PROVE PodInv'
    BY <1>4, UnrouteKeeps DEF Unroutes
  <1>5. ASSUME NEW p \in Pods, Closes(p) PROVE PodInv'
    BY <1>1, <1>5, StopsKeep DEF Closes
  <1>6. ASSUME NEW p \in Pods, Kills(p) \/ Crashes(p) PROVE PodInv'
    BY <1>6, StopsKeep DEF Kills, Crashes
  <1>7. ASSUME NEW u \in Updates, Updating(u) PROVE PodInv'
    BY <1>1, <1>7 DEF Updating
  <1>8. ASSUME NEW c \in Clients, Connecting(c) \/ Following(c) \/ Answers(c) \/ Leaving(c)
        PROVE  PodInv'
    BY <1>1, <1>8 DEF Connecting, Following, Answers, Leaving
  <1>9. CASE Tick
    BY <1>9, TickKeeps DEF Tick
  <1>10. CASE UNCHANGED vars
    BY <1>1, <1>10 DEF vars
  <1> QED
    BY <1>2, <1>3, <1>4, <1>5, <1>6, <1>7, <1>8, <1>9, <1>10 DEF Next

-----------------------------------------------------------------------------
LEMMA FeedInvInit == Init => FeedInv
  <1> SUFFICES ASSUME Init PROVE FeedInv
    OBVIOUS
  <1> USE DEF Init, FeedInit
  <1>1. UpdatesTyped
    BY DEF UpdatesTyped
  <1>2. InFlight = {}
    BY DEF InFlight
  <1> QED
    BY <1>1, <1>2 DEF FeedInv, RivalsKnown, LastEventIsStatus

\* save(), which may apply its COMMIT and throw.
LEMMA SaveKeeps ==
    ASSUME FeedInv, NEW u \in Updates,
           (\E p \in Places : Save(u, p)) \/ FailUpdate(u)
    PROVE  FeedInv'
  <1> USE DEF FeedInv, UpdatesTyped, RivalsKnown, LastEventIsStatus, InFlight, Unheard, Fresh
  <1>1. ASSUME NEW p \in Places, Save(u, p) PROVE FeedInv'
    BY <1>1 DEF Save, Commit
  <1>2. ASSUME Fresh(u), Commit(u, Untold), UNCHANGED announced PROVE FeedInv'
    BY <1>2 DEF Commit, Untold
  <1>3. ASSUME Fresh(u), update' = [update EXCEPT ![u] = Done],
               UNCHANGED <<status, rivals, announced>>
        PROVE  FeedInv'
    BY <1>3 DEF Done
  <1> QED
    BY <1>1, <1>2, <1>3 DEF FailUpdate

\* publish(), whoever is subscribed.
LEMMA PublishKeeps ==
    ASSUME FeedInv, NEW u \in Updates, update[u].pc = "saved",
           update' = [update EXCEPT ![u] = Done], announced' = u,
           UNCHANGED <<status, rivals>>
    PROVE  FeedInv'
  BY DEF FeedInv, UpdatesTyped, RivalsKnown, LastEventIsStatus, InFlight, Unheard, Done

\* A process ends with the updates it had not announced.
LEMMA PlaceEndsKeeps ==
    ASSUME FeedInv, NEW p \in Places, PlaceEnds(p)
    PROVE  FeedInv'
  BY DEF PlaceEnds, FeedInv, UpdatesTyped, RivalsKnown, LastEventIsStatus, InFlight, Unheard,
         UpdatesIn, Untold

LEMMA FeedInvNext == FeedInv /\ [Next]_vars => FeedInv'
  <1> SUFFICES ASSUME FeedInv, [Next]_vars PROVE FeedInv'
    OBVIOUS
  <1>1. ASSUME UNCHANGED <<status, update, announced, rivals>> PROVE FeedInv'
    BY <1>1 DEF FeedInv, UpdatesTyped, RivalsKnown, LastEventIsStatus, InFlight, Unheard
  <1>2. ASSUME NEW p \in Pods, Starts(p) \/ Stops(p) \/ Unroutes(p) PROVE FeedInv'
    BY <1>1, <1>2 DEF Starts, Stops, Unroutes, feedVars
  <1>3. ASSUME NEW p \in Pods, Closes(p) PROVE FeedInv'
    BY <1>1, <1>3, PlaceEndsKeeps, PlacesArePods DEF Closes, Cut, feedVars
  <1>4. ASSUME NEW p \in Pods, Kills(p) \/ Crashes(p) PROVE FeedInv'
    BY <1>4, PlaceEndsKeeps, PlacesArePods DEF Kills, Crashes
  <1>5. ASSUME NEW u \in Updates, Updating(u) PROVE FeedInv'
    <2>1. ASSUME NEW p \in Pods, Save(u, p) PROVE FeedInv'
      BY <2>1, SaveKeeps, PlacesArePods
    <2>2. ASSUME FailUpdate(u) PROVE FeedInv'
      BY <2>2, SaveKeeps
    <2>3. ASSUME Publish(u, stage[update[u].place] \in Serving) PROVE FeedInv'
      BY <2>3, PublishKeeps DEF Publish
    <2> QED
      BY <1>5, <2>1, <2>2, <2>3 DEF Updating, Up
  <1>6. ASSUME NEW c \in Clients, Connecting(c) \/ Following(c) \/ Answers(c) \/ Leaving(c)
        PROVE  FeedInv'
    BY <1>1, <1>6
    DEF Connecting, Connect, Following, Subscribe, Receive, Answers, Cut, Leaving, Disconnect
  <1>7. CASE Tick
    BY <1>1, <1>7 DEF Tick, feedVars
  <1>8. CASE UNCHANGED vars
    BY <1>1, <1>8 DEF vars, feedVars
  <1> QED
    BY <1>2, <1>3, <1>4, <1>5, <1>6, <1>7, <1>8 DEF Next

\* The last event published tells the order's status, except for an update that
\* is not announced yet or never will be, and for one that was under way when the
\* status was saved.
THEOREM LastEventTells == Spec => []LastEventIsStatus
  <1>1. FeedInv => LastEventIsStatus
    BY DEF FeedInv
  <1> QED
    BY <1>1, FeedInvInit, FeedInvNext, PTL DEF Spec

-----------------------------------------------------------------------------
\* What is written to a connection and not received: events of a bus that has
\* published b of them, one after the other.
Run(q, b) == \A i \in 1 .. Len(q) : q[i] \in 1 .. b /\ q[i] = q[1] + i - 1

\* The event the connection delivers next.
NextOf(q, b) == IF q = <<>> THEN b + 1 ELSE q[1]

UpToDate(q, b) == q # <<>> => q[Len(q)] = b

\* The buffer no longer held what is missing between id and n.
Lost(id, n, b) == \A i \in id + 1 .. n - 1 : i + BufferLimit <= b

LEMMA RunGrows ==
    ASSUME NEW b \in Nat, NEW q \in Seq(Nat), Run(q, b), UpToDate(q, b)
    PROVE  /\ Run(Append(q, b + 1), b + 1)
           /\ UpToDate(Append(q, b + 1), b + 1)
           /\ NextOf(Append(q, b + 1), b + 1) = NextOf(q, b)
  <1> DEFINE r == Append(q, b + 1)
  <1>1. /\ r \in Seq(Nat) /\ Len(r) = Len(q) + 1 /\ r[Len(q) + 1] = b + 1 /\ r # <<>>
        /\ \A i \in 1 .. Len(q) : r[i] = q[i]
    BY AppendProperties
  <1>2. CASE q = <<>>
    BY <1>1, <1>2 DEF Run, UpToDate, NextOf
  <1>3. CASE q # <<>>
    <2>1. Len(q) \in Nat /\ Len(q) >= 1
      BY <1>3, EmptySeq, LenProperties
    <2>2. r[1] = q[1] /\ q[1] \in Nat /\ q[Len(q)] = b /\ b = q[1] + Len(q) - 1
      <3>1. 1 \in 1 .. Len(q) /\ Len(q) \in 1 .. Len(q)
        BY <2>1
      <3>2. q[1] \in 1 .. b /\ q[Len(q)] = q[1] + Len(q) - 1
        BY <3>1 DEF Run
      <3>3. r[1] = q[1]
        BY <1>1, <3>1
      <3> QED
        BY <1>3, <3>2, <3>3 DEF UpToDate
    <2>3. Run(r, b + 1)
      <3> SUFFICES ASSUME NEW i \in 1 .. Len(q) + 1
                   PROVE  r[i] \in 1 .. b + 1 /\ r[i] = r[1] + i - 1
        BY <1>1 DEF Run
      <3>1. CASE i = Len(q) + 1
        BY <1>1, <2>1, <2>2, <3>1
      <3>2. CASE i \in 1 .. Len(q)
        <4>1. r[i] = q[i] /\ q[i] \in 1 .. b /\ q[i] = q[1] + i - 1
          BY <1>1, <3>2 DEF Run
        <4> HIDE DEF r
        <4> QED
          BY <2>2, <4>1
      <3> QED
        BY <2>1, <3>1, <3>2
    <2> HIDE DEF r
    <2> QED
      BY <1>1, <1>3, <2>1, <2>2, <2>3 DEF UpToDate, NextOf, r
  <1> QED
    BY <1>2, <1>3

LEMMA RunShrinks ==
    ASSUME NEW b \in Nat, NEW q \in Seq(Nat), Run(q, b), q # <<>>
    PROVE  /\ Run(Tail(q), b)
           /\ UpToDate(q, b) => UpToDate(Tail(q), b)
           /\ Head(q) = q[1] /\ q[1] \in 1 .. b
           /\ Tail(q) # <<>> => NextOf(Tail(q), b) = q[1] + 1
           /\ UpToDate(q, b) => NextOf(Tail(q), b) = q[1] + 1
  <1> DEFINE r == Tail(q)
  <1>1. Len(q) \in Nat /\ Len(q) >= 1
    BY EmptySeq, LenProperties
  <1>2. /\ r \in Seq(Nat) /\ Len(r) = Len(q) - 1 /\ Head(q) = q[1]
        /\ \A i \in 1 .. Len(r) : r[i] = q[i + 1]
    BY HeadTailProperties
  <1>3. q[1] \in 1 .. b
    BY <1>1 DEF Run
  <1>4. ASSUME NEW i \in 1 .. Len(r)
        PROVE  r[i] \in 1 .. b /\ r[i] = q[1] + i
    <2>1. i + 1 \in 1 .. Len(q) /\ i \in Nat
      BY <1>1, <1>2
    <2>2. q[i + 1] \in 1 .. b /\ q[i + 1] = q[1] + (i + 1) - 1
      BY <2>1 DEF Run
    <2>3. r[i] = q[i + 1]
      BY <1>2
    <2> HIDE DEF r
    <2> QED
      BY <1>3, <2>1, <2>2, <2>3
  <1> HIDE DEF r
  <1>5. r # <<>> => Len(r) \in Nat /\ Len(r) >= 1
    BY <1>1, <1>2, EmptySeq, LenProperties
  <1>6. r # <<>> => r[1] = q[1] + 1
    BY <1>3, <1>4, <1>5
  <1>7. r = <<>> => Len(q) = 1
    BY <1>1, <1>2
  <1>8. Run(r, b)
    <2> SUFFICES ASSUME NEW i \in 1 .. Len(r) PROVE r[i] \in 1 .. b /\ r[i] = r[1] + i - 1
      BY DEF Run
    <2>1. r # <<>> /\ i \in Nat
      BY <1>1, <1>2
    <2> QED
      BY <1>3, <1>4, <1>6, <2>1
  <1>9. UpToDate(q, b) => UpToDate(r, b)
    <2> SUFFICES ASSUME UpToDate(q, b), r # <<>> PROVE r[Len(r)] = b
      BY DEF UpToDate
    <2>1. Len(r) \in 1 .. Len(r) /\ Len(q) \in 1 .. Len(q)
      BY <1>1, <1>5
    <2>2. q[Len(q)] = q[1] + Len(q) - 1 /\ r[Len(r)] = q[1] + Len(r)
      BY <1>4, <2>1 DEF Run
    <2> QED
      BY <1>1, <1>2, <1>3, <2>2 DEF UpToDate
  <1>10. r # <<>> => NextOf(r, b) = q[1] + 1
    BY <1>6 DEF NextOf
  <1>11. UpToDate(q, b) => NextOf(r, b) = q[1] + 1
    BY <1>7, <1>10 DEF NextOf, UpToDate
  <1> QED
    BY <1>2, <1>3, <1>8, <1>9, <1>10, <1>11 DEF r

\* historyAfter(): what the buffer holds after the event the client names.
LEMMA HistoryIs ==
    ASSUME NEW p \in Places, bus[p] \in Nat, NEW id \in Nat
    PROVE  LET q == HistoryAfter(p, id) IN
           /\ q \in Seq(1 .. bus[p]) /\ Run(q, bus[p]) /\ UpToDate(q, bus[p])
           /\ id <= bus[p] => NextOf(q, bus[p]) > id
           /\ Lost(id, NextOf(q, bus[p]), bus[p])
  <1> DEFINE b == bus[p]
             from == IF id + BufferLimit < b THEN b - BufferLimit ELSE id
             q == HistoryAfter(p, id)
  <1> USE FeedAssumption
  <1>1. q = [i \in 1 .. b - from |-> from + i]
    BY DEF HistoryAfter
  <1>2. from \in Nat /\ b \in Nat /\ from >= id
    OBVIOUS
  <1>3. CASE from >= b
    <2>1. 1 .. b - from = 1 .. 0
      BY <1>2, <1>3
    <2>2. q = <<>>
      <3>1. DOMAIN q = 1 .. 0 /\ q = [i \in 1 .. 0 |-> q[i]]
        BY <1>1, <2>1
      <3> HIDE DEF q
      <3>2. q \in Seq(Nat) /\ Len(q) = 0
        BY <3>1
      <3> QED
        BY <3>2, EmptySeq
    <2>3. from = id
      BY <1>2, <1>3
    <2>4. Len(q) = 0
      BY <2>2
    <2> HIDE DEF q
    <2> QED
      BY <1>2, <1>3, <2>2, <2>3, <2>4 DEF Run, UpToDate, NextOf, Lost, q
  <1>4. CASE from < b
    <2>1. b - from \in Nat /\ b - from >= 1
      BY <1>2, <1>4
    <2>2. \A i \in 1 .. b - from : from + i \in 1 .. b
      BY <1>2, <1>4
    <2> HIDE DEF from, q, b
    <2>3. q \in Seq(1 .. b) /\ Len(q) = b - from
      <3> DEFINE n == b - from
      <3>1. q \in [1 .. n -> 1 .. b] /\ n \in Nat
        BY <1>1, <2>1, <2>2
      <3> HIDE DEF n
      <3>2. q \in Seq(1 .. b)
        BY <3>1, SeqDef
      <3>3. DOMAIN q = 1 .. n /\ Len(q) \in Nat /\ DOMAIN q = 1 .. Len(q)
        BY <3>1, <3>2, LenProperties
      <3>4. Len(q) = n
        BY <3>1, <3>3
      <3> QED
        BY <3>2, <3>4 DEF n
    <2>4. \A i \in 1 .. b - from : q[i] = from + i
      BY <1>1
    <2>5. q # <<>> /\ q[1] = from + 1 /\ q[Len(q)] = b
      BY <1>2, <2>1, <2>3, <2>4
    <2>6. Run(q, b)
      BY <1>2, <2>1, <2>2, <2>3, <2>4, <2>5 DEF Run
    <2>7. NextOf(q, b) = from + 1
      BY <2>5 DEF NextOf
    <2>8. Lost(id, from + 1, b)
      <3> SUFFICES ASSUME NEW i \in id + 1 .. from PROVE i + BufferLimit <= b
        BY <1>2 DEF Lost
      <3> QED
        BY <1>2 DEF from
    <2> QED
      BY <1>2, <2>3, <2>5, <2>6, <2>7, <2>8 DEF UpToDate, b, q
  <1> QED
    BY <1>2, <1>3, <1>4

-----------------------------------------------------------------------------
\* A pod that still has connections.
Running == Serving \union {"closing"}

Waiting == {u \in Updates : update[u].pc \in {"new", "saved"}}

\* There are never more events than calls of updateStatus to publish them.
Counted ==
    /\ bus \in [Places -> Nat]
    /\ \A p \in Places : bus[p] + Cardinality(Waiting) <= MaxUpdates

SavedWhereRunning ==
    \A u \in InFlight : update[u].place \in Places /\ stage[update[u].place] \in Running

ClientsTyped ==
    /\ client \in [Clients -> [pc : {"off", "checking", "on"}, place : Places \union {None},
                               chan : Seq(Nat), first : BOOLEAN]]
    /\ last \in [Clients -> [place : Places \union {None}, id : Nat]]

Linked(c) ==
    /\ client[c].pc = "off" => client[c] = Off
    /\ client[c].pc # "off" => client[c].place \in Places /\ stage[client[c].place] \in Running
    /\ client[c].pc = "checking" => client[c].chan = <<>> /\ client[c].first

\* The client has only heard of what the bus it names has published.
Heard(c) ==
    /\ last[c].place = None => last[c].id = 0
    /\ last[c].place \in Places => last[c].id \in 1 .. bus[last[c].place]

\* The next event of a connection is later than what the client has, and what
\* lies between was dropped by the buffer, or by a socket that has had nothing
\* yet or whose gateway has stopped.
Flows(c) ==
    LET p == client[c].place  q == client[c].chan  id == last[c].id IN
    client[c].pc = "on" =>
        /\ Run(q, bus[p])
        /\ c \in Streams \/ stage[p] \in Serving => UpToDate(q, bus[p])
        /\ ~client[c].first => last[c].place = p
        /\ last[c].place = p =>
             /\ id < NextOf(q, bus[p])
             /\ \/ Lost(id, NextOf(q, bus[p]), bus[p])
                \/ c \in Sockets /\ client[c].first
                \/ c \in Sockets /\ q = <<>> /\ stage[p] \notin Serving

ClientsFollow == \A c \in Clients : Linked(c) /\ Heard(c) /\ Flows(c)

ClientInv == ClientsTyped /\ ClientsFollow

\* Connections close and pods move on: nothing else that was written changes.
LEMMA ClientsLeft ==
    ASSUME ClientInv, Counted, UNCHANGED <<bus, last>>,
           client' \in [Clients -> [pc : {"off", "checking", "on"}, place : Places \union {None},
                                    chan : Seq(Nat), first : BOOLEAN]],
           \A c \in Clients :
             \/ client'[c] = Off
             \/ /\ client'[c] = client[c]
                /\ client[c].pc # "off" =>
                     /\ stage'[client[c].place] \in Running
                     /\ stage'[client[c].place] \in Serving => stage[client[c].place] \in Serving
    PROVE  ClientInv'
  <1>1. ClientsTyped'
    BY DEF ClientInv, ClientsTyped
  <1>2. ASSUME NEW c \in Clients, client'[c] = Off
        PROVE  Linked(c)' /\ Flows(c)'
    BY <1>2 DEF Off, Linked, Flows
  <1>3. ASSUME NEW c \in Clients, client'[c] = client[c],
               client[c].pc # "off" =>
                 /\ stage'[client[c].place] \in Running
                 /\ stage'[client[c].place] \in Serving => stage[client[c].place] \in Serving
        PROVE  Linked(c)' /\ Flows(c)'
    <2>1. Linked(c) /\ Flows(c)
      BY DEF ClientInv, ClientsFollow
    <2>2. Linked(c)'
      BY <1>3, <2>1 DEF Linked
    <2>3. Flows(c)'
      BY <1>3, <2>1 DEF Flows
    <2> QED
      BY <2>2, <2>3
  <1>4. \A c \in Clients : Heard(c)'
    BY DEF ClientInv, ClientsFollow, Heard
  <1>5. \A c \in Clients : Linked(c)' /\ Flows(c)'
    BY <1>2, <1>3
  <1> QED
    BY <1>1, <1>4, <1>5 DEF ClientInv, ClientsFollow

\* A request for the stream, or a join.
LEMMA ConnectKeeps ==
    ASSUME ClientInv, NEW c \in Clients, NEW p \in Places, stage[p] \in Running,
           Connect(c, p), UNCHANGED stage
    PROVE  ClientInv'
  <1> DEFINE k == [Off EXCEPT !.pc = "checking", !.place = p]
  <1>1. /\ k \in [pc : {"off", "checking", "on"}, place : Places \union {None},
                  chan : Seq(Nat), first : BOOLEAN]
        /\ k.pc = "checking" /\ k.place = p /\ k.chan = <<>> /\ k.first
    BY EmptySeq DEF Off
  <1> HIDE DEF k
  <1>2. /\ client' = [client EXCEPT ![c] = k] /\ client'[c] = k
        /\ \A d \in Clients \ {c} : client'[d] = client[d]
        /\ UNCHANGED <<bus, last>>
    BY DEF Connect, ClientInv, ClientsTyped, k
  <1>3. ClientsTyped'
    BY <1>1, <1>2 DEF ClientInv, ClientsTyped
  <1>4. Linked(c)' /\ Flows(c)' /\ Heard(c)'
    BY <1>1, <1>2 DEF Linked, Flows, Heard, ClientInv, ClientsFollow
  <1>5. ASSUME NEW d \in Clients \ {c} PROVE Linked(d)' /\ Flows(d)' /\ Heard(d)'
    BY <1>2 DEF Linked, Flows, Heard, ClientInv, ClientsFollow
  <1> QED
    BY <1>3, <1>4, <1>5 DEF ClientInv, ClientsFollow

\* The replay and the subscription are one step, so nothing is missed between.
LEMMA SubscribeKeeps ==
    ASSUME ClientInv, Counted, NEW c \in Clients, Subscribe(c), UNCHANGED stage
    PROVE  ClientInv'
  <1> DEFINE p == client[c].place  id == last[c].id  q == Replay(c)
  <1>1. /\ Linked(c) /\ Heard(c) /\ client[c].pc = "checking"
        /\ p \in Places /\ bus[p] \in Nat /\ id \in Nat
        /\ client[c].first /\ stage[p] \in Running
    BY DEF ClientInv, ClientsFollow, ClientsTyped, Linked, Subscribe, Counted
  <1>2. /\ q \in Seq(Nat) /\ Run(q, bus[p]) /\ UpToDate(q, bus[p])
        /\ id <= bus[p] => id < NextOf(q, bus[p])
        /\ last[c].place = p => Lost(id, NextOf(q, bus[p]), bus[p]) \/ c \in Sockets
    <2>1. CASE c \in Streams /\ last[c] # Nothing
      <3>1. q = HistoryAfter(p, id)
        BY <2>1 DEF Replay
      <3>2. 1 .. bus[p] \subseteq Nat
        OBVIOUS
      <3> HIDE DEF q, p, id
      <3>3. /\ q \in Seq(1 .. bus[p]) /\ Run(q, bus[p]) /\ UpToDate(q, bus[p])
            /\ id <= bus[p] => NextOf(q, bus[p]) > id
            /\ Lost(id, NextOf(q, bus[p]), bus[p])
        BY <1>1, <3>1, HistoryIs
      <3>4. q \in Seq(Nat)
        BY <3>2, <3>3, SeqMonotonic
      <3>5. id <= bus[p] => id < NextOf(q, bus[p])
        <4>1. CASE q = <<>>
          BY <1>1, <4>1 DEF NextOf
        <4>2. CASE q # <<>>
          <5>1. q[1] \in Nat
            BY <3>4, <4>2, EmptySeq, ElementOfSeq
          <5> QED
            BY <1>1, <3>3, <4>2, <5>1 DEF NextOf
        <4> QED
          BY <4>1, <4>2
      <3> QED
        BY <3>3, <3>4, <3>5
    <2>2. CASE ~(c \in Streams /\ last[c] # Nothing)
      <3>1. q = <<>> /\ Len(<<>>) = 0 /\ q \in Seq(Nat)
        BY <2>2, EmptySeq DEF Replay
      <3>2. last[c].place = p => c \in Sockets
        BY <1>1, <2>2, FeedAssumption DEF Nothing, Clients
      <3> HIDE DEF q, p, id
      <3> QED
        BY <1>1, <3>1, <3>2 DEF Run, UpToDate, NextOf
    <2> QED
      BY <2>1, <2>2
  <1> DEFINE k == [client[c] EXCEPT !.pc = "on", !.chan = q]
  <1> HIDE DEF q
  <1>3. /\ k \in [pc : {"off", "checking", "on"}, place : Places \union {None},
                  chan : Seq(Nat), first : BOOLEAN]
        /\ k.pc = "on" /\ k.place = p /\ k.chan = q /\ k.first
    BY <1>1, <1>2 DEF ClientInv, ClientsTyped
  <1> HIDE DEF k
  <1>4. /\ client' = [client EXCEPT ![c] = k] /\ client'[c] = k
        /\ \A d \in Clients \ {c} : client'[d] = client[d]
        /\ UNCHANGED <<bus, last>>
    <2>1. client' = [client EXCEPT ![c] = k]
      BY DEF Subscribe, ClientInv, ClientsTyped, k, q
    <2> QED
      BY <2>1 DEF Subscribe, ClientInv, ClientsTyped
  <1>5. last[c].place = p => id <= bus[p]
    BY <1>1 DEF Heard
  <1>6. ClientsTyped'
    BY <1>3, <1>4 DEF ClientInv, ClientsTyped
  <1>7. Linked(c)' /\ Heard(c)'
    BY <1>1, <1>3, <1>4 DEF Linked, Heard
  <1>8. Flows(c)'
    BY <1>1, <1>2, <1>3, <1>4, <1>5 DEF Flows
  <1>9. ASSUME NEW d \in Clients \ {c} PROVE Linked(d)' /\ Flows(d)' /\ Heard(d)'
    BY <1>4 DEF Linked, Flows, Heard, ClientInv, ClientsFollow
  <1> QED
    BY <1>6, <1>7, <1>8, <1>9 DEF ClientInv, ClientsFollow

\* The client has the next event.
LEMMA ReceiveKeeps ==
    ASSUME ClientInv, Counted, NEW c \in Clients, Receive(c), UNCHANGED stage
    PROVE  ClientInv'
  <1> DEFINE p == client[c].place  q == client[c].chan
  <1>1. /\ Linked(c) /\ Flows(c) /\ q # <<>>
        /\ client[c] \in [pc : {"off", "checking", "on"}, place : Places \union {None},
                          chan : Seq(Nat), first : BOOLEAN]
    BY DEF ClientInv, ClientsFollow, ClientsTyped, Receive
  <1>2. client[c].pc = "on"
    BY <1>1 DEF Linked, Off
  <1>3. p \in Places /\ bus[p] \in Nat /\ stage[p] \in Running /\ q \in Seq(Nat) /\ Run(q, bus[p])
    BY <1>1, <1>2 DEF Linked, Flows, Counted
  <1>4. /\ Run(Tail(q), bus[p])
        /\ UpToDate(q, bus[p]) => UpToDate(Tail(q), bus[p])
        /\ Head(q) = q[1] /\ q[1] \in 1 .. bus[p]
        /\ Tail(q) # <<>> => NextOf(Tail(q), bus[p]) = q[1] + 1
        /\ UpToDate(q, bus[p]) => NextOf(Tail(q), bus[p]) = q[1] + 1
    BY <1>1, <1>3, RunShrinks
  <1>5. Tail(q) \in Seq(Nat)
    BY <1>1, <1>3, HeadTailProperties
  <1> DEFINE k == [client[c] EXCEPT !.chan = Tail(q), !.first = FALSE]
             l == [place |-> p, id |-> q[1]]
  <1>6. /\ k \in [pc : {"off", "checking", "on"}, place : Places \union {None},
                  chan : Seq(Nat), first : BOOLEAN]
        /\ k.pc = "on" /\ k.place = p /\ k.chan = Tail(q) /\ k.first = FALSE
        /\ l \in [place : Places \union {None}, id : Nat] /\ l.place = p /\ l.id = q[1]
    <2>1. l \in [place : Places \union {None}, id : Nat] /\ l.place = p /\ l.id = q[1]
      BY <1>3, <1>4
    <2> DEFINE t == Tail(q)
    <2>2. /\ k \in [pc : {"off", "checking", "on"}, place : Places \union {None},
                    chan : Seq(Nat), first : BOOLEAN]
          /\ k.pc = "on" /\ k.place = p /\ k.chan = t /\ k.first = FALSE
      <3>1. t \in Seq(Nat)
        BY <1>5
      <3> HIDE DEF t
      <3> QED
        BY <1>1, <1>2, <3>1 DEF t
    <2> QED
      BY <2>1, <2>2
  <1>7. client' = [client EXCEPT ![c] = k] /\ last' = [last EXCEPT ![c] = l] /\ UNCHANGED bus
    BY <1>1, <1>4 DEF Receive, ClientInv, ClientsTyped
  <1> HIDE DEF k, l
  <1>8. /\ client'[c] = k /\ last'[c] = l
        /\ \A d \in Clients \ {c} : client'[d] = client[d] /\ last'[d] = last[d]
        /\ ClientsTyped'
    BY <1>6, <1>7 DEF ClientInv, ClientsTyped
  <1>9. Linked(c)' /\ Heard(c)'
    BY <1>3, <1>4, <1>6, <1>7, <1>8, FeedAssumption DEF Linked, Heard
  <1>10. Flows(c)'
    <2>1. CASE Tail(q) # <<>> \/ UpToDate(q, bus[p])
      <3>1. NextOf(Tail(q), bus[p]) = q[1] + 1
        BY <1>4, <2>1
      <3>2. Lost(q[1], q[1] + 1, bus[p])
        BY <1>4 DEF Lost
      <3>3. c \in Streams \/ stage[p] \in Serving => UpToDate(Tail(q), bus[p])
        BY <1>1, <1>2, <1>4 DEF Flows
      <3>4. q[1] < NextOf(Tail(q), bus[p])
        BY <1>4, <3>1
      <3>5. Lost(q[1], NextOf(Tail(q), bus[p]), bus[p])
        BY <3>1, <3>2
      <3> QED
        BY <1>4, <1>6, <1>7, <1>8, <3>3, <3>4, <3>5 DEF Flows
    <2>2. CASE Tail(q) = <<>> /\ ~UpToDate(q, bus[p])
      <3>1. c \in Sockets /\ stage[p] \notin Serving
        BY <1>1, <1>2, <2>2 DEF Flows, Clients
      <3>2. UpToDate(Tail(q), bus[p]) /\ q[1] < NextOf(Tail(q), bus[p])
        BY <1>3, <1>4, <2>2 DEF UpToDate, NextOf
      <3> QED
        BY <1>3, <1>4, <1>6, <1>7, <1>8, <2>2, <3>1, <3>2 DEF Flows
    <2> QED
      BY <2>1, <2>2
  <1>11. ASSUME NEW d \in Clients \ {c} PROVE Linked(d)' /\ Flows(d)' /\ Heard(d)'
    BY <1>7, <1>8 DEF Linked, Flows, Heard, ClientInv, ClientsFollow
  <1> QED
    BY <1>8, <1>9, <1>10, <1>11 DEF ClientInv, ClientsFollow

\* An event reaches every stream of the process, and its sockets while the
\* gateway runs.
LEMMA PublishReaches ==
    ASSUME ClientInv, Counted, SavedWhereRunning, NEW u \in Updates,
           Publish(u, stage[update[u].place] \in Serving), UNCHANGED stage
    PROVE  ClientInv'
  <1> DEFINE p == update[u].place  b == bus[p]
             Reached(c) == /\ client[c].pc = "on" /\ client[c].place = p
                           /\ c \in Streams \/ stage[p] \in Serving
  <1>1. p \in Places /\ b \in Nat /\ bus'[p] = b + 1 /\ UNCHANGED last
        /\ \A r \in Places \ {p} : bus'[r] = bus[r]
    BY DEF Publish, Counted, SavedWhereRunning, InFlight
  <1>2. ASSUME NEW c \in Clients
        PROVE  /\ Linked(c) /\ Heard(c) /\ Flows(c)
               /\ client[c] \in [pc : {"off", "checking", "on"}, place : Places \union {None},
                                 chan : Seq(Nat), first : BOOLEAN]
               /\ last[c] \in [place : Places \union {None}, id : Nat]
               /\ ~Reached(c) => client'[c] = client[c]
    BY DEF ClientInv, ClientsFollow, ClientsTyped, Publish
  <1>3. ASSUME NEW c \in Clients, Reached(c)
        PROVE  /\ client'[c] \in [pc : {"off", "checking", "on"}, place : Places \union {None},
                                  chan : Seq(Nat), first : BOOLEAN]
               /\ client'[c].pc = "on" /\ client'[c].place = p
               /\ client'[c].first = client[c].first
               /\ client'[c].chan = Append(client[c].chan, b + 1)
    <2> DEFINE t == Append(client[c].chan, b + 1)
    <2>1. client'[c] = [client[c] EXCEPT !.chan = t]
      BY <1>3 DEF Publish
    <2>2. t \in Seq(Nat)
      BY <1>1, <1>2, AppendProperties
    <2> HIDE DEF t
    <2>3. [client[c] EXCEPT !.chan = t]
            \in [pc : {"off", "checking", "on"}, place : Places \union {None},
                 chan : Seq(Nat), first : BOOLEAN]
      BY <1>2, <2>2
    <2>4. /\ [client[c] EXCEPT !.chan = t].pc = "on"
          /\ [client[c] EXCEPT !.chan = t].place = p
          /\ [client[c] EXCEPT !.chan = t].first = client[c].first
          /\ [client[c] EXCEPT !.chan = t].chan = t
      BY <1>2, <1>3
    <2> QED
      BY <2>1, <2>3, <2>4 DEF t
  <1> HIDE DEF p, b
  <1>4. ClientsTyped'
    <2>1. \A c \in Clients :
            client'[c] \in [pc : {"off", "checking", "on"}, place : Places \union {None},
                            chan : Seq(Nat), first : BOOLEAN]
      BY <1>2, <1>3
    <2>2. client' = [c \in Clients |-> client'[c]]
      BY DEF Publish
    <2> QED
      BY <1>1, <2>1, <2>2 DEF ClientInv, ClientsTyped
  <1>5. ASSUME NEW c \in Clients PROVE Heard(c)'
    BY <1>1, <1>2 DEF Heard, Counted, b
  <1>6. ASSUME NEW c \in Clients, Reached(c) PROVE Linked(c)' /\ Flows(c)'
    <2> DEFINE q == client[c].chan
    <2>1. /\ Run(q, b) /\ UpToDate(q, b) /\ q \in Seq(Nat) /\ stage[p] \in Running
          /\ ~client[c].first => last[c].place = p
      BY <1>2, <1>6 DEF Flows, Linked, b
    <2>2. /\ Run(Append(q, b + 1), b + 1)
          /\ UpToDate(Append(q, b + 1), b + 1)
          /\ NextOf(Append(q, b + 1), b + 1) = NextOf(q, b)
      BY <1>1, <2>1, RunGrows
    <2>3. NextOf(q, b) \in Nat
      BY <1>1, <2>1, EmptySeq, ElementOfSeq DEF NextOf
    <2>4. last[c].place = p =>
            /\ last[c].id < NextOf(q, b)
            /\ Lost(last[c].id, NextOf(q, b), b) \/ (c \in Sockets /\ client[c].first)
      <3>1. q = <<>> /\ stage[p] \notin Serving /\ c \in Sockets => FALSE
        BY <1>6, FeedAssumption
      <3> QED
        BY <1>2, <1>6, <3>1 DEF Flows, b
    <2>5. \A id \in Nat : Lost(id, NextOf(q, b), b) => Lost(id, NextOf(q, b), b + 1)
      BY <1>1, <2>3, FeedAssumption DEF Lost
    <2>6. last[c].id \in Nat
      BY <1>2
    <2> HIDE DEF q
    <2>7. Linked(c)'
      BY <1>1, <1>3, <1>6, <2>1 DEF Linked
    <2>8. client'[c].chan = Append(q, b + 1) /\ bus'[client'[c].place] = b + 1
      BY <1>1, <1>3, <1>6 DEF q
    <2> QED
      BY <1>1, <1>3, <1>6, <2>1, <2>2, <2>4, <2>5, <2>6, <2>7, <2>8 DEF Flows
  <1>7. ASSUME NEW c \in Clients, ~Reached(c) PROVE Linked(c)' /\ Flows(c)'
    <2> DEFINE q == client[c].chan
    <2>1. Linked(c)'
      BY <1>2, <1>7 DEF Linked
    <2>2. CASE client[c].pc = "on" /\ client[c].place = p
      <3>1. c \in Sockets /\ stage[p] \notin Serving /\ c \notin Streams
        BY <1>7, <2>2 DEF Clients
      <3>2. Run(q, b) /\ q \in Seq(Nat) /\ last[c].id \in Nat
        BY <1>2, <2>2 DEF Flows, b
      <3>3. Run(q, b + 1)
        BY <1>1, <3>2 DEF Run
      <3>4. /\ NextOf(q, b) \in Nat /\ NextOf(q, b) <= NextOf(q, b + 1)
            /\ q # <<>> => NextOf(q, b + 1) = NextOf(q, b)
        BY <1>1, <3>2, EmptySeq, ElementOfSeq DEF NextOf
      <3>5. NextOf(q, b + 1) \in Nat
        BY <1>1, <3>2, EmptySeq, ElementOfSeq DEF NextOf
      <3>6. \A id \in Nat : Lost(id, NextOf(q, b), b) => Lost(id, NextOf(q, b), b + 1)
        BY <1>1, <3>4, FeedAssumption DEF Lost
      <3>7. last[c].place = p =>
            /\ last[c].id < NextOf(q, b + 1)
            /\ \/ Lost(last[c].id, NextOf(q, b + 1), b + 1)
               \/ c \in Sockets /\ client[c].first
               \/ c \in Sockets /\ q = <<>> /\ stage[p] \notin Serving
        <4>1. last[c].place = p =>
              /\ last[c].id < NextOf(q, b)
              /\ \/ Lost(last[c].id, NextOf(q, b), b)
                 \/ c \in Sockets /\ client[c].first
                 \/ c \in Sockets /\ q = <<>> /\ stage[p] \notin Serving
          BY <1>2, <2>2 DEF Flows, b
        <4> HIDE DEF q
        <4>2. CASE q = <<>>
          BY <3>1, <3>2, <3>4, <3>5, <4>1, <4>2
        <4>3. CASE q # <<>>
          BY <3>2, <3>4, <3>6, <4>1, <4>3
        <4> QED
          BY <4>2, <4>3
      <3>8. ~client[c].first => last[c].place = p
        BY <1>2, <2>2 DEF Flows
      <3> HIDE DEF q
      <3>9. /\ client'[c].pc = "on" /\ client'[c].place = p /\ client'[c].chan = q
            /\ client'[c].first = client[c].first /\ bus'[p] = b + 1
        BY <1>1, <1>2, <1>7, <2>2 DEF q
      <3> QED
        BY <1>1, <2>1, <3>1, <3>3, <3>7, <3>8, <3>9 DEF Flows
    <2>3. CASE client[c].pc = "on" /\ client[c].place # p
      <3>1. client[c].place \in Places \ {p}
        BY <1>2, <2>3 DEF Linked
      <3> QED
        BY <1>1, <1>2, <1>7, <2>1, <2>3, <3>1 DEF Flows
    <2>4. CASE client[c].pc # "on"
      BY <1>2, <1>7, <2>1, <2>4 DEF Flows
    <2> QED
      BY <2>2, <2>3, <2>4
  <1> QED
    BY <1>4, <1>5, <1>6, <1>7 DEF ClientInv, ClientsFollow

-----------------------------------------------------------------------------
\* Whatever main(), SIGTERM, the endpoints and the first timer do to a pod that
\* runs, it still runs, and serves only if it did.
LEMMA StagesMove ==
    ASSUME PodInv, NEW p \in Pods,
           \/ TakeLock(p) \/ Migrate(p) \/ Listen(p) \/ Probe(p) \/ Unroute(p)
           \/ Sigterm(p) \/ BeginClose(p),
           NEW q \in Pods, stage[q] \in Running
    PROVE  stage'[q] \in Running /\ (stage'[q] \in Serving => stage[q] \in Serving)
  BY DEF PodInv, PodTypeOK, Running, Serving, Starting, Ended, Enters, TakeLock, Migrate,
         Listen, Probe, Unroute, Sigterm, BeginClose, DrainDue

Bookkept ==
    /\ status \in Updates \union {None} /\ announced \in Updates \union {None}
    /\ followers \in {Streams, Sockets}
    /\ faults \in 0 .. MaxFaults /\ connects \in 0 .. MaxConnects

UpdateSide == Counted /\ SavedWhereRunning /\ Bookkept

LEMMA WaitingIsFinite == IsFiniteSet(Waiting)
  <1>1. 1 \in Int /\ MaxUpdates \in Int
    BY FeedAssumption
  <1>2. IsFiniteSet(1 .. MaxUpdates)
    BY <1>1, FS_Interval
  <1>3. Waiting \subseteq 1 .. MaxUpdates
    BY DEF Waiting, Updates
  <1> QED
    BY <1>2, <1>3, FS_Subset

LEMMA CountedKeeps ==
    ASSUME Counted, Waiting' \subseteq Waiting, UNCHANGED bus
    PROVE  Counted'
  <1>1. IsFiniteSet(Waiting)
    BY WaitingIsFinite
  <1>2. /\ Cardinality(Waiting') \in Nat /\ Cardinality(Waiting) \in Nat
        /\ Cardinality(Waiting') <= Cardinality(Waiting)
    BY <1>1, FS_Subset, FS_CardinalityType
  <1> QED
    BY <1>2, FeedAssumption DEF Counted

LEMMA UpdatingKeeps ==
    ASSUME PodInv, FeedInv, UpdateSide, NEW u \in Updates, Updating(u)
    PROVE  UpdateSide'
  <1>1. UNCHANGED <<stage, followers, connects>> /\ faults' \in 0 .. MaxFaults
    BY BoundsAssumption DEF Updating, podVars, Fault, UpdateSide, Bookkept
  <1>2. ASSUME NEW p \in Up, Save(u, p) PROVE UpdateSide'
    <2>1. update' = [update EXCEPT ![u] = [pc |-> "saved", place |-> p]] /\ update[u].pc = "new"
      BY <1>2 DEF Save, Commit, Fresh
    <2>2. \A v \in Updates : update'[v] = IF v = u THEN [pc |-> "saved", place |-> p] ELSE update[v]
      BY <2>1 DEF FeedInv, UpdatesTyped
    <2>3. Waiting' \subseteq Waiting
      BY <2>1, <2>2 DEF Waiting
    <2>4. SavedWhereRunning'
      BY <1>1, <1>2, <2>2, PlacesArePods DEF UpdateSide, SavedWhereRunning, InFlight, Running, Up
    <2> QED
      BY <1>1, <1>2, <2>3, <2>4, CountedKeeps DEF Save, Commit, UpdateSide, Bookkept
  <1>3. CASE FailUpdate(u)
    <2>1. PICK r \in {Done, Untold} : update' = [update EXCEPT ![u] = r]
      BY <1>3 DEF FailUpdate, Commit
    <2>2. \A v \in Updates : update'[v] = IF v = u THEN r ELSE update[v]
      BY <2>1 DEF FeedInv, UpdatesTyped
    <2>3. Waiting' \subseteq Waiting
      BY <2>2 DEF Waiting, Done, Untold
    <2>4. SavedWhereRunning'
      BY <1>1, <2>2 DEF UpdateSide, SavedWhereRunning, InFlight, Done, Untold
    <2>5. UNCHANGED <<bus, announced>> /\ status' \in {status, u}
      BY <1>3 DEF FailUpdate, Commit
    <2> QED
      BY <1>1, <2>3, <2>4, <2>5, CountedKeeps DEF UpdateSide, Bookkept
  <1>4. CASE Publish(u, stage[update[u].place] \in Serving)
    <2>1. \A v \in Updates : update'[v] = IF v = u THEN Done ELSE update[v]
      BY <1>4 DEF Publish, FeedInv, UpdatesTyped
    <2>2. u \in Waiting /\ Waiting' = Waiting \ {u}
      BY <1>4, <2>1 DEF Waiting, Done, Publish
    <2>3. SavedWhereRunning'
      BY <1>1, <2>1 DEF UpdateSide, SavedWhereRunning, InFlight, Done
    <2>4. IsFiniteSet(Waiting)
      BY WaitingIsFinite
    <2>5. Cardinality(Waiting') = Cardinality(Waiting) - 1 /\ Cardinality(Waiting) \in Nat
      BY <2>2, <2>4, FS_RemoveElement, FS_CardinalityType
    <2>6. update[u].place \in Places
      BY <1>4 DEF Publish, UpdateSide, SavedWhereRunning, InFlight
    <2>7. bus' = [bus EXCEPT ![update[u].place] = bus[update[u].place] + 1]
      BY <1>4 DEF Publish
    <2>8. Counted'
      BY <2>5, <2>6, <2>7, FeedAssumption DEF UpdateSide, Counted
    <2>9. announced' = u /\ UNCHANGED status
      BY <1>4 DEF Publish
    <2> QED
      BY <1>1, <2>3, <2>8, <2>9 DEF UpdateSide, Bookkept
  <1> QED
    BY <1>2, <1>3, <1>4 DEF Updating

LEMMA PlaceEndsCounts ==
    ASSUME PodInv, FeedInv, UpdateSide, NEW p \in Pods, PlaceEnds(p), EndClose(p) \/ Kill(p) \/ CrashPod(p),
           UNCHANGED <<followers, connects>>, faults' \in 0 .. MaxFaults
    PROVE  UpdateSide'
  <1>1. \A v \in Updates : update'[v] = IF v \in UpdatesIn(p) THEN Untold ELSE update[v]
    BY DEF PlaceEnds
  <1>2. Waiting' \subseteq Waiting
    BY <1>1 DEF Waiting, UpdatesIn, InFlight, Untold
  <1>3. \A q \in Pods \ {p} : stage'[q] = stage[q]
    BY DEF EndClose, Kill, CrashPod, Enters, PodInv, PodTypeOK
  <1>4. SavedWhereRunning'
    <2> SUFFICES ASSUME NEW u \in Updates, update'[u].pc = "saved"
                 PROVE  update'[u].place \in Places /\ stage'[update'[u].place] \in Running
      BY DEF SavedWhereRunning, InFlight
    <2>1. update'[u] = update[u] /\ update[u].pc = "saved" /\ update[u].place # p
      BY <1>1 DEF UpdatesIn, InFlight, Untold
    <2> QED
      BY <1>3, <2>1, PlacesArePods DEF UpdateSide, SavedWhereRunning, InFlight
  <1> QED
    BY <1>2, <1>4, CountedKeeps DEF PlaceEnds, UpdateSide, Bookkept

LEMMA UpdateSideNext == PodInv /\ FeedInv /\ UpdateSide /\ [Next]_vars => UpdateSide'
  <1> SUFFICES ASSUME PodInv, FeedInv, UpdateSide, [Next]_vars PROVE UpdateSide'
    OBVIOUS
  <1>1. ASSUME UNCHANGED <<status, update, bus, announced, followers>>,
               \A q \in Pods : stage[q] \in Running => stage'[q] \in Running,
               faults' \in 0 .. MaxFaults, connects' \in 0 .. MaxConnects
        PROVE  UpdateSide'
    <2>1. Waiting' \subseteq Waiting
      BY <1>1 DEF Waiting
    <2>2. SavedWhereRunning'
      BY <1>1, PlacesArePods DEF UpdateSide, SavedWhereRunning, InFlight
    <2> QED
      BY <1>1, <2>1, <2>2, CountedKeeps DEF UpdateSide, Bookkept
  <1>2. ASSUME NEW p \in Pods, Starts(p) \/ Stops(p) \/ Unroutes(p) PROVE UpdateSide'
    BY <1>1, <1>2, StagesMove DEF Starts, Stops, Unroutes, feedVars, UpdateSide, Bookkept
  <1>3. ASSUME NEW p \in Pods, Closes(p) PROVE UpdateSide'
    <2>1. CASE BeginClose(p) /\ UNCHANGED feedVars
      BY <1>1, <1>3, <2>1, StagesMove DEF Closes, feedVars, UpdateSide, Bookkept
    <2>2. CASE UNCHANGED podVars /\ Cut(StreamsOf(p))
      BY <1>1, <1>3, <2>2 DEF Closes, Cut, podVars, UpdateSide, Bookkept
    <2>3. CASE EndClose(p) /\ PlaceEnds(p)
      BY <1>3, <2>3, PlaceEndsCounts DEF Closes, UpdateSide, Bookkept
    <2> QED
      BY <1>3, <2>1, <2>2, <2>3 DEF Closes
  <1>4. ASSUME NEW p \in Pods, Kills(p) \/ Crashes(p) PROVE UpdateSide'
    <2>1. faults' \in 0 .. MaxFaults /\ UNCHANGED <<followers, connects>>
      BY <1>4, BoundsAssumption DEF Kills, Crashes, Fault, UpdateSide, Bookkept
    <2> QED
      BY <1>4, <2>1, PlaceEndsCounts DEF Kills, Crashes
  <1>5. ASSUME NEW u \in Updates, Updating(u) PROVE UpdateSide'
    BY <1>5, UpdatingKeeps
  <1>6. ASSUME NEW c \in Clients, Connecting(c) \/ Following(c) \/ Answers(c) \/ Leaving(c)
        PROVE  UpdateSide'
    <2>1. faults' \in 0 .. MaxFaults /\ connects' \in 0 .. MaxConnects
      BY <1>6, BoundsAssumption
      DEF Connecting, Following, Answers, Leaving, Fault, UpdateSide, Bookkept
    <2> QED
      BY <1>1, <1>6, <2>1
      DEF Connecting, Connect, Following, Subscribe, Receive, Answers, Cut, Leaving, Disconnect,
          podVars
  <1>7. CASE Tick
    BY <1>1, <1>7 DEF Tick, PodTick, feedVars, UpdateSide, Bookkept
  <1>8. CASE UNCHANGED vars
    BY <1>1, <1>8 DEF vars, podVars, feedVars, UpdateSide, Bookkept
  <1> QED
    BY <1>2, <1>3, <1>4, <1>5, <1>6, <1>7, <1>8 DEF Next

\* The end of a process closes what it served; other pods stand.
LEMMA ClientsOfPlaceEnded ==
    ASSUME PodInv, Counted, ClientInv, NEW p \in Pods, PlaceEnds(p),
           EndClose(p) \/ Kill(p) \/ CrashPod(p)
    PROVE  ClientInv'
  <1>1. \A q \in Pods \ {p} : stage'[q] = stage[q]
    BY DEF EndClose, Kill, CrashPod, Enters, PodInv, PodTypeOK
  <1>2. \A c \in Clients :
          IF client[c].place = p THEN client'[c] = Off ELSE client'[c] = client[c]
    BY DEF PlaceEnds, Here
  <1>3. client' \in [Clients -> [pc : {"off", "checking", "on"}, place : Places \union {None},
                                chan : Seq(Nat), first : BOOLEAN]]
    <2>1. Off \in [pc : {"off", "checking", "on"}, place : Places \union {None},
                  chan : Seq(Nat), first : BOOLEAN]
      BY EmptySeq DEF Off
    <2> QED
      BY <2>1 DEF PlaceEnds, ClientInv, ClientsTyped
  <1>4. UNCHANGED <<bus, last>>
    BY DEF PlaceEnds
  <1>5. ASSUME NEW c \in Clients, client[c].place # p, client[c].pc # "off"
        PROVE  client[c].place \in Pods \ {p} /\ stage[client[c].place] \in Running
    BY <1>5, PlacesArePods DEF ClientInv, ClientsFollow, Linked
  <1> QED
    BY <1>1, <1>2, <1>3, <1>4, <1>5, ClientsLeft

LEMMA ClientsCut ==
    ASSUME Counted, ClientInv, UNCHANGED <<bus, last, stage>>,
           NEW cs, client' = [c \in Clients |-> IF c \in cs THEN Off ELSE client[c]]
    PROVE  ClientInv'
  <1>1. Off \in [pc : {"off", "checking", "on"}, place : Places \union {None},
                chan : Seq(Nat), first : BOOLEAN]
    BY EmptySeq DEF Off
  <1>2. client' \in [Clients -> [pc : {"off", "checking", "on"}, place : Places \union {None},
                                chan : Seq(Nat), first : BOOLEAN]]
    BY <1>1 DEF ClientInv, ClientsTyped
  <1>3. \A c \in Clients : client[c].pc # "off" => stage[client[c].place] \in Running
    BY DEF ClientInv, ClientsFollow, Linked
  <1> QED
    BY <1>2, <1>3, ClientsLeft

LEMMA ClientInvNext == PodInv /\ UpdateSide /\ ClientInv /\ [Next]_vars => ClientInv'
  <1> SUFFICES ASSUME PodInv, UpdateSide, ClientInv, [Next]_vars PROVE ClientInv'
    OBVIOUS
  <1>1. Counted /\ SavedWhereRunning
    BY DEF UpdateSide
  <1>2. ASSUME UNCHANGED <<bus, client, last>>,
               \A q \in Pods : stage[q] \in Running =>
                 stage'[q] \in Running /\ (stage'[q] \in Serving => stage[q] \in Serving)
        PROVE  ClientInv'
    <2>1. client' \in [Clients -> [pc : {"off", "checking", "on"}, place : Places \union {None},
                                  chan : Seq(Nat), first : BOOLEAN]]
      BY <1>2 DEF ClientInv, ClientsTyped
    <2>2. \A c \in Clients : client[c].pc # "off" =>
            client[c].place \in Pods /\ stage[client[c].place] \in Running
      BY PlacesArePods DEF ClientInv, ClientsFollow, Linked
    <2> QED
      BY <1>1, <1>2, <2>1, <2>2, ClientsLeft
  <1>3. ASSUME NEW p \in Pods, Starts(p) \/ Stops(p) \/ Unroutes(p) PROVE ClientInv'
    BY <1>2, <1>3, StagesMove DEF Starts, Stops, Unroutes, feedVars
  <1>4. ASSUME NEW p \in Pods, Closes(p) PROVE ClientInv'
    <2>1. CASE BeginClose(p) /\ UNCHANGED feedVars
      BY <1>2, <2>1, StagesMove DEF feedVars
    <2>2. CASE UNCHANGED podVars /\ Cut(StreamsOf(p))
      BY <1>1, <2>2, ClientsCut DEF Cut, podVars
    <2>3. CASE EndClose(p) /\ PlaceEnds(p)
      BY <1>1, <2>3, ClientsOfPlaceEnded
    <2> QED
      BY <1>4, <2>1, <2>2, <2>3 DEF Closes
  <1>5. ASSUME NEW p \in Pods, Kills(p) \/ Crashes(p) PROVE ClientInv'
    BY <1>1, <1>5, ClientsOfPlaceEnded DEF Kills, Crashes
  <1>6. ASSUME NEW u \in Updates, Updating(u) PROVE ClientInv'
    <2>1. CASE Publish(u, stage[update[u].place] \in Serving)
      BY <1>1, <1>6, <2>1, PublishReaches DEF Updating, podVars
    <2>2. CASE (\E p \in Pods : Save(u, p)) \/ FailUpdate(u)
      BY <1>2, <1>6, <2>2 DEF Updating, podVars, Save, FailUpdate
    <2> QED
      BY <1>6, <2>1, <2>2 DEF Updating, Up
  <1>7. ASSUME NEW c \in Clients, Connecting(c) PROVE ClientInv'
    BY <1>7, ConnectKeeps, PlacesArePods
    DEF Connecting, podVars, Running, PodInv, PodTypeOK
  <1>8. ASSUME NEW c \in Clients, Following(c) PROVE ClientInv'
    BY <1>1, <1>8, SubscribeKeeps, ReceiveKeeps DEF Following, podVars
  <1>9. ASSUME NEW c \in Clients, Leaving(c) PROVE ClientInv'
    <2>1. client' = [d \in Clients |-> IF d \in {c} THEN Off ELSE client[d]]
      BY <1>9 DEF Leaving, Disconnect, ClientInv, ClientsTyped
    <2> QED
      BY <1>1, <1>9, <2>1, ClientsCut DEF Leaving, Disconnect, podVars
  <1>12. ASSUME NEW c \in Clients, Answers(c) PROVE ClientInv'
    BY <1>1, <1>12, ClientsCut DEF Answers, Cut, podVars
  <1>10. CASE Tick
    BY <1>2, <1>10 DEF Tick, PodTick, feedVars
  <1>11. CASE UNCHANGED vars
    BY <1>2, <1>11 DEF vars, podVars, feedVars
  <1> QED
    BY <1>3, <1>4, <1>5, <1>6, <1>7, <1>8, <1>9, <1>10, <1>11, <1>12 DEF Next

-----------------------------------------------------------------------------
IInv == PodInv /\ FeedInv /\ UpdateSide /\ ClientInv

LEMMA IInvInit == Init => IInv
  <1> SUFFICES ASSUME Init PROVE IInv
    OBVIOUS
  <1> USE DEF Init, FeedInit
  <1>1. InFlight = {} /\ SavedWhereRunning
    BY DEF InFlight, SavedWhereRunning
  <1>2. Counted
    <2>1. Waiting = 1 .. MaxUpdates
      BY DEF Waiting, Updates
    <2>2. Cardinality(1 .. MaxUpdates) = MaxUpdates
      BY FS_Interval, FeedAssumption
    <2>3. \A p \in Places : bus[p] = 0
      OBVIOUS
    <2> QED
      BY <2>1, <2>2, <2>3, FeedAssumption DEF Counted
  <1>3. Bookkept
    BY BoundsAssumption DEF Bookkept
  <1>4. ClientsTyped
    BY EmptySeq DEF ClientsTyped, Off, Nothing
  <1>5. ClientsFollow
    BY FeedAssumption DEF ClientsFollow, Linked, Heard, Flows, Off, Nothing
  <1> QED
    BY <1>1, <1>2, <1>3, <1>4, <1>5, PodInvInit, FeedInvInit DEF IInv, UpdateSide, ClientInv

LEMMA IInvNext == IInv /\ [Next]_vars => IInv'
  BY PodInvNext, FeedInvNext, UpdateSideNext, ClientInvNext DEF IInv

\* Pods, updates, buses and clients agree: who is connected or owed an event is
\* at a pod that runs, and what is written to a client and not received is the
\* last events of its process, in order.
THEOREM Invariance == Spec => []IInv
  BY IInvInit, IInvNext, PTL DEF Spec

\* A stream that is past the cut is cut; no client comes to a pod that closes.
StreamsCut == \A p \in Pods : since[p] > Drain + CloseTimeout => StreamsOf(p) = {}

LEMMA NobodyComes ==
    ASSUME IInv, [Next]_vars, NEW p \in Pods, stage[p] \notin Serving
    PROVE  StreamsOf(p)' \subseteq StreamsOf(p)
  <1> SUFFICES ASSUME NEW c \in Clients, client'[c].place = p
               PROVE  client[c].place = p
    BY DEF StreamsOf, Here
  <1>1. ClientsTyped /\ p # None
    BY FeedAssumption, PlacesArePods DEF IInv, ClientInv
  <1>2. CASE client' = client
    BY <1>2
  <1>3. ASSUME NEW cs, client' = [d \in Clients |-> IF d \in cs THEN Off ELSE client[d]]
        PROVE  client[c].place = p
    BY <1>1, <1>3 DEF Off
  <1>4. ASSUME NEW d \in Clients, Connecting(d) PROVE client[c].place = p
    BY <1>1, <1>4 DEF Connecting, Connect, ClientsTyped
  <1>5. ASSUME NEW d \in Clients, Following(d) PROVE client[c].place = p
    <2>1. PICK q, r : \/ client' = [client EXCEPT ![d].pc = "on", ![d].chan = q]
                       \/ client' = [client EXCEPT ![d].chan = q, ![d].first = r]
      <3>1. CASE Subscribe(d)
        BY <3>1 DEF Subscribe
      <3>2. CASE Receive(d)
        BY <3>2 DEF Receive
      <3> QED
        BY <1>5, <3>1, <3>2 DEF Following
    <2>2. CASE c # d
      BY <1>1, <2>1, <2>2 DEF ClientsTyped
    <2>3. CASE c = d
      <3>1. client[c] \in [pc : {"off", "checking", "on"}, place : Places \union {None},
                           chan : Seq(Nat), first : BOOLEAN]
        BY <1>1 DEF ClientsTyped
      <3>2. \/ client'[c] = [client[c] EXCEPT !.pc = "on", !.chan = q]
            \/ client'[c] = [client[c] EXCEPT !.chan = q, !.first = r]
        BY <1>1, <2>1, <2>3 DEF ClientsTyped
      <3> QED
        BY <3>1, <3>2
    <2> QED
      BY <2>2, <2>3
  <1>6. ASSUME NEW d \in Clients, Answers(d) \/ Leaving(d) PROVE client[c].place = p
    <2>1. CASE client' = [client EXCEPT ![d] = Off]
      BY <1>1, <2>1 DEF ClientsTyped, Off
    <2> QED
      BY <1>3, <1>6, <2>1 DEF Answers, Cut, Leaving, Disconnect
  <1>7. ASSUME NEW u \in Updates, Updating(u) PROVE client[c].place = p
    <2>1. CASE \E q \in Up : Save(u, q)
      BY <2>1 DEF Save
    <2>2. CASE FailUpdate(u)
      BY <2>2 DEF FailUpdate
    <2>3. CASE Publish(u, stage[update[u].place] \in Serving)
      BY <1>1, <2>3 DEF Publish, ClientsTyped
    <2> QED
      BY <1>7, <2>1, <2>2, <2>3 DEF Updating
  <1>8. ASSUME NEW q \in Pods, Closes(q) \/ Kills(q) \/ Crashes(q) PROVE client[c].place = p
    BY <1>2, <1>3, <1>8 DEF Closes, Kills, Crashes, Cut, PlaceEnds, feedVars
  <1>9. ASSUME NEW q \in Pods, Starts(q) \/ Stops(q) \/ Unroutes(q) PROVE client[c].place = p
    BY <1>2, <1>9 DEF Starts, Stops, Unroutes, feedVars
  <1>10. CASE Tick \/ UNCHANGED vars
    BY <1>2, <1>10 DEF Tick, vars, feedVars
  <1> QED
    BY <1>4, <1>5, <1>6, <1>7, <1>8, <1>9, <1>10 DEF Next

\* Only the clock takes a pod past the cut, and it stands while streams are to be
\* cut.
LEMMA TimePasses ==
    ASSUME PodInv, [Next]_vars, NEW p \in Pods, since'[p] > Drain + CloseTimeout
    PROVE  /\ stage[p] \notin Serving
           /\ since[p] > Drain + CloseTimeout \/ StreamsOf(p) = {}
  <1> USE LifecycleAssumption DEF PodInv, PodTypeOK, TimersHold, Serving
  <1>1. CASE Tick
    <2>1. stage[p] \in {"draining", "closing"} /\ since'[p] = since[p] + 1
      BY <1>1 DEF Tick, PodTick
    <2>2. stage[p] = "closing" /\ since[p] >= Drain + CloseTimeout
      BY <1>1, <2>1 DEF Tick, Due, DrainDue
    <2> QED
      BY <1>1, <2>2 DEF Tick, Due, CutDue
  <1>2. CASE since'[p] \in {since[p], 0}
    BY <1>2
  <1>3. CASE UNCHANGED podVars
    BY <1>2, <1>3 DEF podVars
  <1>4. ASSUME NEW q \in Pods,
               Starts(q) \/ Stops(q) \/ Unroutes(q) \/ Closes(q) \/ Kills(q) \/ Crashes(q)
        PROVE  since'[p] \in {since[p], 0}
    BY <1>4
    DEF Starts, TakeLock, Migrate, Listen, Probe, Stops, Sigterm, Unroutes, Unroute, Closes,
        BeginClose, EndClose, Kills, Kill, Crashes, CrashPod, podVars
  <1>5. ASSUME NEW u \in Updates, Updating(u) PROVE UNCHANGED podVars
    BY <1>5 DEF Updating
  <1>6. ASSUME NEW c \in Clients, Connecting(c) \/ Following(c) \/ Answers(c) \/ Leaving(c)
        PROVE  UNCHANGED podVars
    BY <1>6 DEF Connecting, Following, Answers, Leaving
  <1>7. CASE UNCHANGED vars
    BY <1>3, <1>7 DEF vars
  <1> QED
    BY <1>1, <1>2, <1>3, <1>4, <1>5, <1>6, <1>7 DEF Next

\* A rollout, with any number of pods dying at any moment and sockets that answer
\* or not, applies the migrations once, routes nobody to a closed socket, and has
\* no pod past the cut that does not exit at once, but for a silent socket.
THEOREM RolloutIsSafe == Spec => []RolloutSafe
  <1>1. Init => StreamsCut
    BY LifecycleAssumption DEF Init, PodInit, StreamsCut
  <1>2. IInv /\ StreamsCut /\ [Next]_vars => StreamsCut'
    BY NobodyComes, TimePasses DEF IInv, StreamsCut
  <1>3. IInv /\ StreamsCut => RolloutSafe
    <2> SUFFICES ASSUME IInv, StreamsCut, NEW p \in Pods,
                        since[p] > Drain + CloseTimeout, SocketsOf(p) = {}
                 PROVE  stage[p] = "closing" /\ ~Open(p)
      BY DEF IInv, PodInv, RolloutSafe, HeldBySocketsOnly
    <2>1. stage[p] = "closing"
      BY LifecycleAssumption DEF IInv, PodInv, PodTypeOK, TimersHold
    <2>2. PastCut(p)
      BY <2>1, LifecycleAssumption DEF PastCut, IInv, PodInv, PodTypeOK
    <2> QED
      BY <2>1, <2>2 DEF Open, StreamsCut
  <1> QED
    BY <1>1, <1>2, <1>3, Invariance, PTL DEF Spec

LEMMA ChanTyped ==
    ASSUME NEW q \in Seq(Nat), NEW b \in Nat, b <= MaxUpdates, Run(q, b)
    PROVE  q \in Seq(1 .. MaxUpdates)
  <1>1. Len(q) \in Nat /\ q \in [1 .. Len(q) -> Nat]
    BY LenProperties
  <1>2. \A i \in 1 .. Len(q) : q[i] \in 1 .. MaxUpdates
    BY FeedAssumption DEF Run
  <1>3. q \in [1 .. Len(q) -> 1 .. MaxUpdates]
    BY <1>1, <1>2
  <1> DEFINE S == 1 .. MaxUpdates
  <1>4. q \in UNION {[1 .. n -> S] : n \in Nat}
    BY <1>1, <1>3
  <1> HIDE DEF S
  <1>5. q \in Seq(S)
    BY <1>4, SeqDef
  <1> QED
    BY <1>5 DEF S

LEMMA IInvTyped == IInv => TypeOK
  <1> SUFFICES ASSUME IInv PROVE TypeOK
    OBVIOUS
  <1> USE DEF IInv
  <1>1. bus \in [Places -> 0 .. MaxUpdates]
    <2>1. Cardinality(Waiting) \in Nat
      BY WaitingIsFinite, FS_CardinalityType
    <2> QED
      BY <2>1, FeedAssumption DEF UpdateSide, Counted
  <1>2. ASSUME NEW c \in Clients
        PROVE  /\ client[c].pc \in {"off", "checking", "on"}
               /\ (client[c].pc = "off") = (client[c] = Off)
               /\ client[c].chan \in Seq(1 .. MaxUpdates)
               /\ last[c] \in [place : Places \union {None}, id : 0 .. MaxUpdates]
    <2>1. /\ Linked(c) /\ Heard(c) /\ Flows(c)
          /\ client[c] \in [pc : {"off", "checking", "on"}, place : Places \union {None},
                            chan : Seq(Nat), first : BOOLEAN]
          /\ last[c] \in [place : Places \union {None}, id : Nat]
      BY DEF ClientInv, ClientsFollow, ClientsTyped
    <2>2. (client[c].pc = "off") = (client[c] = Off)
      <3>1. Off.pc = "off"
        BY DEF Off
      <3> QED
        BY <2>1, <3>1 DEF Linked
    <2>3. client[c].chan \in Seq(1 .. MaxUpdates)
      <3>1. CASE client[c].pc = "on"
        <4>1. client[c].place \in Places
          BY <2>1, <3>1 DEF Linked
        <4>2. bus[client[c].place] \in Nat /\ bus[client[c].place] <= MaxUpdates
          BY <1>1, <4>1, FeedAssumption
        <4>3. client[c].chan \in Seq(Nat) /\ Run(client[c].chan, bus[client[c].place])
          BY <2>1, <3>1 DEF Flows
        <4> QED
          BY <4>2, <4>3, ChanTyped
      <3>2. CASE client[c].pc # "on"
        BY <2>1, <3>2, EmptySeq DEF Linked, Off
      <3> QED
        BY <3>1, <3>2
    <2>4. last[c].id \in 0 .. MaxUpdates
      BY <1>1, <2>1, FeedAssumption DEF Heard
    <2>5. last[c] \in [place : Places \union {None}, id : 0 .. MaxUpdates]
      BY <2>1, <2>4
    <2> QED
      BY <2>1, <2>2, <2>3, <2>5
  <1>3. FeedTypeOK
    BY <1>1, <1>2 DEF FeedTypeOK, FeedInv, UpdatesTyped, UpdateSide, Bookkept
  <1>4. ASSUME NEW p \in Pods \ Up
        PROVE  Here(p) = {} /\ UpdatesIn(p) = {}
    <2>1. ASSUME NEW c \in Clients, client[c].place = p PROVE FALSE
      <3>1. client[c].pc # "off"
        BY <2>1, FeedAssumption, PlacesArePods DEF ClientInv, ClientsFollow, Linked, Off
      <3> QED
        BY <1>4, <2>1, <3>1 DEF ClientInv, ClientsFollow, Linked, Running, Up
    <2>2. UpdatesIn(p) = {}
      BY <1>4 DEF UpdatesIn, UpdateSide, SavedWhereRunning, Running, Up
    <2> QED
      BY <2>1, <2>2 DEF Here
  <1> QED
    BY <1>3, <1>4 DEF TypeOK, PodInv, UpdateSide, Bookkept

\* Every variable keeps its type, and nobody is connected to, and nothing is
\* saved and not announced in, a process that is not up.
THEOREM TypeCorrect == Spec => []TypeOK
  BY Invariance, IInvTyped, PTL

\* However often a client is cut, sent to another pod or replayed the buffer,
\* what it receives from one process is in order, never twice and without a gap
\* the buffer of BUFFER_LIMIT events would have filled.
THEOREM InSequence == Spec => EventsInSequence
  <1> DEFINE A == \A c \in Clients :
                    LET p == last[c].place  id == Head(client[c].chan) IN
                    /\ client[c].pc = "on" /\ client'[c].pc = "on"
                    /\ Len(client'[c].chan) < Len(client[c].chan)
                    /\ client[c].place = p
                    => /\ id > last[c].id
                       /\ \A i \in last[c].id + 1 .. id - 1 :
                            i + BufferLimit <= bus[p] \/ (c \in Sockets /\ client[c].first)
  <1>1. IInv /\ IInv' => A
    <2> SUFFICES ASSUME IInv, IInv', NEW c \in Clients,
                        client[c].pc = "on",
                        Len(client'[c].chan) < Len(client[c].chan),
                        client[c].place = last[c].place
                 PROVE  /\ Head(client[c].chan) > last[c].id
                        /\ \A i \in last[c].id + 1 .. Head(client[c].chan) - 1 :
                             \/ i + BufferLimit <= bus[last[c].place]
                             \/ c \in Sockets /\ client[c].first
      OBVIOUS
    <2> DEFINE q == client[c].chan  p == client[c].place
    <2>1. q \in Seq(Nat) /\ client'[c].chan \in Seq(Nat) /\ Flows(c) /\ last[c].id \in Nat
      BY DEF IInv, ClientInv, ClientsTyped, ClientsFollow
    <2>2. q # <<>>
      <3>1. Len(client'[c].chan) \in Nat /\ Len(q) \in Nat
        BY <2>1, LenProperties
      <3>2. Len(<<>>) = 0
        BY EmptySeq
      <3> QED
        BY <3>1, <3>2
    <2>3. Head(q) = q[1] /\ q[1] \in Nat /\ NextOf(q, bus[p]) = q[1]
      BY <2>1, <2>2, HeadTailProperties, EmptySeq, ElementOfSeq DEF NextOf
    <2>4. /\ last[c].id < q[1]
          /\ Lost(last[c].id, q[1], bus[p]) \/ (c \in Sockets /\ client[c].first)
      BY <2>1, <2>2, <2>3 DEF Flows
    <2> QED
      BY <2>1, <2>3, <2>4 DEF Lost
  <1>2. A => [A]_feedVars
    OBVIOUS
  <1> HIDE DEF A
  <1>3. Spec => [][A]_feedVars
    BY <1>1, <1>2, Invariance, PTL
  <1> QED
    BY <1>3 DEF EventsInSequence, A

=============================================================================
