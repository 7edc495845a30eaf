------------------------ MODULE OutboxPipelineProofs ------------------------
(***************************************************************************)
(* The outbox pipeline for any number of orders, messages, relays,         *)
(* consumers, handlers, faults and days: no event is lost, what is         *)
(* acknowledged is done, the effect commits once per mark and with it,     *)
(* relays keep apart, a job's receipts are bounded, and all of it          *)
(* implements ConfirmOnce.                                                 *)
(***************************************************************************)
EXTENDS OutboxPipeline, FiniteSetTheorems, TLAPS

\* What a relay has locked: nothing between two batches, pending rows in one.
Claims ==
    /\ \A r \in Relays : relay[r].pc \in {"down", "idle"} =>
                           relay[r].batch = {} /\ relay[r].sent = NothingSent
    /\ \A r \in Relays : \A e \in relay[r].batch : Pending(e)
    /\ BatchesDisjoint

\* A refused publish was counted before the row is charged for it.
Charges ==
    /\ AttemptsAreRefusals
    /\ \A e \in Events : ~Placed(e) => outbox[e].attempts = 0
    /\ \A r \in Relays : \A e \in relay[r].batch :
         relay[r].sent[e] = "refused" => outbox[e].attempts < refusals[e]

\* An event that is done, or whose message is somewhere in the broker.
Safe(e) == e \in confirmed \/ At(e, {"ready", "held", "dlq", "unroutable"})

\* Publish before mark, from the publish on.
Publishes ==
    /\ NoEventLost
    /\ \A r \in Relays, e \in Events : relay[r].sent[e] = "stored" => Safe(e)

\* What was handed to the broker: events of orders that were placed, or garbage.
Messages ==
    \A c \in Copies :
        copies[c].at # "unsent" =>
            \/ copies[c].event = Garbage
            \/ copies[c].event \in Events /\ Placed(copies[c].event)

\* HeldByOne without counting, and what the message of a handler is.
Deliveries ==
    /\ \A h \in Handlers : handler[h].pc = "free" => ~handler[h].live
    /\ \A h \in Handlers :
         handler[h].pc # "free" =>
             /\ handler[h].copy \in Copies
             /\ copies[handler[h].copy].at # "unsent"
             /\ EventOf(h) \in Events
    /\ \A h \in Handlers :
         handler[h].live => /\ consumer[ProcessOf[h]] \in {"up", "cancelled"}
                            /\ copies[handler[h].copy].at = "held"
    /\ \A g, h \in Handlers :
         /\ handler[g].live /\ handler[h].live
         /\ handler[g].copy = handler[h].copy
         => g = h
    /\ \A c \in Copies :
         copies[c].at = "held" =>
             \E h \in Handlers : handler[h].live /\ handler[h].copy = c

\* How far a handler has come is how far the work on its event is.
Work ==
    /\ MarkWithEffect /\ AckedIsDone
    /\ \A h \in Handlers : handler[h].pc \in {"after", "ack"} => EventOf(h) \in confirmed
    /\ \A h \in Handlers : handler[h].pc = "ack" => added[EventOf(h)] > 0
    /\ \A e \in Events : jobs[e].state # "absent" => added[e] > 0

\* Between its mark and its COMMIT a handler is alone with its event, which has
\* no committed mark; and every commit left a mark, which retention counts.
Marking ==
    /\ \A h \in Handlers : handler[h].pc = "effect" => marking[EventOf(h)] = h
    /\ \A e \in Events : marking[e] # None => inbox[e] = None
    /\ \A e \in Events : commits[e] = forgotten[e] + (IF inbox[e] = None THEN 0 ELSE 1)

IInv == /\ TypeOK /\ Claims /\ Charges /\ Publishes /\ Messages /\ Deliveries
        /\ Work /\ Marking

\* Receipts that a job which is not over may still send are paid for.
JobsPaid ==
    /\ ReceiptsPerJob
    /\ \A e \in Events :
         jobs[e].state \in {"waiting", "active"} =>
             sent[e] + (1 + MaxStalls - jobs[e].stalls) <= added[e] * (1 + MaxStalls)

-----------------------------------------------------------------------------
(* Types.                                                                  *)

CopyType == [event : Events \union {Garbage, None}, at : Places, returns : Nat]
RowType == [state : {"absent", "pending", "published", "purged"},
            attempts : 0 .. MaxAttempts, at : 0 .. MaxDay]
RelayType == [pc : {"down", "idle", "publish", "drain", "dead"}, batch : SUBSET Events,
              sent : [Events -> Outcomes], channel : {"open", "closed"}]
ConsumerStates == {"down", "topology", "up", "cancelled", "deaf", "closing"}
HandlerType == [pc : {"free", "mark", "effect", "after", "ack"},
                copy : Copies \union {None}, try : 1 .. LocalAttempts, live : BOOLEAN]
JobType == [state : JobStates, attempts : 0 .. JobAttempts,
            stalls : 0 .. MaxStalls, at : 0 .. MaxDay, newer : 0 .. KeepCompleted]

LEMMA InitTyped == Init => TypeOK
  <1> SUFFICES ASSUME Init PROVE TypeOK
    OBVIOUS
  <1> USE DEF Init
  <1>1. BrokerTypeOK
    BY BrokerAssumption DEF BrokerInit, BrokerTypeOK, Places
  <1>2. RelayTypeOK
    BY BrokerAssumption, RelayAssumption
    DEF RelayInit, RelayTypeOK, Down, NothingSent, Outcomes
  <1>3. ConsumerTypeOK
    BY ConsumerAssumption DEF ConsumerInit, ConsumerTypeOK, Free
  <1>4. JobTypeOK
    BY BrokerAssumption, JobAssumption DEF JobInit, JobTypeOK, NoJob, JobStates
  <1>5. RetentionTypeOK
    BY BrokerAssumption DEF RetentionInit, RetentionTypeOK
  <1> QED
    BY <1>1, <1>2, <1>3, <1>4, <1>5 DEF TypeOK

\* A message more, or one given back.
LEMMA StoreTyped ==
    ASSUME BrokerTypeOK, NEW content \in Events \union {Garbage}, Store(content),
           UNCHANGED topology
    PROVE  copies' \in [Copies -> CopyType]
  BY DEF BrokerTypeOK, CopyType, Store, Routed, Places

LEMMA ReturnedTyped ==
    ASSUME NEW copy \in CopyType
    PROVE  /\ Returned(copy) \in CopyType
           /\ \A place \in Places : [copy EXCEPT !.at = place] \in CopyType
  <1>1. \A place \in Places : [copy EXCEPT !.at = place] \in CopyType
    BY DEF CopyType
  <1>2. [copy EXCEPT !.at = "ready", !.returns = @ + 1] \in CopyType
    <2>1. copy.returns + 1 \in Nat
      BY DEF CopyType
    <2>2. \A n \in Nat : [copy EXCEPT !.at = "ready", !.returns = n] \in CopyType
      BY DEF CopyType, Places
    <2> QED
      BY <2>1, <2>2
  <1>3. "dlq" \in Places
    BY DEF Places
  <1> QED
    BY <1>1, <1>2, <1>3 DEF Returned

\* A fault is one more within the bound.
LEMMA FaultTyped == ASSUME BrokerTypeOK, Fault PROVE faults' \in 0 .. MaxFaults
  BY BrokerAssumption DEF BrokerTypeOK, Fault

\* Rows of a batch have an attempt left.
LEMMA MarkedTyped ==
    ASSUME TypeOK, Claims, NEW r \in Relays
    PROVE  Marked(r) \in [Events -> RowType]
  <1>1. /\ outbox \in [Events -> RowType] /\ day \in 0 .. MaxDay
        /\ relay[r].batch \subseteq Events
    BY DEF TypeOK, RelayTypeOK, BrokerTypeOK, RowType
  <1>2. ASSUME NEW e \in relay[r].batch
        PROVE  outbox[e].attempts + 1 \in 0 .. MaxAttempts
    BY <1>1, <1>2, RelayAssumption DEF Claims, Pending, RowType
  <1>3. ASSUME NEW e \in Events
        PROVE  Marked(r)[e] \in RowType
    <2>1. CASE e \notin relay[r].batch
      BY <1>1, <2>1 DEF Marked
    <2>2. CASE e \in relay[r].batch /\ relay[r].sent[e] = "stored"
      BY <1>1, <1>2, <2>2 DEF Marked, RowType
    <2>3. CASE e \in relay[r].batch /\ relay[r].sent[e] # "stored"
      BY <1>1, <1>2, <2>3 DEF Marked, RowType
    <2> QED
      BY <2>1, <2>2, <2>3
  <1> QED
    BY <1>3 DEF Marked

\* What a relay becomes in its steps.
LEMMA RelayTyped ==
    ASSUME TypeOK, NEW r \in Relays
    PROVE  /\ Down \in RelayType
           /\ Idle(r) \in RelayType
           /\ \A pc \in {"down", "idle", "publish", "drain", "dead"} :
                [relay[r] EXCEPT !.pc = pc] \in RelayType
           /\ \A batch \in SUBSET Events : [relay[r] EXCEPT !.batch = batch] \in RelayType
           /\ \A e \in Events, o \in Outcomes : [relay[r] EXCEPT !.sent[e] = o] \in RelayType
           /\ \A ch \in {"open", "closed"} : [relay[r] EXCEPT !.channel = ch] \in RelayType
  BY DEF TypeOK, RelayTypeOK, RelayType, Down, Idle, NothingSent, Outcomes

LEMMA RelayStepTyped ==
    ASSUME TypeOK, Claims, NEW r \in Relays, RelayStep(r) \/ RelayFault(r)
    PROVE  BrokerTypeOK' /\ RelayTypeOK'
  <1>1. /\ BrokerTypeOK /\ RelayTypeOK
        /\ relay \in [Relays -> RelayType] /\ outbox \in [Events -> RowType]
        /\ refusals \in [Events -> Nat]
        /\ Marked(r) \in [Events -> RowType]
    BY MarkedTyped DEF TypeOK, RelayTypeOK, RelayType, RowType
  <1>2. /\ relay' \in [Relays -> RelayType] /\ outbox' \in [Events -> RowType]
        /\ refusals' \in [Events -> Nat]
        => RelayTypeOK'
    BY DEF RelayTypeOK, RelayType, RowType
  <1>3. UNCHANGED brokerVars => BrokerTypeOK'
    BY <1>1 DEF brokerVars, BrokerTypeOK
  <1>4. Fault /\ UNCHANGED <<topology, copies, day>> => BrokerTypeOK'
    BY <1>1, FaultTyped DEF BrokerTypeOK
  <1>5. CASE StartRelay(r)
    BY <1>1, <1>2, <1>3, <1>5 DEF StartRelay, RelayType
  <1>6. CASE ClaimBatch(r)
    <2>1. PICK batch \in SUBSET Events :
            relay' = [relay EXCEPT ![r].pc = "publish", ![r].batch = batch]
      BY <1>6 DEF ClaimBatch
    <2>2. [relay[r] EXCEPT !.pc = "publish", !.batch = batch] \in RelayType
      BY <1>1 DEF RelayType
    <2>3. relay' \in [Relays -> RelayType]
      BY <1>1, <2>1, <2>2
    <2> QED
      BY <1>1, <1>2, <1>3, <1>6, <2>3 DEF ClaimBatch
  <1>7. CASE PublishStored(r)
    <2> PICK e \in Events, label \in AfterWrite :
          /\ Store(e)
          /\ relay' = [relay EXCEPT ![r].pc = label, ![r].sent[e] = "stored"]
          /\ UNCHANGED <<outbox, refusals, topology, faults, day>>
      BY <1>7 DEF PublishStored
    <2>1. relay' \in [Relays -> RelayType]
      <3>1. label \in {"publish", "drain"} /\ "stored" \in Outcomes
        BY DEF AfterWrite, Outcomes
      <3>2. [relay[r].sent EXCEPT ![e] = "stored"] \in [Events -> Outcomes]
        BY <1>1, <3>1 DEF RelayType
      <3>3. [relay[r] EXCEPT !.pc = label, !.sent[e] = "stored"] \in RelayType
        BY <1>1, <3>1, <3>2 DEF RelayType
      <3> QED
        BY <1>1, <3>3
    <2>2. BrokerTypeOK'
      BY <1>1, StoreTyped DEF BrokerTypeOK, CopyType
    <2> QED
      BY <1>1, <1>2, <2>1, <2>2
  <1>8. CASE PublishNoExchange(r)
    <2>1. relay' \in [Relays -> RelayType]
      BY <1>1, <1>8 DEF PublishNoExchange, RelayType, Outcomes, AfterWrite
    <2> QED
      BY <1>1, <1>2, <1>3, <1>8, <2>1 DEF PublishNoExchange
  <1>9. CASE PublishClosed(r)
    <2>1. relay' \in [Relays -> RelayType]
      BY <1>1, <1>9 DEF PublishClosed, RelayType, Outcomes
    <2> QED
      BY <1>1, <1>2, <1>3, <1>9, <2>1 DEF PublishClosed
  <1>10. CASE Drained(r)
    BY <1>1, <1>2, <1>3, <1>10 DEF Drained, RelayType
  <1>11. CASE MarkBatch(r)
    BY <1>1, <1>2, <1>3, <1>11, RelayTyped DEF MarkBatch
  <1>12. CASE SettleClosed(r) \/ ReleaseDeadRelay(r)
    BY <1>1, <1>2, <1>3, <1>12, RelayTyped DEF SettleClosed, ReleaseDeadRelay
  <1>13. CASE PublishRefused(r)
    <2>1. PICK e \in Events, label \in AfterWrite :
            /\ relay' = [relay EXCEPT ![r].pc = label, ![r].sent[e] = "refused"]
            /\ refusals' = [refusals EXCEPT ![e] = @ + 1]
      BY <1>13 DEF PublishRefused
    <2>2. relay' \in [Relays -> RelayType]
      BY <1>1, <2>1 DEF RelayType, Outcomes, AfterWrite
    <2>3. refusals' \in [Events -> Nat]
      BY <1>1, <2>1
    <2> QED
      BY <1>1, <1>2, <1>4, <1>13, <2>2, <2>3 DEF PublishRefused
  <1>14. CASE MarkUnheard(r)
    BY <1>1, <1>2, <1>4, <1>14, RelayTyped DEF MarkUnheard
  <1>15. CASE CloseRelayChannel(r)
    BY <1>1, <1>2, <1>4, <1>15 DEF CloseRelayChannel, RelayType
  <1>16. CASE CrashRelay(r)
    BY <1>1, <1>2, <1>4, <1>16 DEF CrashRelay, RelayType
  <1> QED
    BY <1>5, <1>6, <1>7, <1>8, <1>9, <1>10, <1>11, <1>12, <1>13, <1>14, <1>15, <1>16
    DEF RelayStep, RelayFault

\* What a handler becomes, and what its message does.
LEMMA HandlerTyped ==
    ASSUME TypeOK, NEW h \in Handlers
    PROVE  /\ Free \in HandlerType
           /\ \A pc \in {"free", "mark", "effect", "after", "ack"} :
                [handler[h] EXCEPT !.pc = pc] \in HandlerType
           /\ [handler[h] EXCEPT !.live = FALSE] \in HandlerType
           /\ handler[h].try < LocalAttempts =>
                [handler[h] EXCEPT !.pc = "mark", !.try = @ + 1] \in HandlerType
           /\ \A c \in Copies : [pc |-> "mark", copy |-> c, try |-> 1, live |-> TRUE]
                                  \in HandlerType
  <1>1. /\ handler[h] \in HandlerType
        /\ 1 \in 1 .. LocalAttempts
        /\ handler[h].try < LocalAttempts => handler[h].try + 1 \in 1 .. LocalAttempts
    BY ConsumerAssumption DEF TypeOK, ConsumerTypeOK, HandlerType
  <1>2. \A t \in 1 .. LocalAttempts :
          [handler[h] EXCEPT !.pc = "mark", !.try = t] \in HandlerType
    BY <1>1 DEF HandlerType
  <1> QED
    BY <1>1, <1>2 DEF HandlerType, Free

LEMMA ReturnAllTyped ==
    ASSUME BrokerTypeOK, NEW H, ReturnAll(H)
    PROVE  copies' \in [Copies -> CopyType]
  BY ReturnedTyped DEF BrokerTypeOK, CopyType, ReturnAll

LEMMA DisposedTyped ==
    ASSUME BrokerTypeOK, NEW h, NEW transient \in BOOLEAN
    PROVE  Disposed(h, transient) \in [Copies -> CopyType]
  <1>1. copies \in [Copies -> CopyType]
    BY DEF BrokerTypeOK, CopyType
  <1>2. \A c \in Copies : /\ [copies EXCEPT ![c] = Returned(@)] \in [Copies -> CopyType]
                          /\ [copies EXCEPT ![c].at = "dlq"] \in [Copies -> CopyType]
    BY <1>1, ReturnedTyped DEF Places
  <1>3. \A c : c \notin Copies => /\ [copies EXCEPT ![c] = Returned(@)] = copies
                                  /\ [copies EXCEPT ![c].at = "dlq"] = copies
    BY <1>1
  <1> QED
    BY <1>1, <1>2, <1>3 DEF Disposed

LEMMA AddJobTyped ==
    ASSUME JobTypeOK, NEW e \in Events, AddJob(e)
    PROVE  JobTypeOK'
  <1>1. Waiting \in [state : JobStates, attempts : 0 .. JobAttempts,
                     stalls : 0 .. MaxStalls, at : 0 .. MaxDay, newer : 0 .. KeepCompleted]
    BY BrokerAssumption, JobAssumption DEF Waiting, NoJob, JobStates
  <1> QED
    BY <1>1 DEF JobTypeOK, AddJob, jobVars

LEMMA ConsumingTyped ==
    ASSUME TypeOK, Messages, Deliveries, Consuming
    PROVE  TypeOK'
  <1>1. /\ BrokerTypeOK /\ ConsumerTypeOK /\ JobTypeOK
        /\ handler \in [Handlers -> HandlerType]
        /\ consumer \in [Consumers -> ConsumerStates]
        /\ copies \in [Copies -> CopyType]
    BY DEF TypeOK, ConsumerTypeOK, ConsumerStates, HandlerType, BrokerTypeOK, CopyType
  <1>2. RelayTypeOK' /\ RetentionTypeOK'
    BY DEF Consuming, TypeOK, RelayTypeOK, RetentionTypeOK, relayVars, retentionVars
  <1>3. UNCHANGED jobVars => JobTypeOK'
    BY <1>1 DEF JobTypeOK, jobVars
  <1>4. UNCHANGED brokerVars => BrokerTypeOK'
    BY <1>1 DEF BrokerTypeOK, brokerVars
  <1>5. copies' \in [Copies -> CopyType] /\ UNCHANGED <<topology, day>>
        /\ (Fault \/ UNCHANGED faults)
        => BrokerTypeOK'
    BY <1>1, FaultTyped DEF BrokerTypeOK, CopyType
  <1>6. ASSUME handler' \in [Handlers -> HandlerType],
               consumer' \in [Consumers -> ConsumerStates],
               marking' \in [Events -> Handlers \union {None}],
               UNCHANGED <<inbox, confirmed, commits, day>>
        PROVE  ConsumerTypeOK'
    BY <1>1, <1>6 DEF ConsumerTypeOK, HandlerType, ConsumerStates
  <1>7. ASSUME NEW p \in Consumers,
               StartConsumer(p) \/ DeclareTopology(p) \/ ExitConsumer(p)
               \/ Shutdown(p) \/ LoseConnection(p) \/ CancelConsumer(p) \/ CrashConsumer(p)
        PROVE  BrokerTypeOK' /\ ConsumerTypeOK' /\ JobTypeOK'
    <2>1. /\ handler' \in [Handlers -> HandlerType]
          /\ consumer' \in [Consumers -> ConsumerStates]
          /\ marking' \in [Events -> Handlers \union {None}]
          /\ UNCHANGED <<inbox, confirmed, commits, day>> /\ UNCHANGED jobVars
      <3>1. CASE StartConsumer(p)
        BY <1>1, <3>1 DEF StartConsumer, ConsumerTypeOK, ConsumerStates, brokerVars
      <3>2. CASE DeclareTopology(p)
        BY <1>1, <3>2 DEF DeclareTopology, AssertTopology, ConsumerTypeOK, ConsumerStates
      <3>3. CASE Shutdown(p) \/ LoseConnection(p)
        <4>1. consumer' \in [Consumers -> ConsumerStates]
          BY <1>1, <3>3 DEF Shutdown, LoseConnection, ConsumerTypeOK, ConsumerStates
        <4>2. ChannelEnds(p)
          BY <3>3 DEF Shutdown, LoseConnection
        <4> QED
          BY <1>1, <4>1, <4>2, HandlerTyped DEF ChannelEnds, ConsumerTypeOK
      <3>5. CASE CancelConsumer(p)
        BY <1>1, <3>5 DEF CancelConsumer, ConsumerTypeOK, ConsumerStates
      <3>4. ASSUME ProcessEnds(p), UNCHANGED day
            PROVE  /\ handler' \in [Handlers -> HandlerType]
                   /\ consumer' \in [Consumers -> ConsumerStates]
                   /\ marking' \in [Events -> Handlers \union {None}]
                   /\ UNCHANGED <<inbox, confirmed, commits, day>> /\ UNCHANGED jobVars
        BY <1>1, <3>4, HandlerTyped DEF ProcessEnds, ConsumerTypeOK, ConsumerStates
      <3> QED
        BY <1>7, <3>1, <3>2, <3>3, <3>4, <3>5 DEF ExitConsumer, CrashConsumer, brokerVars
    <2>2. BrokerTypeOK'
      <3>1. CASE StartConsumer(p) \/ ExitConsumer(p)
        BY <1>4, <3>1 DEF StartConsumer, ExitConsumer
      <3>2. CASE DeclareTopology(p)
        BY <1>1, <3>2 DEF DeclareTopology, AssertTopology, BrokerTypeOK
      <3>3. CASE Shutdown(p) \/ LoseConnection(p) \/ CrashConsumer(p)
        BY <1>1, <1>5, <3>3, ReturnAllTyped
        DEF Shutdown, LoseConnection, ChannelEnds, CrashConsumer
      <3>4. CASE CancelConsumer(p)
        BY <1>1, <1>5, <3>4 DEF CancelConsumer
      <3> QED
        BY <1>7, <3>1, <3>2, <3>3, <3>4
    <2> QED
      BY <1>3, <1>6, <2>1, <2>2
  <1>8. ASSUME NEW h \in Handlers, HandlerStep(h)
        PROVE  BrokerTypeOK' /\ ConsumerTypeOK' /\ JobTypeOK'
    <2>1. CASE Deliver(h)
      <3>1. PICK c \in Copies :
              IF copies[c].event = Garbage
              THEN /\ copies' = [copies EXCEPT ![c].at = "dlq"]
                   /\ UNCHANGED handler
              ELSE /\ copies' = [copies EXCEPT ![c].at = "held"]
                   /\ handler' = [handler EXCEPT ![h] =
                                    [pc |-> "mark", copy |-> c, try |-> 1, live |-> TRUE]]
        BY <2>1 DEF Deliver
      <3>2. handler' \in [Handlers -> HandlerType]
        BY <1>1, <3>1, HandlerTyped
      <3>3. copies' \in [Copies -> CopyType]
        <4>1. /\ [copies[c] EXCEPT !.at = "dlq"] \in CopyType
              /\ [copies[c] EXCEPT !.at = "held"] \in CopyType
          BY <1>1, ReturnedTyped DEF Places
        <4> QED
          BY <1>1, <3>1, <4>1
      <3> QED
        BY <1>1, <1>3, <1>5, <1>6, <2>1, <3>2, <3>3 DEF Deliver, ConsumerTypeOK
    <2>2. CASE InsertMark(h)
      <3>1. handler' \in [Handlers -> HandlerType]
        BY <1>1, <2>2, HandlerTyped DEF InsertMark
      <3> QED
        BY <1>1, <1>3, <1>4, <1>6, <2>2, <3>1 DEF InsertMark, ConsumerTypeOK, brokerVars
    <2>3. CASE Apply(h)
      <3>1. handler' \in [Handlers -> HandlerType]
        BY <1>1, <2>3, HandlerTyped DEF Apply
      <3>2. EventOf(h) \in Events
        BY <2>3 DEF Apply, Deliveries
      <3> QED
        BY <1>1, <1>3, <1>4, <2>3, <3>1, <3>2
        DEF Apply, CommitEffect, ConsumerTypeOK, HandlerType, brokerVars, BrokerTypeOK,
            ConsumerStates
    <2>4. CASE EnqueueReceipt(h)
      <3>1. handler' \in [Handlers -> HandlerType]
        BY <1>1, <2>4, HandlerTyped DEF EnqueueReceipt
      <3>2. EventOf(h) \in Events
        BY <2>4 DEF EnqueueReceipt, Deliveries
      <3>3. JobTypeOK'
        BY <1>1, <2>4, <3>2, AddJobTyped DEF EnqueueReceipt
      <3> QED
        BY <1>1, <1>4, <1>6, <2>4, <3>1, <3>3 DEF EnqueueReceipt, ConsumerTypeOK, brokerVars
    <2>5. CASE Ack(h)
      <3>1. handler' \in [Handlers -> HandlerType]
        BY <1>1, <2>5, HandlerTyped DEF Ack
      <3>2. handler[h].copy \in Copies
        BY <2>5 DEF Ack, Deliveries
      <3>3. copies' \in [Copies -> CopyType]
        BY <1>1, <2>5, <3>2, ReturnedTyped DEF Ack, Places
      <3> QED
        BY <1>1, <1>3, <1>5, <1>6, <2>5, <3>1, <3>3 DEF Ack, ConsumerTypeOK
    <2> QED
      BY <1>8, <2>1, <2>2, <2>3, <2>4, <2>5 DEF HandlerStep
  <1>9. ASSUME NEW h \in Handlers, NEW transient \in BOOLEAN, RetryOrFail(h, transient)
        PROVE  handler' \in [Handlers -> HandlerType] /\ copies' \in [Copies -> CopyType]
    BY <1>1, <1>9, HandlerTyped, DisposedTyped DEF RetryOrFail
  <1>10. ASSUME NEW h \in Handlers, DbError(h) \/ ApplyUnheard(h) \/ EnqueueFails(h)
         PROVE  BrokerTypeOK' /\ ConsumerTypeOK' /\ JobTypeOK'
    <2>1. CASE DbError(h)
      <3>1. handler' \in [Handlers -> HandlerType] /\ copies' \in [Copies -> CopyType]
        BY <1>9, <2>1 DEF DbError
      <3>2. marking' \in [Events -> Handlers \union {None}]
        BY <1>1, <2>1 DEF DbError, Unmark, ConsumerTypeOK
      <3> QED
        BY <1>1, <1>3, <1>5, <1>6, <2>1, <3>1, <3>2 DEF DbError, ConsumerTypeOK
    <2>2. CASE ApplyUnheard(h)
      <3>1. handler' \in [Handlers -> HandlerType] /\ copies' \in [Copies -> CopyType]
        BY <1>9, <2>2 DEF ApplyUnheard
      <3>2. EventOf(h) \in Events
        BY <2>2 DEF ApplyUnheard, Deliveries
      <3>3. ConsumerTypeOK'
        BY <1>1, <2>2, <3>1, <3>2
        DEF ApplyUnheard, CommitEffect, ConsumerTypeOK, HandlerType, BrokerTypeOK
      <3> QED
        BY <1>3, <1>5, <2>2, <3>1, <3>3 DEF ApplyUnheard
    <2>3. CASE EnqueueFails(h)
      <3>1. handler' \in [Handlers -> HandlerType] /\ copies' \in [Copies -> CopyType]
        BY <1>1, <2>3, HandlerTyped, DisposedTyped DEF EnqueueFails
      <3>2. EventOf(h) \in Events
        BY <2>3 DEF EnqueueFails, Deliveries
      <3>3. JobTypeOK'
        BY <1>1, <1>3, <2>3, <3>2, AddJobTyped DEF EnqueueFails
      <3> QED
        BY <1>1, <1>5, <1>6, <2>3, <3>1, <3>3 DEF EnqueueFails, ConsumerTypeOK
    <2> QED
      BY <1>10, <2>1, <2>2, <2>3
  <1> QED
    BY <1>2, <1>7, <1>8, <1>10 DEF Consuming, ConsumerStep, ConsumerFault, TypeOK

\* What a job becomes when it, or another one, ends.
LEMMA TrimmedTyped ==
    ASSUME TypeOK, NEW e \in Events, NEW state, NEW gone
    PROVE  Trimmed(e, state, gone) \in JobType
  <1>1. jobs[e] \in JobType
    BY DEF TypeOK, JobTypeOK, JobType
  <1>2. NoJob \in JobType
    BY BrokerAssumption, JobAssumption DEF NoJob, JobType, JobStates
  <1>3. (IF jobs[e].newer < KeepCompleted THEN jobs[e].newer + 1 ELSE jobs[e].newer)
          \in 0 .. KeepCompleted
    BY <1>1, JobAssumption DEF JobType
  <1>4. \A n \in 0 .. KeepCompleted : [jobs[e] EXCEPT !.newer = n] \in JobType
    BY <1>1 DEF JobType
  <1> QED
    BY <1>1, <1>2, <1>3, <1>4 DEF Trimmed

LEMMA JobEndsTyped ==
    ASSUME TypeOK, NEW e \in Events, NEW state \in JobStates
    PROVE  /\ Ended(e, state) \in JobType /\ Ended(e, state).state = state
           /\ JobEnds(e, state) => jobs' \in [Events -> JobType]
  <1>1. jobs[e] \in JobType /\ day \in 0 .. MaxDay /\ 0 \in 0 .. KeepCompleted
    BY JobAssumption DEF TypeOK, JobTypeOK, JobType, BrokerTypeOK
  <1>2. Ended(e, state) \in JobType /\ Ended(e, state).state = state
    BY <1>1 DEF JobType, Ended
  <1> QED
    BY <1>2, TrimmedTyped DEF JobEnds

LEMMA ReceiptingTyped ==
    ASSUME TypeOK, Receipting
    PROVE  TypeOK'
  <1>1. /\ RelayTypeOK' /\ ConsumerTypeOK' /\ RetentionTypeOK'
        /\ BrokerTypeOK
        /\ jobs \in [Events -> JobType] /\ added \in [Events -> Nat] /\ sent \in [Events -> Nat]
    BY DEF Receipting, TypeOK, RelayTypeOK, ConsumerTypeOK, RetentionTypeOK, relayVars,
           consumerVars, retentionVars, JobTypeOK, JobType
  <1>2. BrokerTypeOK'
    BY <1>1, FaultTyped
    DEF Receipting, JobStep, JobFault, PickJob, CompleteJob, FailJob, StallJob, OtherJobEnds,
        OtherReceiptEnds, CronJobEnds, BrokerTypeOK, brokerVars
  <1>3. added' \in [Events -> Nat] /\ sent' \in [Events -> Nat]
    <2>1. UNCHANGED added
      BY DEF Receipting, JobStep, JobFault, PickJob, CompleteJob, FailJob, StallJob,
             OtherJobEnds, OtherReceiptEnds, CronJobEnds
    <2>2. \/ UNCHANGED sent
          \/ \E e \in Events : sent' = [sent EXCEPT ![e] = sent[e] + 1]
      BY DEF Receipting, JobStep, JobFault, PickJob, CompleteJob, FailJob, StallJob,
             OtherJobEnds, OtherReceiptEnds, CronJobEnds
    <2> QED
      BY <1>1, <2>1, <2>2
  <1>4. jobs' \in [Events -> JobType]
    <2>1. ASSUME NEW e \in Events, PickJob(e)
          PROVE  jobs' \in [Events -> JobType]
      BY <1>1, <2>1 DEF PickJob, JobType, JobStates
    <2>2. ASSUME NEW e \in Events, CompleteJob(e)
          PROVE  jobs' \in [Events -> JobType]
      BY <2>2, JobEndsTyped DEF CompleteJob, JobStates
    <2>3. ASSUME NEW e \in Events, FailJob(e)
          PROVE  jobs' \in [Events -> JobType]
      <3>1. CASE jobs[e].attempts + 1 < JobAttempts
        <4>1. jobs[e].attempts + 1 \in 0 .. JobAttempts
          BY <1>1, <3>1, JobAssumption DEF JobType
        <4>2. [jobs[e] EXCEPT !.state = "waiting", !.attempts = jobs[e].attempts + 1]
                \in JobType
          BY <1>1, <4>1 DEF JobType, JobStates
        <4> QED
          BY <1>1, <2>3, <3>1, <4>2 DEF FailJob
      <3>2. CASE ~(jobs[e].attempts + 1 < JobAttempts)
        BY <2>3, <3>2, JobEndsTyped DEF FailJob, JobStates
      <3> QED
        BY <3>1, <3>2
    <2>4. ASSUME NEW e \in Events, StallJob(e)
          PROVE  jobs' \in [Events -> JobType]
      <3>1. CASE jobs[e].stalls < MaxStalls
        <4>1. jobs[e].stalls + 1 \in 0 .. MaxStalls
          BY <1>1, <3>1, JobAssumption DEF JobType
        <4>2. [jobs[e] EXCEPT !.state = "waiting", !.stalls = jobs[e].stalls + 1]
                \in JobType
          BY <1>1, <4>1 DEF JobType, JobStates
        <4> QED
          BY <1>1, <2>4, <3>1, <4>2 DEF StallJob
      <3>2. CASE ~(jobs[e].stalls < MaxStalls)
        BY <2>4, <3>2, JobEndsTyped DEF StallJob, JobStates
      <3> QED
        BY <3>1, <3>2
    <2>5. CASE OtherJobEnds
      BY <2>5, TrimmedTyped DEF OtherJobEnds, OtherReceiptEnds, CronJobEnds
    <2> QED
      BY <2>1, <2>2, <2>3, <2>4, <2>5 DEF Receipting, JobStep, JobFault
  <1> QED
    BY <1>1, <1>2, <1>3, <1>4 DEF TypeOK, JobTypeOK, JobType

LEMMA RetentionTyped ==
    ASSUME TypeOK, RetentionStep
    PROVE  TypeOK'
  <1>1. /\ BrokerTypeOK' /\ JobTypeOK'
    BY FaultTyped
    DEF RetentionStep, StartPurge, PurgeRows, PurgeMarks, FailPurge, TypeOK, BrokerTypeOK,
        JobTypeOK, brokerVars, jobVars
  <1>2. RelayTypeOK'
    BY DEF RetentionStep, StartPurge, PurgeRows, PurgeMarks, FailPurge, TypeOK, RelayTypeOK,
           relayVars
  <1>3. ConsumerTypeOK'
    BY DEF RetentionStep, StartPurge, PurgeRows, PurgeMarks, FailPurge, TypeOK,
           ConsumerTypeOK, consumerVars
  <1>4. RetentionTypeOK'
    <2> USE DEF TypeOK, RetentionTypeOK
    <2>1. CASE StartPurge
      BY <2>1 DEF StartPurge, BrokerTypeOK
    <2>2. CASE PurgeRows
      BY <2>2 DEF PurgeRows, After
    <2>3. CASE PurgeMarks
      BY <2>3 DEF PurgeMarks, After, OldMarks
    <2>4. CASE FailPurge
      BY <2>4 DEF FailPurge
    <2> QED
      BY <2>1, <2>2, <2>3, <2>4 DEF RetentionStep
  <1> QED
    BY <1>1, <1>2, <1>3, <1>4 DEF TypeOK

LEMMA SurroundingsTyped ==
    ASSUME TypeOK, Surroundings
    PROVE  TypeOK'
  <1>1. RelayTypeOK' /\ ConsumerTypeOK' /\ JobTypeOK' /\ RetentionTypeOK'
    BY DEF Surroundings, TypeOK, RelayTypeOK, ConsumerTypeOK, JobTypeOK, RetentionTypeOK,
           relayVars, consumerVars, jobVars, retentionVars
  <1>2. CASE PublishGarbage
    BY <1>1, <1>2, StoreTyped, FaultTyped
    DEF PublishGarbage, TypeOK, BrokerTypeOK, CopyType
  <1>3. CASE Tick
    BY <1>1, <1>3, BrokerAssumption DEF Tick, TypeOK, BrokerTypeOK
  <1> QED
    BY <1>2, <1>3 DEF Surroundings

LEMMA TypePreserved == IInv /\ [Next]_vars => TypeOK'
  <1> SUFFICES ASSUME IInv, [Next]_vars PROVE TypeOK'
    OBVIOUS
  <1>1. CASE Relaying
    <2>1. ConsumerTypeOK' /\ JobTypeOK' /\ RetentionTypeOK'
      BY <1>1 DEF Relaying, IInv, TypeOK, ConsumerTypeOK, JobTypeOK, RetentionTypeOK,
                  consumerVars, jobVars, retentionVars
    <2>2. ASSUME NEW e \in Events, PlaceRow(e) PROVE BrokerTypeOK' /\ RelayTypeOK'
      BY <2>2 DEF PlaceRow, IInv, TypeOK, BrokerTypeOK, RelayTypeOK, brokerVars
    <2> QED
      BY <1>1, <2>1, <2>2, RelayStepTyped DEF Relaying, IInv, TypeOK
  <1>2. CASE Consuming
    BY <1>2, ConsumingTyped DEF IInv
  <1>3. CASE Receipting
    BY <1>3, ReceiptingTyped DEF IInv
  <1>4. CASE RetentionStep
    BY <1>4, RetentionTyped DEF IInv
  <1>5. CASE Surroundings
    BY <1>5, SurroundingsTyped DEF IInv
  <1>6. CASE UNCHANGED vars
    BY <1>6 DEF vars, IInv, TypeOK, BrokerTypeOK, RelayTypeOK, ConsumerTypeOK, JobTypeOK,
                RetentionTypeOK, brokerVars, relayVars, consumerVars, jobVars, retentionVars
  <1> QED
    BY <1>1, <1>2, <1>3, <1>4, <1>5, <1>6 DEF Next

-----------------------------------------------------------------------------
(* The relays.                                                             *)

\* A purge touches only rows that are published, so none of a batch.
LEMMA PurgeKeepsPending ==
    ASSUME TypeOK, PurgeRows
    PROVE  /\ relay' = relay /\ refusals' = refusals
           /\ \A e \in Events : /\ outbox[e].state # "published" => outbox'[e] = outbox[e]
                                /\ outbox'[e].attempts = outbox[e].attempts
                                /\ \/ outbox'[e].state = outbox[e].state
                                   \/ /\ outbox[e].state = "published"
                                      /\ outbox'[e].state = "purged"
  <1>1. outbox \in [Events -> RowType]
    BY DEF TypeOK, RelayTypeOK, RowType
  <1>2. PICK batch \in SUBSET OldRows :
          outbox' = [e \in Events |-> IF e \in batch THEN [outbox[e] EXCEPT !.state = "purged"]
                                      ELSE outbox[e]]
    BY DEF PurgeRows
  <1>3. ASSUME NEW e \in Events
        PROVE  /\ outbox[e].state # "published" => outbox'[e] = outbox[e]
               /\ outbox'[e].attempts = outbox[e].attempts
               /\ \/ outbox'[e].state = outbox[e].state
                  \/ outbox[e].state = "published" /\ outbox'[e].state = "purged"
    <2>1. CASE e \in batch
      <3>1. outbox'[e] = [outbox[e] EXCEPT !.state = "purged"]
        BY <1>2, <2>1
      <3>2. outbox[e].state = "published"
        BY <1>2, <2>1 DEF OldRows
      <3> QED
        BY <1>1, <3>1, <3>2 DEF RowType
    <2>2. CASE e \notin batch
      <3>1. outbox'[e] = outbox[e]
        BY <1>2, <2>2
      <3> QED
        BY <3>1, Zenon
    <2> QED
      BY <2>1, <2>2
  <1> QED
    BY <1>3 DEF PurgeRows

\* A publish settles one row of the batch, or starts to: it is stored, refused,
\* or its channel is closed.
LEMMA PublishStep ==
    ASSUME TypeOK, NEW r \in Relays,
           PublishStored(r) \/ PublishNoExchange(r) \/ PublishClosed(r) \/ PublishRefused(r)
    PROVE  \E e \in Events, o \in {"stored", "refused", "closed"} :
             /\ relay[r].pc = "publish" /\ e \in relay[r].batch
             /\ relay'[r] \in RelayType
             /\ relay'[r].pc \in {"publish", "drain"}
             /\ relay'[r].batch = relay[r].batch
             /\ relay'[r].sent = [relay[r].sent EXCEPT ![e] = o]
             /\ \A s \in Relays \ {r} : relay'[s] = relay[s]
             /\ outbox' = outbox
             /\ IF o = "stored" THEN Store(e) ELSE copies' = copies
             /\ refusals' = IF o = "refused" THEN [refusals EXCEPT ![e] = @ + 1] ELSE refusals
  <1>0. /\ relay \in [Relays -> RelayType] /\ relay[r] \in RelayType
        /\ relay[r].channel \in {"open", "closed"}
    BY DEF TypeOK, RelayTypeOK, RelayType
  <1>1. ASSUME NEW e \in Events, NEW o \in {"stored", "refused", "closed"},
               NEW pc \in {"publish", "drain"}, NEW channel \in {"open", "closed"},
               relay' = [relay EXCEPT ![r].pc = pc, ![r].sent[e] = o, ![r].channel = channel]
        PROVE  /\ relay'[r] \in RelayType
               /\ relay'[r].pc \in {"publish", "drain"}
               /\ relay'[r].batch = relay[r].batch
               /\ relay'[r].sent = [relay[r].sent EXCEPT ![e] = o]
               /\ \A s \in Relays \ {r} : relay'[s] = relay[s]
    <2>1. o \in Outcomes
      BY DEF Outcomes
    <2> QED
      BY <1>0, <1>1, <2>1 DEF RelayType
  <1>2. CASE PublishStored(r)
    <2>1. PICK e \in Events, label \in {"publish", "drain"} :
            /\ relay[r].pc = "publish" /\ e \in relay[r].batch
            /\ Store(e) /\ outbox' = outbox /\ refusals' = refusals
            /\ relay' = [relay EXCEPT ![r].pc = label, ![r].sent[e] = "stored"]
      BY <1>2 DEF PublishStored, AfterWrite, NextRow
    <2>2. relay' = [relay EXCEPT ![r].pc = label, ![r].sent[e] = "stored",
                                 ![r].channel = relay[r].channel]
      BY <1>0, <2>1 DEF RelayType
    <2> QED
      BY <1>0, <1>1, <2>1, <2>2
  <1>3. CASE PublishNoExchange(r)
    <2>1. PICK e \in Events, label \in {"publish", "drain"} :
            /\ relay[r].pc = "publish" /\ e \in relay[r].batch
            /\ copies' = copies /\ outbox' = outbox /\ refusals' = refusals
            /\ relay' = [relay EXCEPT ![r].pc = label, ![r].sent[e] = "closed",
                                      ![r].channel = "closed"]
      BY <1>3 DEF PublishNoExchange, AfterWrite, NextRow, brokerVars
    <2> QED
      BY <1>1, <2>1
  <1>4. CASE PublishClosed(r)
    <2>1. PICK e \in Events :
            /\ relay[r].pc = "publish" /\ e \in relay[r].batch
            /\ copies' = copies /\ outbox' = outbox /\ refusals' = refusals
            /\ relay' = [relay EXCEPT ![r].sent[e] = "closed"]
      BY <1>4 DEF PublishClosed, NextRow, brokerVars
    <2>2. relay' = [relay EXCEPT ![r].pc = "publish", ![r].sent[e] = "closed",
                                 ![r].channel = relay[r].channel]
      BY <1>0, <2>1 DEF RelayType
    <2> QED
      BY <1>0, <1>1, <2>1, <2>2
  <1>5. CASE PublishRefused(r)
    <2>1. PICK e \in Events, label \in {"publish", "drain"} :
            /\ relay[r].pc = "publish" /\ e \in relay[r].batch
            /\ copies' = copies /\ outbox' = outbox
            /\ refusals' = [refusals EXCEPT ![e] = @ + 1]
            /\ relay' = [relay EXCEPT ![r].pc = label, ![r].sent[e] = "refused"]
      BY <1>5 DEF PublishRefused, AfterWrite, NextRow
    <2>2. relay' = [relay EXCEPT ![r].pc = label, ![r].sent[e] = "refused",
                                 ![r].channel = relay[r].channel]
      BY <1>0, <2>1 DEF RelayType
    <2> QED
      BY <1>0, <1>1, <2>1, <2>2
  <1> QED
    BY <1>2, <1>3, <1>4, <1>5

\* Nobody else touches the rows a relay has locked, except by marking them.
LEMMA ClaimsPreserved == IInv /\ [Next]_vars => Claims'
  <1> SUFFICES ASSUME IInv, [Next]_vars PROVE Claims'
    OBVIOUS
  <1>0. /\ TypeOK /\ Claims
        /\ relay \in [Relays -> RelayType] /\ outbox \in [Events -> RowType]
    BY DEF IInv, TypeOK, RelayTypeOK, RelayType, RowType
  <1>1. CASE UNCHANGED <<outbox, relay>>
    BY <1>0, <1>1 DEF Claims, Pending, BatchesDisjoint
  <1>2. CASE PurgeRows
    <2>1. \A r \in Relays : \A e \in relay[r].batch : outbox'[e] = outbox[e]
      BY <1>0, <1>2, PurgeKeepsPending DEF Claims, Pending, RelayType
    <2>2. relay' = relay
      BY <1>2 DEF PurgeRows
    <2> QED
      BY <1>0, <2>1, <2>2 DEF Claims, Pending, BatchesDisjoint
  <1>3. ASSUME NEW e \in Events, PlaceRow(e)
        PROVE  Claims'
    <2>1. \A r \in Relays : \A f \in relay[r].batch : outbox'[f] = outbox[f]
      BY <1>0, <1>3 DEF PlaceRow, Placed, Claims, Pending, RelayType
    <2> QED
      BY <1>0, <1>3, <2>1 DEF PlaceRow, Claims, Pending, BatchesDisjoint
  <1>4. ASSUME NEW r \in Relays, RelayStep(r) \/ RelayFault(r)
        PROVE  Claims'
    <2>1. ASSUME outbox' = outbox,
                 \A s \in Relays \ {r} : relay'[s] = relay[s],
                 relay'[r] \in RelayType,
                 relay'[r].pc \in {"down", "idle"} =>
                   relay'[r].batch = {} /\ relay'[r].sent = NothingSent,
                 relay'[r].batch \subseteq relay[r].batch
                   \/ \A e \in relay'[r].batch : Claimable(e)
          PROVE  Claims'
      <3>1. \A s \in Relays \ {r} : relay'[s].batch \intersect relay'[r].batch = {}
        BY <1>0, <2>1 DEF Claims, BatchesDisjoint, Claimable, Locked
      <3>2. BatchesDisjoint'
        BY <1>0, <2>1, <3>1 DEF Claims, BatchesDisjoint
      <3>3. \A s \in Relays : \A e \in relay'[s].batch : Pending(e)'
        BY <1>0, <2>1 DEF Claims, Claimable, Pending
      <3> QED
        BY <1>0, <2>1, <3>2, <3>3 DEF Claims
    <2>2. ASSUME outbox' = Marked(r),
                 \A s \in Relays \ {r} : relay'[s] = relay[s],
                 relay'[r].batch = {} /\ relay'[r].sent = NothingSent
          PROVE  Claims'
      <3>1. \A s \in Relays \ {r} : \A e \in relay[s].batch : outbox'[e] = outbox[e]
        BY <1>0, <2>2 DEF Marked, Claims, BatchesDisjoint, RelayType
      <3>2. BatchesDisjoint'
        BY <1>0, <2>2 DEF Claims, BatchesDisjoint
      <3>3. \A s \in Relays : \A e \in relay'[s].batch : Pending(e)'
        BY <1>0, <2>2, <3>1 DEF Claims, Pending
      <3> QED
        BY <1>0, <2>2, <3>2, <3>3 DEF Claims
    <2>3. /\ Idle(r).batch = {} /\ Idle(r).sent = NothingSent
          /\ Down.batch = {} /\ Down.sent = NothingSent
      BY <1>0 DEF Idle, Down, RelayType
    <2>4. CASE StartRelay(r)
      <3>1. /\ relay' = [relay EXCEPT ![r].pc = "idle", ![r].channel = "open"]
            /\ outbox' = outbox
            /\ relay[r].batch = {} /\ relay[r].sent = NothingSent
        BY <1>0, <2>4 DEF StartRelay, Claims
      <3>2. /\ relay'[r] \in RelayType
            /\ relay'[r].batch = relay[r].batch /\ relay'[r].sent = relay[r].sent
            /\ \A s \in Relays \ {r} : relay'[s] = relay[s]
        BY <1>0, <3>1 DEF RelayType
      <3> QED
        BY <2>1, <3>1, <3>2
    <2>5. CASE ClaimBatch(r)
      <3>1. PICK batch \in SUBSET Events :
              /\ Oldest(batch)
              /\ relay' = [relay EXCEPT ![r].pc = "publish", ![r].batch = batch]
        BY <2>5 DEF ClaimBatch
      <3>2. /\ relay'[r] \in RelayType /\ relay'[r].batch = batch /\ relay'[r].pc = "publish"
            /\ \A s \in Relays \ {r} : relay'[s] = relay[s]
        BY <1>0, <3>1 DEF RelayType
      <3> QED
        BY <2>1, <2>5, <3>1, <3>2 DEF ClaimBatch, Oldest
    <2>6. CASE PublishStored(r) \/ PublishNoExchange(r) \/ PublishClosed(r)
               \/ PublishRefused(r)
      <3>1. /\ relay'[r] \in RelayType /\ relay'[r].batch = relay[r].batch
            /\ relay'[r].pc \in {"publish", "drain"}
            /\ \A s \in Relays \ {r} : relay'[s] = relay[s]
            /\ outbox' = outbox
        BY <1>0, <2>6, PublishStep
      <3> QED
        BY <2>1, <3>1
    <2>9. CASE Drained(r) \/ CrashRelay(r)
      <3>1. PICK pc \in {"publish", "dead"} : relay' = [relay EXCEPT ![r].pc = pc]
        BY <2>9 DEF Drained, CrashRelay
      <3>2. /\ relay'[r] \in RelayType /\ relay'[r].batch = relay[r].batch
            /\ relay'[r].pc \in {"publish", "dead"}
            /\ \A s \in Relays \ {r} : relay'[s] = relay[s]
        BY <1>0, <3>1 DEF RelayType
      <3> QED
        BY <2>1, <2>9, <3>2 DEF Drained, CrashRelay
    <2>10. CASE CloseRelayChannel(r)
      <3>1. /\ relay'[r] \in RelayType /\ relay'[r].batch = relay[r].batch
            /\ relay'[r].pc = relay[r].pc /\ relay'[r].sent = relay[r].sent
            /\ \A s \in Relays \ {r} : relay'[s] = relay[s]
            /\ outbox' = outbox
        BY <1>0, <2>10 DEF CloseRelayChannel, RelayType
      <3> QED
        BY <1>0, <2>1, <3>1 DEF Claims
    <2>11. CASE SettleClosed(r) \/ ReleaseDeadRelay(r)
      <3>1. /\ relay'[r] = Down /\ outbox' = outbox
            /\ \A s \in Relays \ {r} : relay'[s] = relay[s]
        BY <1>0, <2>11 DEF SettleClosed, ReleaseDeadRelay
      <3> QED
        BY <1>0, <2>1, <2>3, <3>1, RelayTyped
    <2>12. CASE MarkBatch(r) \/ MarkUnheard(r)
      <3>1. /\ relay'[r] \in {Idle(r), Down} /\ outbox' = Marked(r)
            /\ \A s \in Relays \ {r} : relay'[s] = relay[s]
        BY <1>0, <2>12 DEF MarkBatch, MarkUnheard
      <3> QED
        BY <2>2, <2>3, <3>1
    <2> QED
      BY <1>4, <2>4, <2>5, <2>6, <2>9, <2>10, <2>11, <2>12 DEF RelayStep, RelayFault
  <1> QED
    BY <1>1, <1>2, <1>3, <1>4
    DEF Next, Relaying, Consuming, Receipting, RetentionStep, StartPurge, PurgeMarks,
        FailPurge, Surroundings, vars, relayVars

\* A row is charged only in the marking of its batch, and then for a refusal.
LEMMA ChargesPreserved == IInv /\ [Next]_vars => Charges'
  <1> SUFFICES ASSUME IInv, [Next]_vars PROVE Charges'
    OBVIOUS
  <1>0. /\ TypeOK /\ Claims /\ Charges
        /\ relay \in [Relays -> RelayType] /\ outbox \in [Events -> RowType]
        /\ refusals \in [Events -> Nat]
    BY DEF IInv, TypeOK, RelayTypeOK, RelayType, RowType
  <1> USE DEF Charges, AttemptsAreRefusals, Placed
  <1>1. CASE UNCHANGED <<outbox, relay, refusals>>
    BY <1>0, <1>1
  <1>2. CASE PurgeRows
    BY <1>0, <1>2, PurgeKeepsPending DEF RelayType
  <1>3. ASSUME NEW e \in Events, PlaceRow(e)
        PROVE  Charges'
    <2>1. \A f \in Events \ {e} : outbox'[f] = outbox[f]
      BY <1>0, <1>3 DEF PlaceRow
    <2>2. outbox'[e].attempts = outbox[e].attempts
      BY <1>0, <1>3 DEF PlaceRow, RowType
    <2>3. /\ outbox[e].attempts = 0
          /\ \A r \in Relays : e \notin relay[r].batch
      BY <1>0, <1>3 DEF PlaceRow, Claims, Pending
    <2>4. relay' = relay /\ refusals' = refusals /\ refusals[e] >= 0
      BY <1>0, <1>3 DEF PlaceRow
    <2>5. outbox'[e].state = "pending"
      BY <1>0, <1>3 DEF PlaceRow, RowType
    <2>6. AttemptsAreRefusals'
      BY <1>0, <2>1, <2>2, <2>3, <2>4
    <2>7. \A f \in Events : outbox'[f].state = "absent" => outbox'[f].attempts = 0
      BY <1>0, <2>1, <2>5
    <2>8. \A r \in Relays : \A f \in relay'[r].batch :
            relay'[r].sent[f] = "refused" => outbox'[f].attempts < refusals'[f]
      BY <1>0, <2>1, <2>3, <2>4 DEF RelayType
    <2> QED
      BY <2>6, <2>7, <2>8
  <1>4. ASSUME NEW r \in Relays, RelayStep(r) \/ RelayFault(r)
        PROVE  Charges'
    <2>1. ASSUME outbox' = outbox,
                 refusals' \in [Events -> Nat],
                 \A e \in Events : refusals[e] <= refusals'[e],
                 \A s \in Relays \ {r} : relay'[s] = relay[s],
                 \A e \in relay'[r].batch : relay'[r].sent[e] = "refused" =>
                   \/ e \in relay[r].batch /\ refusals[e] < refusals'[e]
                   \/ e \in relay[r].batch /\ relay[r].sent[e] = "refused"
          PROVE  Charges'
      <3>1. AttemptsAreRefusals'
        <4> SUFFICES ASSUME NEW e \in Events, outbox'[e].state = "pending"
                     PROVE  outbox'[e].attempts <= refusals'[e]
          OBVIOUS
        <4>1. outbox[e].attempts <= refusals[e] /\ refusals[e] <= refusals'[e]
          BY <1>0, <2>1
        <4>2. outbox[e].attempts \in Nat /\ refusals[e] \in Nat /\ refusals'[e] \in Nat
          BY <1>0, <2>1 DEF RowType
        <4> QED
          BY <2>1, <4>1, <4>2
      <3>2. ASSUME NEW s \in Relays, NEW e \in relay'[s].batch,
                   relay'[s].sent[e] = "refused"
            PROVE  outbox'[e].attempts < refusals'[e]
        <4>1. CASE e \in relay[s].batch /\ relay[s].sent[e] = "refused"
          <5>1. e \in Events /\ outbox[e].attempts < refusals[e]
            BY <1>0, <4>1 DEF RelayType
          <5>2. /\ outbox[e].attempts \in Nat /\ refusals[e] \in Nat /\ refusals'[e] \in Nat
                /\ refusals[e] <= refusals'[e]
            BY <1>0, <2>1, <5>1 DEF RowType
          <5> QED
            BY <2>1, <5>1, <5>2
        <4>2. CASE s = r /\ e \in relay[r].batch /\ refusals[e] < refusals'[e]
          <5>1. e \in Events /\ outbox[e].attempts <= refusals[e]
            BY <1>0, <4>2 DEF RelayType, Claims, Pending
          <5>2. outbox[e].attempts \in Nat /\ refusals[e] \in Nat /\ refusals'[e] \in Nat
            BY <1>0, <2>1, <5>1 DEF RowType
          <5> QED
            BY <2>1, <4>2, <5>1, <5>2
        <4> QED
          BY <2>1, <3>2, <4>1, <4>2
      <3> QED
        BY <1>0, <2>1, <3>1, <3>2
    <2>2. ASSUME outbox' = Marked(r), refusals' = refusals,
                 AllSent(r), \A e \in relay[r].batch : relay[r].sent[e] # "closed",
                 \A s \in Relays \ {r} : relay'[s] = relay[s],
                 relay'[r].batch = {}
          PROVE  Charges'
      <3>1. \A e \in Events : e \notin relay[r].batch => outbox'[e] = outbox[e]
        BY <2>2 DEF Marked
      <3>2. ASSUME NEW e \in relay[r].batch
            PROVE  \/ outbox'[e].state = "published"
                   \/ /\ outbox'[e].state = "pending"
                      /\ outbox'[e].attempts <= refusals'[e]
        <4>1. /\ e \in Events /\ outbox[e].state = "pending"
              /\ relay[r].sent[e] \in {"stored", "refused"}
          BY <1>0, <2>2 DEF Claims, Pending, RelayType, AllSent, Outcomes
        <4>2. CASE relay[r].sent[e] = "stored"
          BY <2>2, <4>1, <4>2 DEF Marked
        <4>3. CASE relay[r].sent[e] = "refused"
          <5>1. outbox'[e] = [outbox[e] EXCEPT !.attempts = @ + 1]
            BY <2>2, <4>1, <4>3 DEF Marked
          <5>2. /\ outbox'[e].state = "pending"
                /\ outbox'[e].attempts = outbox[e].attempts + 1
            BY <1>0, <4>1, <5>1 DEF RowType
          <5>3. outbox[e].attempts \in Nat /\ refusals[e] \in Nat
            BY <1>0, <4>1 DEF RowType
          <5> QED
            BY <1>0, <2>2, <4>3, <5>2, <5>3
        <4> QED
          BY <4>1, <4>2, <4>3
      <3>3. \A s \in Relays \ {r} : \A e \in relay[s].batch : outbox'[e] = outbox[e]
        BY <1>0, <3>1 DEF Claims, BatchesDisjoint, RelayType
      <3> QED
        BY <1>0, <2>2, <3>1, <3>2, <3>3
    <2>3. Idle(r).batch = {} /\ Down.batch = {}
      BY <1>0 DEF Idle, Down, RelayType
    <2>4. refusals' = refusals =>
            /\ refusals' \in [Events -> Nat]
            /\ \A e \in Events : refusals[e] <= refusals'[e]
      BY <1>0
    <2>5. CASE ClaimBatch(r)
      <3>1. PICK batch \in SUBSET Events :
              relay' = [relay EXCEPT ![r].pc = "publish", ![r].batch = batch]
        BY <2>5 DEF ClaimBatch
      <3>2. /\ relay'[r].batch = batch /\ relay'[r].sent = NothingSent
            /\ \A s \in Relays \ {r} : relay'[s] = relay[s]
            /\ outbox' = outbox /\ refusals' = refusals
        BY <1>0, <2>5, <3>1 DEF ClaimBatch, Claims, RelayType
      <3>3. \A e \in batch : relay'[r].sent[e] = "unsent"
        BY <3>2 DEF NothingSent
      <3> QED
        BY <2>1, <2>4, <3>2, <3>3
    <2>6. CASE PublishStored(r) \/ PublishNoExchange(r) \/ PublishClosed(r)
               \/ PublishRefused(r)
      <3>1. PICK e \in Events, o \in {"stored", "refused", "closed"} :
              /\ e \in relay[r].batch
              /\ relay'[r].batch = relay[r].batch
              /\ relay'[r].sent = [relay[r].sent EXCEPT ![e] = o]
              /\ \A s \in Relays \ {r} : relay'[s] = relay[s]
              /\ outbox' = outbox
              /\ refusals' = IF o = "refused" THEN [refusals EXCEPT ![e] = @ + 1]
                             ELSE refusals
        BY <1>0, <2>6, PublishStep
      <3>2. /\ refusals' \in [Events -> Nat]
            /\ \A f \in Events : refusals[f] <= refusals'[f]
            /\ o = "refused" => refusals[e] < refusals'[e]
        BY <1>0, <3>1
      <3>3. ASSUME NEW f \in relay'[r].batch, relay'[r].sent[f] = "refused",
                   ~(f = e /\ o = "refused")
            PROVE  f \in relay[r].batch /\ relay[r].sent[f] = "refused"
        <4>1. relay[r].sent \in [Events -> Outcomes] /\ f \in Events
          BY <1>0, <3>1, <3>3 DEF RelayType
        <4> QED
          BY <3>1, <3>3, <4>1
      <3> QED
        BY <2>1, <3>1, <3>2, <3>3
    <2>8. CASE StartRelay(r) \/ Drained(r) \/ CrashRelay(r) \/ CloseRelayChannel(r)
      <3>1. /\ relay'[r].sent = relay[r].sent
            /\ relay'[r].batch = relay[r].batch
            /\ \A s \in Relays \ {r} : relay'[s] = relay[s]
        BY <1>0, <2>8 DEF StartRelay, Drained, CrashRelay, CloseRelayChannel, RelayType
      <3>2. outbox' = outbox /\ refusals' = refusals
        BY <2>8 DEF StartRelay, Drained, CrashRelay, CloseRelayChannel
      <3> QED
        BY <2>1, <2>4, <3>1, <3>2
    <2>9. CASE SettleClosed(r) \/ ReleaseDeadRelay(r)
      <3>1. /\ relay'[r] = Down /\ outbox' = outbox /\ refusals' = refusals
            /\ \A s \in Relays \ {r} : relay'[s] = relay[s]
        BY <1>0, <2>9 DEF SettleClosed, ReleaseDeadRelay
      <3> QED
        BY <2>1, <2>3, <2>4, <3>1
    <2>10. CASE MarkBatch(r) \/ MarkUnheard(r)
      <3>1. /\ relay'[r] \in {Idle(r), Down} /\ outbox' = Marked(r)
            /\ \A s \in Relays \ {r} : relay'[s] = relay[s]
            /\ refusals' = refusals /\ AllSent(r)
            /\ \A e \in relay[r].batch : relay[r].sent[e] # "closed"
        BY <1>0, <2>10 DEF MarkBatch, MarkUnheard
      <3> QED
        BY <2>2, <2>3, <3>1
    <2> QED
      BY <1>4, <2>5, <2>6, <2>8, <2>9, <2>10 DEF RelayStep, RelayFault
  <1> QED
    BY <1>1, <1>2, <1>3, <1>4
    DEF Next, Relaying, Consuming, Receipting, RetentionStep, StartPurge, PurgeMarks,
        FailPurge, Surroundings, vars, relayVars

-----------------------------------------------------------------------------
(* The messages.                                                           *)

\* What a step may do to a message: send it for a row that is pending, pass it
\* on, or settle it when the work on its event is done.
Moved(c) ==
    \/ copies'[c] = copies[c]
    \/ /\ copies[c].at = "unsent" /\ copies'[c].at \in {"ready", "unroutable"}
       /\ \/ copies'[c].event = Garbage
          \/ copies'[c].event \in Events /\ Pending(copies'[c].event)
    \/ /\ copies'[c].event = copies[c].event
       /\ copies[c].at \in {"ready", "held"} /\ copies'[c].at \in {"ready", "held", "dlq"}
    \/ /\ copies'[c].event = copies[c].event
       /\ copies[c].at = "held" /\ copies'[c].at = "acked"
       /\ copies[c].event \in confirmed /\ added[copies[c].event] > 0

LEMMA ReturnedMoves ==
    ASSUME NEW copy \in CopyType
    PROVE  Returned(copy).event = copy.event /\ Returned(copy).at \in {"ready", "dlq"}
  BY DEF Returned, CopyType

LEMMA StoreMoves ==
    ASSUME TypeOK, NEW content, Store(content),
           content = Garbage \/ (content \in Events /\ Pending(content))
    PROVE  /\ \A c \in Copies : Moved(c)
           /\ \E c \in Copies : copies'[c].event = content
                                /\ copies'[c].at \in {"ready", "unroutable"}
  <1>1. copies \in [Copies -> CopyType]
    BY DEF TypeOK, BrokerTypeOK, CopyType
  <1>2. PICK d \in Copies :
          /\ copies[d].at = "unsent"
          /\ copies' = [copies EXCEPT ![d] = [event |-> content, at |-> Routed, returns |-> 0]]
    BY DEF Store, IsNextCopy
  <1>3. Routed \in {"ready", "unroutable"}
    BY DEF Routed
  <1>4. copies'[d].event = content /\ copies'[d].at \in {"ready", "unroutable"}
    BY <1>1, <1>2, <1>3
  <1>5. \A c \in Copies \ {d} : copies'[c] = copies[c]
    BY <1>1, <1>2
  <1> QED
    BY <1>2, <1>4, <1>5 DEF Moved

LEMMA ReturnAllMoves ==
    ASSUME IInv, NEW H \in SUBSET Handlers, ReturnAll(H)
    PROVE  \A c \in Copies : Moved(c)
  <1>1. copies \in [Copies -> CopyType]
    BY DEF IInv, TypeOK, BrokerTypeOK, CopyType
  <1>2. \A c \in HeldBy(H) : copies[c].at = "held"
    BY DEF HeldBy, IInv, Deliveries
  <1>3. ASSUME NEW c \in Copies PROVE Moved(c)
    <2>1. CASE c \in HeldBy(H)
      <3>1. copies'[c] = Returned(copies[c])
        BY <2>1 DEF ReturnAll
      <3>2. copies'[c].event = copies[c].event /\ copies'[c].at \in {"ready", "dlq"}
        BY <1>1, <3>1, ReturnedMoves
      <3> QED
        BY <1>2, <2>1, <3>2 DEF Moved
    <2>2. CASE c \notin HeldBy(H)
      BY <2>2 DEF ReturnAll, Moved
    <2> QED
      BY <2>1, <2>2
  <1> QED
    BY <1>3

LEMMA DisposedMoves ==
    ASSUME IInv, NEW h \in Handlers, handler[h].pc # "free", NEW transient \in BOOLEAN,
           copies' = copies \/ copies' = Disposed(h, transient)
    PROVE  \A c \in Copies : Moved(c)
  <1>1. copies \in [Copies -> CopyType]
    BY DEF IInv, TypeOK, BrokerTypeOK, CopyType
  <1>2. CASE copies' = copies
    BY <1>2 DEF Moved
  <1>3. CASE copies' = Disposed(h, transient) /\ handler[h].live
    <2> DEFINE d == handler[h].copy
    <2>1. d \in Copies /\ copies[d].at = "held"
      BY <1>3 DEF IInv, Deliveries
    <2>2. \/ copies' = [copies EXCEPT ![d] = Returned(copies[d])]
          \/ copies' = [copies EXCEPT ![d].at = "dlq"]
      BY <1>3 DEF Disposed
    <2> HIDE DEF d
    <2>3. copies'[d].event = copies[d].event /\ copies'[d].at \in {"ready", "dlq"}
      <3>1. CASE copies' = [copies EXCEPT ![d] = Returned(copies[d])]
        <4>1. copies'[d] = Returned(copies[d])
          BY <1>1, <2>1, <3>1
        <4> QED
          BY <1>1, <2>1, <4>1, ReturnedMoves
      <3>2. CASE copies' = [copies EXCEPT ![d].at = "dlq"]
        BY <1>1, <2>1, <3>2 DEF CopyType
      <3> QED
        BY <2>2, <3>1, <3>2
    <2>4. \A c \in Copies \ {d} : copies'[c] = copies[c]
      BY <1>1, <2>1, <2>2
    <2> QED
      BY <2>1, <2>3, <2>4 DEF Moved
  <1>4. CASE copies' = Disposed(h, transient) /\ ~handler[h].live
    BY <1>4 DEF Disposed, Moved
  <1> QED
    BY <1>2, <1>3, <1>4

LEMMA CopiesMove == IInv /\ [Next]_vars => \A c \in Copies : Moved(c)
  <1> SUFFICES ASSUME IInv, [Next]_vars PROVE \A c \in Copies : Moved(c)
    OBVIOUS
  <1>0. TypeOK /\ copies \in [Copies -> CopyType]
    BY DEF IInv, TypeOK, BrokerTypeOK, CopyType
  <1>1. CASE UNCHANGED copies
    BY <1>1 DEF Moved
  <1>2. ASSUME NEW r \in Relays, PublishStored(r)
        PROVE  \A c \in Copies : Moved(c)
    <2>1. PICK e \in Events : e \in relay[r].batch /\ Store(e)
      BY <1>2 DEF PublishStored, NextRow
    <2>2. Pending(e)
      BY <2>1 DEF IInv, Claims
    <2> QED
      BY <1>0, <2>1, <2>2, StoreMoves
  <1>3. CASE PublishGarbage
    BY <1>0, <1>3, StoreMoves DEF PublishGarbage
  <1>4. ASSUME NEW p \in Consumers,
               Shutdown(p) \/ LoseConnection(p) \/ CrashConsumer(p)
        PROVE  \A c \in Copies : Moved(c)
    <2>1. ReturnAll(HandlersOf(p)) /\ HandlersOf(p) \in SUBSET Handlers
      BY <1>4 DEF Shutdown, LoseConnection, ChannelEnds, CrashConsumer, HandlersOf
    <2> QED
      BY <2>1, ReturnAllMoves
  <1>5. ASSUME NEW h \in Handlers, Deliver(h)
        PROVE  \A c \in Copies : Moved(c)
    <2>1. PICK d \in Copies, place \in {"held", "dlq"} :
            copies[d].at = "ready" /\ copies' = [copies EXCEPT ![d].at = place]
      BY <1>5 DEF Deliver
    <2>2. copies'[d].event = copies[d].event /\ copies'[d].at = place
      BY <1>0, <2>1 DEF CopyType
    <2>3. \A c \in Copies \ {d} : copies'[c] = copies[c]
      BY <1>0, <2>1
    <2> QED
      BY <2>1, <2>2, <2>3 DEF Moved
  <1>6. ASSUME NEW h \in Handlers, Ack(h), handler[h].live
        PROVE  \A c \in Copies : Moved(c)
    <2> DEFINE d == handler[h].copy
    <2>1. /\ d \in Copies /\ copies[d].at = "held"
          /\ copies[d].event \in confirmed /\ added[copies[d].event] > 0
          /\ copies' = [copies EXCEPT ![d].at = "acked"]
      BY <1>6 DEF Ack, IInv, Deliveries, Work, EventOf
    <2> HIDE DEF d
    <2>2. copies'[d].event = copies[d].event /\ copies'[d].at = "acked"
      BY <1>0, <2>1 DEF CopyType
    <2>3. \A c \in Copies \ {d} : copies'[c] = copies[c]
      BY <1>0, <2>1
    <2> QED
      BY <2>1, <2>2, <2>3 DEF Moved
  <1>7. ASSUME NEW h \in Handlers, DbError(h) \/ ApplyUnheard(h) \/ EnqueueFails(h)
        PROVE  \A c \in Copies : Moved(c)
    <2>1. /\ handler[h].pc # "free"
          /\ \E transient \in BOOLEAN :
               copies' = copies \/ copies' = Disposed(h, transient)
      BY <1>7 DEF DbError, ApplyUnheard, EnqueueFails, RetryOrFail
    <2> QED
      BY <2>1, DisposedMoves
  <1>8. ASSUME NEW h \in Handlers, InsertMark(h) \/ Apply(h) \/ EnqueueReceipt(h)
        PROVE  UNCHANGED copies
    BY <1>8 DEF InsertMark, Apply, EnqueueReceipt, brokerVars
  <1>9. ASSUME NEW h \in Handlers, Ack(h), ~handler[h].live
        PROVE  UNCHANGED copies
    BY <1>9 DEF Ack
  <1>10. ASSUME NEW p \in Consumers, ConsumerStep(p) \/ CancelConsumer(p)
         PROVE  UNCHANGED copies
    BY <1>10 DEF ConsumerStep, CancelConsumer, StartConsumer, DeclareTopology, AssertTopology, ExitConsumer,
                 brokerVars
  <1>11. CASE Consuming
    BY <1>1, <1>4, <1>5, <1>6, <1>7, <1>8, <1>9, <1>10, <1>11
    DEF Consuming, HandlerStep, ConsumerFault
  <1>12. ASSUME NEW r \in Relays, RelayStep(r) \/ RelayFault(r), ~PublishStored(r)
         PROVE  UNCHANGED copies
    BY <1>12 DEF RelayStep, RelayFault, StartRelay, ClaimBatch, PublishNoExchange,
                 PublishClosed, Drained, MarkBatch, SettleClosed, ReleaseDeadRelay,
                 PublishRefused, MarkUnheard, CloseRelayChannel, CrashRelay, brokerVars
  <1>13. CASE Relaying
    BY <1>1, <1>2, <1>12, <1>13 DEF Relaying, PlaceRow, brokerVars
  <1>14. CASE Receipting
    BY <1>1, <1>14 DEF Receipting, JobStep, JobFault, PickJob, CompleteJob, FailJob, StallJob,
                       OtherJobEnds, OtherReceiptEnds,
                       CronJobEnds, brokerVars
  <1>15. CASE RetentionStep
    BY <1>1, <1>15 DEF RetentionStep, StartPurge, PurgeRows, PurgeMarks, FailPurge, brokerVars
  <1>16. CASE Surroundings
    BY <1>1, <1>3, <1>16 DEF Surroundings, Tick
  <1> QED
    BY <1>1, <1>11, <1>13, <1>14, <1>15, <1>16 DEF Next, vars, brokerVars

-----------------------------------------------------------------------------
(* What is done stays done.                                                *)

\* An order that is placed, confirmed or has had a job stays so.
LEMMA ConfirmedGrows == ASSUME [Next]_vars PROVE confirmed \subseteq confirmed'
  <1>1. ASSUME NEW e, CommitEffect(e) PROVE confirmed \subseteq confirmed'
    BY <1>1 DEF CommitEffect
  <1>2. CASE Consuming
    BY <1>1, <1>2
    DEF Consuming, ConsumerStep, HandlerStep, ConsumerFault, StartConsumer, DeclareTopology,
        ExitConsumer, Shutdown, LoseConnection, CancelConsumer, ChannelEnds,
          CrashConsumer, ProcessEnds, Deliver, InsertMark, Apply,
        EnqueueReceipt, Ack, DbError, ApplyUnheard, EnqueueFails
  <1>3. CASE Relaying \/ Receipting \/ Surroundings \/ UNCHANGED vars
    BY <1>3 DEF Relaying, Receipting, Surroundings, vars, consumerVars
  <1>4. CASE RetentionStep
    BY <1>4 DEF RetentionStep, StartPurge, PurgeRows, PurgeMarks, FailPurge, consumerVars
  <1> QED
    BY <1>2, <1>3, <1>4 DEF Next

\* A job is added for the event of a handler whose effect is applied, or not
\* at all, and only where there is none.
LEMMA JobsAdded ==
    ASSUME TypeOK, [Next]_vars
    PROVE  \/ UNCHANGED added
           \/ \E h \in Handlers :
                /\ handler[h].pc = "after" /\ jobs[EventOf(h)].state = "absent"
                /\ jobs' = [jobs EXCEPT ![EventOf(h)] = Waiting]
                /\ added' = [added EXCEPT ![EventOf(h)] = @ + 1]
                /\ UNCHANGED <<sent, inbox, confirmed, commits, outbox>>
  <1>1. CASE Consuming
    <2>1. ASSUME NEW h \in Handlers, EnqueueReceipt(h) \/ EnqueueFails(h), added' # added
          PROVE  /\ handler[h].pc = "after" /\ jobs[EventOf(h)].state = "absent"
                 /\ jobs' = [jobs EXCEPT ![EventOf(h)] = Waiting]
                 /\ added' = [added EXCEPT ![EventOf(h)] = @ + 1]
                 /\ UNCHANGED <<sent, inbox, confirmed, commits, outbox>>
      BY <1>1, <2>1 DEF EnqueueReceipt, EnqueueFails, AddJob, jobVars, Consuming, relayVars
    <2>2. CASE \E h \in Handlers : EnqueueReceipt(h) \/ EnqueueFails(h)
      BY <2>1, <2>2
    <2>3. CASE ~\E h \in Handlers : EnqueueReceipt(h) \/ EnqueueFails(h)
      BY <1>1, <2>3
      DEF Consuming, ConsumerStep, HandlerStep, ConsumerFault, StartConsumer,
          DeclareTopology, ExitConsumer, Shutdown, LoseConnection, CancelConsumer, ChannelEnds,
          CrashConsumer, ProcessEnds, Deliver,
          InsertMark, Apply, Ack, DbError, ApplyUnheard, jobVars
    <2> QED
      BY <2>2, <2>3
  <1>2. CASE Receipting
    BY <1>2 DEF Receipting, JobStep, JobFault, PickJob, CompleteJob, FailJob, StallJob,
                OtherJobEnds, OtherReceiptEnds,
                       CronJobEnds
  <1>3. CASE RetentionStep
    BY <1>3 DEF RetentionStep, StartPurge, PurgeRows, PurgeMarks, FailPurge, jobVars
  <1>4. CASE Relaying \/ Surroundings \/ UNCHANGED vars
    BY <1>4 DEF Relaying, Surroundings, vars, jobVars
  <1> QED
    BY <1>1, <1>2, <1>3, <1>4 DEF Next

LEMMA AddedGrows ==
    ASSUME IInv, [Next]_vars, NEW e \in Events
    PROVE  added[e] <= added'[e]
  <1>1. added \in [Events -> Nat]
    BY DEF IInv, TypeOK, JobTypeOK
  <1>2. CASE UNCHANGED added
    BY <1>1, <1>2
  <1>3. ASSUME NEW f, added' = [added EXCEPT ![f] = @ + 1]
        PROVE  added[e] <= added'[e]
    BY <1>1, <1>3
  <1> QED
    BY <1>2, <1>3, JobsAdded DEF IInv

\* A row is published by the marking of a stored message only.
LEMMA RowsMove ==
    ASSUME IInv, [Next]_vars, NEW e \in Events
    PROVE  /\ Placed(e) => Placed(e)'
           /\ outbox'[e].state \in {"published", "purged"} =>
                \/ outbox[e].state \in {"published", "purged"}
                \/ \E r \in Relays : relay[r].sent[e] = "stored"
  <1>0. TypeOK /\ outbox \in [Events -> RowType] /\ relay \in [Relays -> RelayType]
    BY DEF IInv, TypeOK, RelayTypeOK, RowType, RelayType
  <1>1. CASE UNCHANGED outbox
    BY <1>1 DEF Placed
  <1>2. CASE PurgeRows
    BY <1>0, <1>2, PurgeKeepsPending DEF Placed
  <1>3. ASSUME NEW f \in Events, PlaceRow(f)
        PROVE  outbox'[e] = outbox[e] \/ (~Placed(e) /\ outbox'[e].state = "pending")
    <2>1. CASE e = f
      BY <1>0, <1>3, <2>1 DEF PlaceRow, RowType
    <2>2. CASE e # f
      BY <1>0, <1>3, <2>2 DEF PlaceRow
    <2> QED
      BY <2>1, <2>2
  <1>4. ASSUME NEW r \in Relays, outbox' = Marked(r)
        PROVE  \/ outbox'[e] = outbox[e]
               \/ outbox'[e].state = "published" /\ relay[r].sent[e] = "stored"
               \/ outbox'[e].state = outbox[e].state
    <2>1. CASE e \notin relay[r].batch
      BY <1>4, <2>1 DEF Marked
    <2>2. CASE e \in relay[r].batch /\ relay[r].sent[e] = "stored"
      BY <1>4, <2>2 DEF Marked
    <2>3. CASE e \in relay[r].batch /\ relay[r].sent[e] # "stored"
      <3>1. outbox'[e] = [outbox[e] EXCEPT !.attempts = @ + 1]
        BY <1>4, <2>3 DEF Marked
      <3> QED
        BY <1>0, <3>1 DEF RowType
    <2> QED
      BY <2>1, <2>2, <2>3
  <1>5. ASSUME NEW r \in Relays, RelayStep(r) \/ RelayFault(r)
        PROVE  outbox' = outbox \/ outbox' = Marked(r)
    BY <1>5 DEF RelayStep, RelayFault, StartRelay, ClaimBatch, PublishStored,
                PublishNoExchange, PublishClosed, Drained, MarkBatch, SettleClosed,
                ReleaseDeadRelay, PublishRefused, MarkUnheard, CloseRelayChannel, CrashRelay
  <1>6. CASE Relaying
    BY <1>1, <1>3, <1>4, <1>5, <1>6 DEF Relaying, Placed
  <1> QED
    BY <1>1, <1>2, <1>6
    DEF Next, Consuming, Receipting, RetentionStep, StartPurge, PurgeMarks, FailPurge,
        Surroundings, vars, relayVars

\* A message counts as stored when it was handed to the broker.
LEMMA SentMoves ==
    ASSUME IInv, [Next]_vars, NEW r \in Relays, NEW e \in Events, relay'[r].sent[e] = "stored"
    PROVE  \/ relay[r].sent[e] = "stored"
           \/ Store(e) /\ Pending(e)
  <1>0. TypeOK /\ relay \in [Relays -> RelayType]
    BY DEF IInv, TypeOK, RelayTypeOK, RelayType
  <1>1. CASE UNCHANGED relay
    BY <1>1
  <1>2. ASSUME NEW s \in Relays, RelayStep(s) \/ RelayFault(s)
        PROVE  relay[r].sent[e] = "stored" \/ (Store(e) /\ Pending(e))
    <2>1. CASE PublishStored(s) \/ PublishNoExchange(s) \/ PublishClosed(s)
               \/ PublishRefused(s)
      <3>1. PICK f \in Events, o \in {"stored", "refused", "closed"} :
              /\ f \in relay[s].batch
              /\ relay'[s].sent = [relay[s].sent EXCEPT ![f] = o]
              /\ \A t \in Relays \ {s} : relay'[t] = relay[t]
              /\ IF o = "stored" THEN Store(f) ELSE copies' = copies
        BY <1>0, <2>1, PublishStep
      <3>2. Pending(f)
        BY <3>1 DEF IInv, Claims
      <3>3. relay[s].sent \in [Events -> Outcomes]
        BY <1>0 DEF RelayType
      <3> QED
        BY <3>1, <3>2, <3>3
    <2>2. CASE StartRelay(s) \/ Drained(s) \/ CrashRelay(s) \/ CloseRelayChannel(s)
      <3>1. /\ relay'[s].sent = relay[s].sent
            /\ \A t \in Relays \ {s} : relay'[t] = relay[t]
        BY <1>0, <2>2 DEF StartRelay, Drained, CrashRelay, CloseRelayChannel, RelayType
      <3> QED
        BY <3>1
    <2>3. CASE ClaimBatch(s)
      <3>1. /\ relay'[s].sent = relay[s].sent
            /\ \A t \in Relays \ {s} : relay'[t] = relay[t]
        BY <1>0, <2>3 DEF ClaimBatch, RelayType
      <3> QED
        BY <3>1
    <2>4. CASE SettleClosed(s) \/ ReleaseDeadRelay(s) \/ MarkBatch(s) \/ MarkUnheard(s)
      <3>1. /\ relay'[s] \in {Idle(s), Down}
            /\ \A t \in Relays \ {s} : relay'[t] = relay[t]
        BY <1>0, <2>4 DEF SettleClosed, ReleaseDeadRelay, MarkBatch, MarkUnheard
      <3>2. Idle(s).sent = NothingSent /\ Down.sent = NothingSent
        BY <1>0 DEF Idle, Down, RelayType
      <3> QED
        BY <3>1, <3>2 DEF NothingSent
    <2> QED
      BY <1>2, <2>1, <2>2, <2>3, <2>4 DEF RelayStep, RelayFault
  <1> QED
    BY <1>1, <1>2
    DEF Next, Relaying, PlaceRow, Consuming, Receipting, RetentionStep, StartPurge,
        PurgeRows, PurgeMarks, FailPurge, Surroundings, vars, relayVars

-----------------------------------------------------------------------------
(* The parts of the invariant that are about messages.                     *)

\* A message leaves the broker only to be acknowledged, its work done.
LEMMA SafeStays ==
    ASSUME IInv, [Next]_vars, NEW e \in Events, Safe(e)
    PROVE  Safe(e)'
  <1>1. CASE e \in confirmed
    BY <1>1, ConfirmedGrows DEF Safe
  <1>2. CASE e \notin confirmed
    <2>1. PICK c \in Copies : /\ copies[c].event = e
                              /\ copies[c].at \in {"ready", "held", "dlq", "unroutable"}
      BY <1>2 DEF Safe, At, CopiesOf
    <2>2. Moved(c)
      BY CopiesMove
    <2>3. /\ copies'[c].event = e
          /\ copies'[c].at \in {"ready", "held", "dlq", "unroutable"}
      BY <1>2, <2>1, <2>2 DEF Moved
    <2> QED
      BY <2>3 DEF Safe, At, CopiesOf
  <1> QED
    BY <1>1, <1>2

LEMMA PublishesPreserved == IInv /\ [Next]_vars => Publishes'
  <1> SUFFICES ASSUME IInv, [Next]_vars PROVE Publishes'
    OBVIOUS
  <1>1. ASSUME NEW r \in Relays, NEW e \in Events, relay'[r].sent[e] = "stored"
        PROVE  Safe(e)'
    <2>1. CASE relay[r].sent[e] = "stored"
      BY <2>1, SafeStays DEF IInv, Publishes
    <2>2. CASE Store(e) /\ Pending(e)
      <3>1. PICK c \in Copies : /\ copies'[c].event = e
                                /\ copies'[c].at \in {"ready", "unroutable"}
        BY <2>2, StoreMoves DEF IInv
      <3> QED
        BY <3>1 DEF Safe, At, CopiesOf
    <2> QED
      BY <1>1, <2>1, <2>2, SentMoves
  <1>2. ASSUME NEW e \in Events, outbox'[e].state \in {"published", "purged"}
        PROVE  Safe(e)'
    <2>1. Safe(e)
      BY <1>2, RowsMove DEF IInv, Publishes, NoEventLost, Safe
    <2> QED
      BY <2>1, SafeStays
  <1>3. NoEventLost'
    BY <1>2 DEF NoEventLost, Safe
  <1> QED
    BY <1>1, <1>3 DEF Publishes

LEMMA MessagesPreserved == IInv /\ [Next]_vars => Messages'
  <1> SUFFICES ASSUME IInv, [Next]_vars, NEW c \in Copies, copies'[c].at # "unsent",
                      copies'[c].event # Garbage
               PROVE  /\ copies'[c].event \in Events
                      /\ outbox'[copies'[c].event].state # "absent"
    BY DEF Messages, Placed
  <1>1. Moved(c)
    BY CopiesMove
  <1>2. CASE copies'[c].event = copies[c].event /\ copies[c].at # "unsent"
    <2>1. copies[c].event \in Events /\ Placed(copies[c].event)
      BY <1>2 DEF IInv, Messages
    <2> QED
      BY <1>2, <2>1, RowsMove DEF Placed
  <1>3. CASE copies'[c].event \in Events /\ Pending(copies'[c].event)
    <2>1. Placed(copies'[c].event)
      BY <1>3 DEF Pending, Placed
    <2> QED
      BY <1>3, <2>1, RowsMove DEF Placed
  <1> QED
    BY <1>1, <1>2, <1>3 DEF Moved

LEMMA AckedPreserved == IInv /\ [Next]_vars => AckedIsDone'
  <1> SUFFICES ASSUME IInv, [Next]_vars, NEW c \in Copies, copies'[c].at = "acked"
               PROVE  copies'[c].event \in confirmed' /\ added'[copies'[c].event] > 0
    BY DEF AckedIsDone
  <1>1. Moved(c)
    BY CopiesMove
  <1>2. /\ copies'[c].event = copies[c].event
        /\ copies[c].event \in confirmed /\ added[copies[c].event] > 0
    BY <1>1 DEF Moved, IInv, Work, AckedIsDone
  <1>3. copies[c].event \in Events
    BY <1>2 DEF IInv, TypeOK, ConsumerTypeOK
  <1>4. /\ added[copies[c].event] <= added'[copies[c].event]
        /\ added[copies[c].event] \in Nat /\ added'[copies[c].event] \in Nat
    BY <1>3, AddedGrows, TypePreserved DEF IInv, TypeOK, JobTypeOK
  <1> QED
    BY <1>2, <1>4, ConfirmedGrows

-----------------------------------------------------------------------------
(* Which handler has which message.                                        *)

LEMMA SentStays ==
    ASSUME IInv, [Next]_vars
    PROVE  \A c \in Copies : copies[c].at # "unsent" =>
             copies'[c].event = copies[c].event /\ copies'[c].at # "unsent"
  BY CopiesMove DEF Moved

\* Handlers that stay as they are, but for the statement they have reached.
LEMMA DeliveriesStay ==
    ASSUME IInv, [Next]_vars, TypeOK',
           \A c \in Copies : copies'[c].at = "held" <=> copies[c].at = "held",
           \A p \in Consumers : consumer[p] \in {"up", "cancelled"} =>
                                  consumer'[p] \in {"up", "cancelled"},
           \A h \in Handlers : /\ handler'[h].copy = handler[h].copy
                               /\ handler'[h].live = handler[h].live
                               /\ handler'[h].pc = "free" <=> handler[h].pc = "free"
    PROVE  Deliveries'
  <1>1. \A h \in Handlers : ProcessOf[h] \in Consumers
    BY ConsumerAssumption
  <1>2. Deliveries
    BY DEF IInv
  <1>3. \A h \in Handlers : handler[h].pc # "free" =>
          /\ copies'[handler[h].copy].event = copies[handler[h].copy].event
          /\ copies'[handler[h].copy].at # "unsent"
    BY <1>2, SentStays DEF Deliveries
  <1>4. \A h \in Handlers : handler[h].live => handler[h].pc # "free"
    BY <1>2 DEF Deliveries
  <1>5. \A h \in Handlers : handler[h].live => handler[h].copy \in Copies
    BY <1>2, <1>4 DEF Deliveries
  <1> QED
    BY <1>1, <1>2, <1>3, <1>4, <1>5 DEF Deliveries, EventOf

\* A handler that ends gives its message away, if its channel lives.
LEMMA DeliveriesEnd ==
    ASSUME IInv, [Next]_vars, TypeOK',
           NEW h \in Handlers, handler[h].pc # "free",
           handler' = [handler EXCEPT ![h] = Free],
           UNCHANGED consumer,
           handler[h].live => copies'[handler[h].copy].at # "held",
           \A c \in Copies : ~(handler[h].live /\ c = handler[h].copy) =>
                               copies'[c] = copies[c]
    PROVE  Deliveries'
  <1>1. Deliveries /\ handler \in [Handlers -> HandlerType]
    BY DEF IInv, TypeOK, ConsumerTypeOK, HandlerType
  <1>2. /\ handler'[h] = Free /\ Free.pc = "free" /\ ~Free.live
        /\ \A g \in Handlers \ {h} : handler'[g] = handler[g]
    BY <1>1 DEF Free
  <1>3. ASSUME NEW g \in Handlers \ {h}, handler[g].pc # "free"
        PROVE  /\ handler[g].copy \in Copies
               /\ copies'[handler[g].copy].at # "unsent"
               /\ copies'[handler[g].copy].event \in Events
    BY <1>1, <1>3, SentStays DEF Deliveries, EventOf
  <1>4. ASSUME NEW g \in Handlers \ {h}, handler[g].live
        PROVE  /\ consumer'[ProcessOf[g]] \in {"up", "cancelled"}
               /\ copies'[handler[g].copy].at = "held"
    <2>1. handler[g].copy \in Copies /\ copies[handler[g].copy].at = "held"
      BY <1>1, <1>4 DEF Deliveries
    <2>2. ~(handler[h].live /\ handler[g].copy = handler[h].copy)
      BY <1>1, <1>4 DEF Deliveries
    <2> QED
      BY <1>1, <1>4, <2>1, <2>2 DEF Deliveries
  <1>5. ASSUME NEW c \in Copies, copies'[c].at = "held"
        PROVE  \E g \in Handlers : handler'[g].live /\ handler'[g].copy = c
    <2>1. ~(handler[h].live /\ c = handler[h].copy)
      BY <1>5
    <2>2. PICK g \in Handlers : handler[g].live /\ handler[g].copy = c
      BY <1>1, <1>5, <2>1 DEF Deliveries
    <2> QED
      BY <1>2, <2>1, <2>2
  <1> QED
    BY <1>1, <1>2, <1>3, <1>4, <1>5 DEF Deliveries, EventOf

\* The channel of a process goes: its handlers give away what they have.
LEMMA DeliveriesLost ==
    ASSUME IInv, [Next]_vars, TypeOK', NEW p \in Consumers,
           \A q \in Consumers \ {p} : consumer'[q] = consumer[q],
           \A h \in HandlersOf(p) : \/ handler'[h] = Free
                                    \/ handler'[h] = [handler[h] EXCEPT !.live = FALSE],
           \A h \in Handlers \ HandlersOf(p) : handler'[h] = handler[h],
           \A c \in Copies : IF c \in HeldBy(HandlersOf(p)) THEN copies'[c].at # "held"
                             ELSE copies'[c] = copies[c]
    PROVE  Deliveries'
  <1>1. Deliveries /\ handler \in [Handlers -> HandlerType]
    BY DEF IInv, TypeOK, ConsumerTypeOK, HandlerType
  <1>2. ASSUME NEW h \in HandlersOf(p)
        PROVE  /\ ~handler'[h].live
               /\ handler'[h].pc # "free" => /\ handler[h].pc # "free"
                                             /\ handler'[h].copy = handler[h].copy
    <2>1. handler[h] \in HandlerType
      BY <1>1 DEF HandlersOf
    <2>2. CASE handler'[h] = Free
      BY <2>2 DEF Free
    <2>3. CASE handler'[h] = [handler[h] EXCEPT !.live = FALSE]
      BY <2>1, <2>3 DEF HandlerType
    <2> QED
      BY <2>2, <2>3
  <1>3. \A h \in Handlers : handler'[h].pc # "free" =>
          handler[h].pc # "free" /\ handler'[h].copy = handler[h].copy
    BY <1>2
  <1>4. ASSUME NEW h \in Handlers, handler'[h].pc # "free"
        PROVE  /\ handler'[h].copy \in Copies
               /\ copies'[handler'[h].copy].at # "unsent"
               /\ copies'[handler'[h].copy].event \in Events
    BY <1>1, <1>3, <1>4, SentStays DEF Deliveries, EventOf
  <1>5. \A h \in Handlers : handler'[h].live => h \notin HandlersOf(p)
    BY <1>2
  <1>6. ASSUME NEW h \in Handlers, handler'[h].live
        PROVE  /\ consumer'[ProcessOf[h]] \in {"up", "cancelled"}
               /\ copies'[handler'[h].copy].at = "held"
    <2>1. /\ handler'[h] = handler[h] /\ handler[h].live /\ handler[h].copy \in Copies
          /\ ProcessOf[h] \in Consumers \ {p}
      BY <1>1, <1>5, <1>6, ConsumerAssumption DEF Deliveries, HandlersOf
    <2>2. handler[h].copy \notin HeldBy(HandlersOf(p))
      BY <1>1, <1>5, <1>6, <2>1 DEF Deliveries, HeldBy, HandlersOf
    <2> QED
      BY <1>1, <2>1, <2>2 DEF Deliveries
  <1>7. ASSUME NEW c \in Copies, copies'[c].at = "held"
        PROVE  \E h \in Handlers : handler'[h].live /\ handler'[h].copy = c
    <2>1. c \notin HeldBy(HandlersOf(p)) /\ copies[c].at = "held"
      BY <1>7
    <2>2. PICK h \in Handlers : handler[h].live /\ handler[h].copy = c
      BY <1>1, <2>1 DEF Deliveries
    <2>3. h \notin HandlersOf(p)
      BY <2>1, <2>2 DEF HeldBy
    <2> QED
      BY <2>2, <2>3
  <1>8. \A h \in Handlers : handler'[h].pc = "free" => ~handler'[h].live
    BY <1>1, <1>5 DEF Deliveries
  <1>9. \A g, h \in Handlers :
          handler'[g].live /\ handler'[h].live /\ handler'[g].copy = handler'[h].copy => g = h
    BY <1>1, <1>5 DEF Deliveries
  <1> QED
    BY <1>4, <1>6, <1>7, <1>8, <1>9 DEF Deliveries, EventOf

\* A delivery gives the message to a handler that had none.
LEMMA DeliveriesBegin ==
    ASSUME IInv, [Next]_vars, TypeOK', NEW h \in Handlers, Deliver(h)
    PROVE  Deliveries'
  <1>1. /\ Deliveries /\ handler \in [Handlers -> HandlerType]
        /\ copies \in [Copies -> CopyType]
    BY DEF IInv, TypeOK, ConsumerTypeOK, HandlerType, BrokerTypeOK, CopyType
  <1>2. PICK c \in Copies :
          /\ copies[c].at = "ready"
          /\ IF copies[c].event = Garbage
             THEN /\ copies' = [copies EXCEPT ![c].at = "dlq"]
                  /\ UNCHANGED handler
             ELSE /\ copies' = [copies EXCEPT ![c].at = "held"]
                  /\ handler' = [handler EXCEPT ![h] =
                                   [pc |-> "mark", copy |-> c, try |-> 1, live |-> TRUE]]
    BY DEF Deliver
  <1>3. consumer[ProcessOf[h]] = "up" /\ handler[h].pc = "free" /\ UNCHANGED consumer
    BY DEF Deliver
  <1>4. CASE copies[c].event = Garbage
    <2>1. \A d \in Copies : copies'[d].at = "held" <=> copies[d].at = "held"
      BY <1>1, <1>2, <1>4 DEF CopyType
    <2> QED
      BY <1>2, <1>3, <1>4, <2>1, DeliveriesStay
  <1>5. CASE copies[c].event # Garbage
    <2>1. /\ handler'[h].pc = "mark" /\ handler'[h].copy = c /\ handler'[h].live
          /\ \A g \in Handlers \ {h} : handler'[g] = handler[g]
      BY <1>1, <1>2, <1>5
    <2>2. /\ copies'[c].at = "held" /\ copies'[c].event = copies[c].event
          /\ \A d \in Copies \ {c} : copies'[d] = copies[d]
      BY <1>1, <1>2, <1>5 DEF CopyType
    <2>3. copies[c].event \in Events
      BY <1>2, <1>5 DEF IInv, Messages
    <2>4. \A g \in Handlers \ {h} : handler[g].live => handler[g].copy # c
      BY <1>1, <1>2 DEF Deliveries
    <2>5. \A g \in Handlers : handler'[g].pc = "free" => ~handler'[g].live
      BY <1>1, <2>1 DEF Deliveries
    <2>6. ASSUME NEW g \in Handlers, handler'[g].pc # "free"
          PROVE  /\ handler'[g].copy \in Copies
                 /\ copies'[handler'[g].copy].at # "unsent"
                 /\ copies'[handler'[g].copy].event \in Events
      <3>1. CASE g = h
        BY <2>1, <2>2, <2>3, <3>1
      <3>2. CASE g # h
        BY <1>1, <2>1, <2>6, <3>2, SentStays DEF Deliveries, EventOf
      <3> QED
        BY <3>1, <3>2
    <2>7. ASSUME NEW g \in Handlers, handler'[g].live
          PROVE  consumer'[ProcessOf[g]] \in {"up", "cancelled"} /\ copies'[handler'[g].copy].at = "held"
      <3>1. CASE g = h
        BY <1>3, <2>1, <2>2, <3>1
      <3>2. CASE g # h
        BY <1>1, <1>3, <2>1, <2>2, <2>4, <2>5, <2>6, <2>7, <3>2 DEF Deliveries
      <3> QED
        BY <3>1, <3>2
    <2>8. \A f, g \in Handlers :
            /\ handler'[f].live /\ handler'[g].live
            /\ handler'[f].copy = handler'[g].copy
            => f = g
      BY <1>1, <2>1, <2>4 DEF Deliveries
    <2>9. ASSUME NEW d \in Copies, copies'[d].at = "held"
          PROVE  \E g \in Handlers : handler'[g].live /\ handler'[g].copy = d
      <3>1. CASE d = c
        BY <2>1, <3>1
      <3>2. CASE d # c
        <4>1. PICK g \in Handlers : handler[g].live /\ handler[g].copy = d
          BY <1>1, <2>2, <2>9, <3>2 DEF Deliveries
        <4>2. g # h
          BY <1>1, <1>3, <4>1 DEF Deliveries
        <4> QED
          BY <2>1, <4>1, <4>2
      <3> QED
        BY <3>1, <3>2
    <2> QED
      BY <2>5, <2>6, <2>7, <2>8, <2>9 DEF Deliveries, EventOf
  <1> QED
    BY <1>4, <1>5

LEMMA DeliveriesPreserved == IInv /\ [Next]_vars => Deliveries'
  <1> SUFFICES ASSUME IInv, [Next]_vars PROVE Deliveries'
    OBVIOUS
  <1>0. /\ TypeOK /\ TypeOK' /\ Deliveries /\ handler \in [Handlers -> HandlerType]
        /\ consumer \in [Consumers -> ConsumerStates]
        /\ copies \in [Copies -> CopyType]
    BY TypePreserved
    DEF IInv, TypeOK, ConsumerTypeOK, ConsumerStates, HandlerType, BrokerTypeOK, CopyType
  <1>1. CASE UNCHANGED <<handler, consumer, copies>>
    BY <1>0, <1>1, DeliveriesStay
  <1>2. ASSUME NEW content, Store(content), UNCHANGED <<handler, consumer>>
        PROVE  Deliveries'
    <2>1. \A c \in Copies : copies'[c].at = "held" <=> copies[c].at = "held"
      BY <1>0, <1>2 DEF Store, IsNextCopy, Routed, CopyType
    <2> QED
      BY <1>0, <1>2, <2>1, DeliveriesStay
  <1>3. ASSUME NEW p \in Consumers,
               StartConsumer(p) \/ DeclareTopology(p) \/ CancelConsumer(p)
        PROVE  Deliveries'
    <2>1. UNCHANGED <<handler, copies>>
      BY <1>3 DEF StartConsumer, DeclareTopology, CancelConsumer, AssertTopology, brokerVars
    <2>2. \A q \in Consumers : consumer[q] \in {"up", "cancelled"} =>
                                 consumer'[q] \in {"up", "cancelled"}
      BY <1>0, <1>3 DEF StartConsumer, DeclareTopology, CancelConsumer
    <2> QED
      BY <1>0, <2>1, <2>2, DeliveriesStay
  <1>4. ASSUME NEW p \in Consumers,
               \/ Shutdown(p) \/ LoseConnection(p)
               \/ CrashConsumer(p) \/ ExitConsumer(p)
        PROVE  Deliveries'
    <2>1. \A q \in Consumers \ {p} : consumer'[q] = consumer[q]
      BY <1>0, <1>4 DEF Shutdown, LoseConnection, CrashConsumer, ExitConsumer, ProcessEnds
    <2>2. /\ \A h \in HandlersOf(p) : \/ handler'[h] = Free
                                      \/ handler'[h] = [handler[h] EXCEPT !.live = FALSE]
          /\ \A h \in Handlers \ HandlersOf(p) : handler'[h] = handler[h]
      BY <1>4 DEF Shutdown, LoseConnection, ChannelEnds, CrashConsumer, ExitConsumer,
                  ProcessEnds, HandlersOf
    <2>3. CASE ReturnAll(HandlersOf(p))
      <3>1. \A c \in HeldBy(HandlersOf(p)) : c \in Copies => copies'[c].at # "held"
        BY <1>0, <2>3, ReturnedMoves DEF ReturnAll
      <3>2. \A c \in Copies : c \notin HeldBy(HandlersOf(p)) => copies'[c] = copies[c]
        BY <2>3 DEF ReturnAll
      <3> QED
        BY <1>0, <2>1, <2>2, <3>1, <3>2, DeliveriesLost
    <2>4. CASE consumer[p] = "closing" /\ UNCHANGED copies
      <3>1. HeldBy(HandlersOf(p)) = {}
        BY <1>0, <2>4 DEF HeldBy, HandlersOf, Deliveries
      <3> QED
        BY <1>0, <2>1, <2>2, <2>4, <3>1, DeliveriesLost
    <2> QED
      BY <1>4, <2>3, <2>4 DEF Shutdown, LoseConnection, ChannelEnds, CrashConsumer,
                              ExitConsumer, brokerVars
  <1>5. ASSUME NEW h \in Handlers, Deliver(h)
        PROVE  Deliveries'
    BY <1>0, <1>5, DeliveriesBegin
  <1>6. ASSUME NEW h \in Handlers, handler[h].pc # "free",
               NEW next \in HandlerType,
               next.copy = handler[h].copy, next.live = handler[h].live, next.pc # "free",
               handler' = [handler EXCEPT ![h] = next],
               UNCHANGED <<consumer, copies>>
        PROVE  Deliveries'
    <2>1. \A g \in Handlers : /\ handler'[g].copy = handler[g].copy
                              /\ handler'[g].live = handler[g].live
                              /\ handler'[g].pc = "free" <=> handler[g].pc = "free"
      BY <1>0, <1>6
    <2> QED
      BY <1>0, <1>6, <2>1, DeliveriesStay
  <1>7. ASSUME NEW h \in Handlers, InsertMark(h) \/ Apply(h) \/ EnqueueReceipt(h)
        PROVE  Deliveries'
    <2>1. PICK pc \in {"effect", "after", "ack"} : handler' = [handler EXCEPT ![h].pc = pc]
      BY <1>7 DEF InsertMark, Apply, EnqueueReceipt
    <2>2. handler' = [handler EXCEPT ![h] = [handler[h] EXCEPT !.pc = pc]]
      BY <1>0, <2>1
    <2>3. /\ [handler[h] EXCEPT !.pc = pc] \in HandlerType
          /\ [handler[h] EXCEPT !.pc = pc].copy = handler[h].copy
          /\ [handler[h] EXCEPT !.pc = pc].live = handler[h].live
          /\ [handler[h] EXCEPT !.pc = pc].pc # "free"
      BY <1>0 DEF HandlerType
    <2>4. handler[h].pc # "free" /\ UNCHANGED <<consumer, copies>>
      BY <1>7 DEF InsertMark, Apply, EnqueueReceipt, brokerVars
    <2> QED
      BY <1>6, <2>2, <2>3, <2>4
  <1>8. ASSUME NEW h \in Handlers, handler[h].pc # "free", UNCHANGED consumer,
               handler' = [handler EXCEPT ![h] = Free],
               NEW transient \in BOOLEAN, copies' = Disposed(h, transient)
        PROVE  Deliveries'
    <2> DEFINE d == handler[h].copy
    <2>1. CASE handler[h].live
      <3>1. d \in Copies
        BY <1>0, <2>1 DEF Deliveries
      <3>2. \/ copies' = [copies EXCEPT ![d] = Returned(copies[d])]
            \/ copies' = [copies EXCEPT ![d].at = "dlq"]
        BY <1>8, <2>1 DEF Disposed
      <3> HIDE DEF d
      <3>3. copies'[d].at # "held"
        <4>1. CASE copies' = [copies EXCEPT ![d] = Returned(copies[d])]
          BY <1>0, <3>1, <4>1, ReturnedMoves
        <4>2. CASE copies' = [copies EXCEPT ![d].at = "dlq"]
          BY <1>0, <3>1, <4>2 DEF CopyType
        <4> QED
          BY <3>2, <4>1, <4>2
      <3>4. \A c \in Copies \ {d} : copies'[c] = copies[c]
        BY <1>0, <3>1, <3>2
      <3> QED
        BY <1>0, <1>8, <2>1, <3>3, <3>4, DeliveriesEnd DEF d
    <2>2. CASE ~handler[h].live
      BY <1>0, <1>8, <2>2, DeliveriesEnd DEF Disposed
    <2> QED
      BY <2>1, <2>2
  <1>9. ASSUME NEW h \in Handlers, Ack(h)
        PROVE  Deliveries'
    <2>1. /\ handler[h].pc # "free" /\ handler' = [handler EXCEPT ![h] = Free]
          /\ UNCHANGED consumer
          /\ copies' = IF handler[h].live THEN [copies EXCEPT ![handler[h].copy].at = "acked"]
                       ELSE copies
      BY <1>9 DEF Ack
    <2>2. /\ handler[h].live => copies'[handler[h].copy].at # "held"
          /\ \A c \in Copies : ~(handler[h].live /\ c = handler[h].copy) =>
                                 copies'[c] = copies[c]
      <3>1. handler[h].copy \in Copies
        BY <1>0, <2>1 DEF Deliveries
      <3> QED
        BY <1>0, <2>1, <3>1 DEF CopyType
    <2> QED
      BY <1>0, <2>1, <2>2, DeliveriesEnd
  <1>10. ASSUME NEW h \in Handlers, NEW transient \in BOOLEAN,
                RetryOrFail(h, transient), handler[h].pc # "free", UNCHANGED consumer
         PROVE  Deliveries'
    <2>1. CASE transient /\ handler[h].try < LocalAttempts
      <3>1. PICK next \in HandlerType :
              /\ next.copy = handler[h].copy /\ next.live = handler[h].live
              /\ next.pc # "free"
              /\ handler' = [handler EXCEPT ![h] = next]
        <4> DEFINE next == [handler[h] EXCEPT !.pc = "mark", !.try = @ + 1]
        <4>1. next \in HandlerType
          BY <1>0, <2>1, HandlerTyped
        <4>2. /\ next.copy = handler[h].copy /\ next.live = handler[h].live
              /\ next.pc = "mark"
          BY <1>0 DEF HandlerType
        <4>3. handler' = [handler EXCEPT ![h] = next]
          BY <1>0, <1>10, <2>1 DEF RetryOrFail
        <4> HIDE DEF next
        <4> QED
          BY <4>1, <4>2, <4>3
      <3> QED
        BY <1>6, <1>10, <2>1, <3>1 DEF RetryOrFail
    <2>2. CASE ~(transient /\ handler[h].try < LocalAttempts)
      BY <1>8, <1>10, <2>2 DEF RetryOrFail
    <2> QED
      BY <2>1, <2>2
  <1>11. ASSUME NEW h \in Handlers, DbError(h) \/ ApplyUnheard(h) \/ EnqueueFails(h)
         PROVE  Deliveries'
    <2>1. handler[h].pc # "free" /\ UNCHANGED consumer
      BY <1>11 DEF DbError, ApplyUnheard, EnqueueFails
    <2>2. CASE DbError(h) \/ ApplyUnheard(h)
      BY <1>10, <2>1, <2>2 DEF DbError, ApplyUnheard
    <2>3. CASE EnqueueFails(h)
      BY <1>8, <2>1, <2>3 DEF EnqueueFails
    <2> QED
      BY <1>11, <2>2, <2>3
  <1>12. CASE Consuming
    BY <1>3, <1>4, <1>5, <1>7, <1>9, <1>11, <1>12
    DEF Consuming, ConsumerStep, HandlerStep, ConsumerFault
  <1>13. CASE Relaying
    <2>1. UNCHANGED <<handler, consumer>>
      BY <1>13 DEF Relaying, consumerVars
    <2>2. UNCHANGED copies \/ \E content : Store(content)
      BY <1>13
      DEF Relaying, PlaceRow, RelayStep, RelayFault, StartRelay, ClaimBatch, PublishStored,
          PublishNoExchange, PublishClosed, Drained, MarkBatch, SettleClosed,
          ReleaseDeadRelay, PublishRefused, MarkUnheard, CloseRelayChannel, CrashRelay,
          brokerVars
    <2> QED
      BY <1>1, <1>2, <2>1, <2>2
  <1>14. CASE Receipting
    BY <1>1, <1>14 DEF Receipting, JobStep, JobFault, PickJob, CompleteJob, FailJob, StallJob,
                       OtherJobEnds, OtherReceiptEnds,
                       CronJobEnds, brokerVars, consumerVars
  <1>15. CASE RetentionStep
    BY <1>1, <1>15 DEF RetentionStep, StartPurge, PurgeRows, PurgeMarks, FailPurge,
                       brokerVars, consumerVars
  <1>16. CASE Surroundings
    BY <1>1, <1>2, <1>16 DEF Surroundings, PublishGarbage, Tick, consumerVars
  <1> QED
    BY <1>1, <1>12, <1>13, <1>14, <1>15, <1>16 DEF Next, vars, brokerVars, consumerVars

-----------------------------------------------------------------------------
(* How far the work on an event is.                                        *)

\* Only the commit of a handler's transaction and the purge of marks touch
\* marks, confirmations and the count of commits.
LEMMA EffectsMove ==
    ASSUME [Next]_vars
    PROVE  \/ UNCHANGED <<inbox, confirmed, commits, forgotten>>
           \/ \E h \in Handlers : /\ handler[h].pc = "effect" /\ CommitEffect(EventOf(h))
                                  /\ UNCHANGED <<forgotten, added, outbox>>
           \/ PurgeMarks
  <1>1. CASE Consuming
    <2>1. CASE \E h \in Handlers : Apply(h) \/ ApplyUnheard(h)
      BY <1>1, <2>1 DEF Consuming, Apply, ApplyUnheard, retentionVars, relayVars, jobVars
    <2>2. CASE ~\E h \in Handlers : Apply(h) \/ ApplyUnheard(h)
      BY <1>1, <2>2
      DEF Consuming, ConsumerStep, HandlerStep, ConsumerFault, StartConsumer,
          DeclareTopology, ExitConsumer, Shutdown, LoseConnection, CancelConsumer, ChannelEnds,
          CrashConsumer, ProcessEnds, Deliver,
          InsertMark, EnqueueReceipt, Ack, DbError, EnqueueFails, retentionVars
    <2> QED
      BY <2>1, <2>2
  <1>2. CASE Relaying \/ Receipting \/ Surroundings \/ UNCHANGED vars
    BY <1>2 DEF Relaying, Receipting, Surroundings, vars, consumerVars, retentionVars
  <1>3. CASE RetentionStep
    BY <1>3 DEF RetentionStep, StartPurge, PurgeRows, FailPurge, consumerVars
  <1> QED
    BY <1>1, <1>2, <1>3 DEF Next

LEMMA MarksPreserved == IInv /\ [Next]_vars => MarkWithEffect'
  <1> SUFFICES ASSUME IInv, [Next]_vars PROVE MarkWithEffect'
    OBVIOUS
  <1>0. /\ inbox \in [Events -> 0 .. MaxDay \union {None}]
        /\ forgotten \in [Events -> Nat]
        /\ confirmed \subseteq Events /\ MarkWithEffect /\ day # None
    BY RelayAssumption
    DEF IInv, TypeOK, ConsumerTypeOK, RetentionTypeOK, BrokerTypeOK, Work
  <1>1. CASE UNCHANGED <<inbox, confirmed, commits, forgotten>>
    BY <1>0, <1>1 DEF MarkWithEffect
  <1>2. ASSUME NEW h \in Handlers, handler[h].pc = "effect", CommitEffect(EventOf(h)),
               UNCHANGED forgotten
        PROVE  MarkWithEffect'
    <2> DEFINE e == EventOf(h)
    <2>1. /\ e \in Events
          /\ inbox' = [inbox EXCEPT ![e] = day]
          /\ confirmed' = confirmed \union {e}
      BY <1>2 DEF CommitEffect, IInv, Deliveries
    <2> HIDE DEF e
    <2> QED
      BY <1>0, <1>2, <2>1 DEF MarkWithEffect
  <1>3. CASE PurgeMarks
    <2>1. PICK batch \in SUBSET OldMarks :
            /\ inbox' = [f \in Events |-> IF f \in batch THEN None ELSE inbox[f]]
            /\ forgotten' = [f \in Events |->
                                IF f \in batch THEN forgotten[f] + 1 ELSE forgotten[f]]
      BY <1>3 DEF PurgeMarks
    <2>2. confirmed' = confirmed
      BY <1>3 DEF PurgeMarks
    <2>3. \A f \in Events : forgotten'[f] = forgotten[f] \/ forgotten'[f] > 0
      BY <1>0, <2>1
    <2>4. \A f \in Events :
            /\ inbox'[f] # None => inbox[f] # None
            /\ inbox[f] # None => (inbox'[f] # None \/ forgotten'[f] > 0)
      BY <1>0, <2>1
    <2> QED
      BY <1>0, <2>2, <2>3, <2>4 DEF MarkWithEffect
  <1> QED
    BY <1>1, <1>2, <1>3, EffectsMove

\* A handler with its mark inserted stays alone with its event: others wait
\* for the mark, and only the handler's own end takes it back.
LEMMA MarkersMove ==
    ASSUME IInv, [Next]_vars, NEW h \in Handlers, handler'[h].pc = "effect"
    PROVE  /\ handler[h].pc # "free" /\ handler'[h].copy = handler[h].copy
           /\ marking'[EventOf(h)] = h
  <1>0. /\ handler \in [Handlers -> HandlerType]
        /\ marking \in [Events -> Handlers \union {None}] /\ None \notin Handlers
        /\ \A g \in Handlers : handler[g].pc = "effect" => marking[EventOf(g)] = g
        /\ \A g \in Handlers : handler[g].pc # "free" => EventOf(g) \in Events
    BY ConsumerAssumption
    DEF IInv, TypeOK, ConsumerTypeOK, HandlerType, Marking, Deliveries
  <1>1. CASE handler'[h] = handler[h] /\ marking'[EventOf(h)] = marking[EventOf(h)]
    BY <1>0, <1>1
  <1>2. CASE UNCHANGED <<handler, marking>>
    BY <1>1, <1>2
  <1>3. ASSUME NEW g \in Handlers, NEW pc, pc # "effect",
               handler' = [handler EXCEPT ![g].pc = pc]
        PROVE  g # h /\ handler'[h] = handler[h]
    BY <1>0, <1>3 DEF HandlerType
  <1>4. ASSUME NEW g \in Handlers, handler' = [handler EXCEPT ![g] = Free]
        PROVE  g # h /\ handler'[h] = handler[h]
    BY <1>0, <1>4 DEF Free
  <1>5. ASSUME NEW g \in Handlers, NEW transient \in BOOLEAN, RetryOrFail(g, transient)
        PROVE  g # h /\ handler'[h] = handler[h]
    <2>1. CASE transient /\ handler[g].try < LocalAttempts
      BY <1>0, <1>5, <2>1 DEF RetryOrFail, HandlerType
    <2>2. CASE ~(transient /\ handler[g].try < LocalAttempts)
      BY <1>4, <1>5, <2>2 DEF RetryOrFail
    <2> QED
      BY <2>1, <2>2
  <1>6. ASSUME NEW g \in Handlers, g # h, handler'[h] = handler[h],
               handler[g].pc = "effect", CommitEffect(EventOf(g))
        PROVE  marking'[EventOf(h)] = marking[EventOf(h)]
    <2>1. EventOf(g) # EventOf(h)
      BY <1>0, <1>6
    <2> QED
      BY <1>0, <1>6, <2>1 DEF CommitEffect
  <1>7. ASSUME NEW g \in Handlers, InsertMark(g)
        PROVE  /\ handler[h].pc # "free" /\ handler'[h].copy = handler[h].copy
               /\ marking'[EventOf(h)] = h
    <2>1. CASE inbox[EventOf(g)] # None
      BY <1>0, <1>1, <1>3, <1>7, <2>1 DEF InsertMark
    <2>2. CASE inbox[EventOf(g)] = None
      <3>1. /\ handler[g].pc = "mark" /\ marking[EventOf(g)] = None
            /\ marking' = [marking EXCEPT ![EventOf(g)] = g]
            /\ handler' = [handler EXCEPT ![g].pc = "effect"]
        BY <1>7, <2>2 DEF InsertMark
      <3>2. CASE g = h
        BY <1>0, <3>1, <3>2 DEF HandlerType
      <3>3. CASE g # h
        <4>1. handler'[h] = handler[h]
          BY <1>0, <3>1, <3>3
        <4>2. EventOf(h) # EventOf(g)
          BY <1>0, <3>1, <4>1
        <4> QED
          BY <1>0, <1>1, <3>1, <4>1, <4>2
      <3> QED
        BY <3>2, <3>3
    <2> QED
      BY <2>1, <2>2
  <1>8. ASSUME NEW p \in Consumers, ProcessEnds(p)
        PROVE  handler'[h] = handler[h] /\ marking'[EventOf(h)] = marking[EventOf(h)]
    <2>1. h \notin HandlersOf(p) /\ handler'[h] = handler[h]
      BY <1>8 DEF ProcessEnds, Free
    <2> QED
      BY <1>0, <1>8, <2>1 DEF ProcessEnds
  <1>9. ASSUME NEW p \in Consumers, ChannelEnds(p)
        PROVE  /\ handler'[h].pc = handler[h].pc
               /\ handler'[h].copy = handler[h].copy /\ marking' = marking
    BY <1>0, <1>9 DEF ChannelEnds, HandlerType
  <1>10. ASSUME NEW g \in Handlers, HandlerStep(g)
         PROVE  /\ handler[h].pc # "free" /\ handler'[h].copy = handler[h].copy
                /\ marking'[EventOf(h)] = h
    <2>1. CASE Deliver(g)
      <3>1. handler'[h] = handler[h] /\ marking' = marking
        BY <1>0, <2>1 DEF Deliver
      <3> QED
        BY <1>1, <3>1
    <2>2. CASE Apply(g)
      BY <1>1, <1>3, <1>6, <2>2 DEF Apply
    <2>3. CASE EnqueueReceipt(g)
      BY <1>1, <1>3, <2>3 DEF EnqueueReceipt
    <2>4. CASE Ack(g)
      BY <1>1, <1>4, <2>4 DEF Ack
    <2> QED
      BY <1>7, <1>10, <2>1, <2>2, <2>3, <2>4 DEF HandlerStep
  <1>11. ASSUME NEW g \in Handlers, DbError(g) \/ ApplyUnheard(g) \/ EnqueueFails(g)
         PROVE  handler'[h] = handler[h] /\ marking'[EventOf(h)] = marking[EventOf(h)]
    <2>1. CASE DbError(g)
      <3>1. g # h /\ handler'[h] = handler[h] /\ marking' = Unmark(g)
        BY <1>5, <2>1 DEF DbError
      <3> QED
        BY <1>0, <3>1 DEF Unmark
    <2>2. CASE ApplyUnheard(g)
      BY <1>5, <1>6, <2>2 DEF ApplyUnheard
    <2>3. CASE EnqueueFails(g)
      BY <1>4, <2>3 DEF EnqueueFails
    <2> QED
      BY <1>11, <2>1, <2>2, <2>3
  <1>12. ASSUME NEW p \in Consumers,
                \/ ConsumerStep(p) \/ CrashConsumer(p) \/ CancelConsumer(p)
                \/ Shutdown(p) \/ LoseConnection(p)
         PROVE  /\ handler[h].pc # "free" /\ handler'[h].copy = handler[h].copy
                /\ marking'[EventOf(h)] = h
    <2>1. CASE ProcessEnds(p)
      BY <1>1, <1>8, <2>1
    <2>2. CASE ChannelEnds(p)
      BY <1>0, <1>9, <2>2
    <2>3. CASE UNCHANGED <<handler, marking>>
      BY <1>2, <2>3
    <2> QED
      BY <1>12, <2>1, <2>2, <2>3
      DEF ConsumerStep, StartConsumer, DeclareTopology, ExitConsumer, CrashConsumer,
          CancelConsumer, Shutdown, LoseConnection
  <1>13. CASE Consuming
    BY <1>1, <1>10, <1>11, <1>12, <1>13 DEF Consuming, ConsumerFault
  <1>14. CASE Relaying \/ Receipting \/ Surroundings \/ UNCHANGED vars
    BY <1>2, <1>14 DEF Relaying, Receipting, Surroundings, vars, consumerVars
  <1>15. CASE RetentionStep
    BY <1>2, <1>15 DEF RetentionStep, StartPurge, PurgeRows, PurgeMarks, FailPurge,
                       consumerVars
  <1> QED
    BY <1>13, <1>14, <1>15 DEF Next

\* A mark is inserted only where none is committed.
LEMMA UncommittedMarks ==
    ASSUME IInv, [Next]_vars, NEW e \in Events, marking'[e] # None
    PROVE  inbox'[e] = None
  <1>0. /\ inbox \in [Events -> 0 .. MaxDay \union {None}]
        /\ marking \in [Events -> Handlers \union {None}]
        /\ marking[e] # None => inbox[e] = None
    BY DEF IInv, TypeOK, ConsumerTypeOK, Marking
  <1>1. CASE inbox'[e] = inbox[e] /\ (marking'[e] = marking[e] \/ inbox[e] = None)
    BY <1>0, <1>1
  <1>2. ASSUME NEW f, CommitEffect(f)
        PROVE  inbox'[e] = None
    <2>1. CASE e = f
      BY <1>0, <1>2, <2>1 DEF CommitEffect
    <2>2. CASE e # f
      BY <1>0, <1>2, <2>2 DEF CommitEffect
    <2> QED
      BY <2>1, <2>2
  <1>3. ASSUME NEW h \in Handlers, InsertMark(h)
        PROVE  inbox'[e] = None
    BY <1>0, <1>1, <1>3 DEF InsertMark
  <1>4. ASSUME NEW p \in Consumers, ProcessEnds(p)
        PROVE  inbox'[e] = None
    BY <1>0, <1>1, <1>4 DEF ProcessEnds
  <1>5. ASSUME NEW h \in Handlers, DbError(h)
        PROVE  inbox'[e] = None
    BY <1>0, <1>1, <1>5 DEF DbError, Unmark
  <1>6. CASE PurgeMarks
    BY <1>0, <1>6 DEF PurgeMarks
  <1>7. CASE UNCHANGED <<inbox, marking>>
    BY <1>1, <1>7
  <1>8. CASE Consuming
    BY <1>2, <1>3, <1>4, <1>5, <1>7, <1>8
    DEF Consuming, ConsumerStep, HandlerStep, ConsumerFault, StartConsumer, DeclareTopology,
        ExitConsumer, Shutdown, LoseConnection, CancelConsumer, ChannelEnds, CrashConsumer,
        Deliver, Apply, EnqueueReceipt, Ack, ApplyUnheard, EnqueueFails
  <1>9. CASE Relaying \/ Receipting \/ Surroundings \/ UNCHANGED vars
    BY <1>7, <1>9 DEF Relaying, Receipting, Surroundings, vars, consumerVars
  <1>10. CASE RetentionStep
    BY <1>6, <1>7, <1>10 DEF RetentionStep, StartPurge, PurgeRows, FailPurge, consumerVars
  <1> QED
    BY <1>8, <1>9, <1>10 DEF Next

LEMMA MarkingPreserved == IInv /\ [Next]_vars => Marking'
  <1> SUFFICES ASSUME IInv, [Next]_vars PROVE Marking'
    OBVIOUS
  <1>1. ASSUME NEW h \in Handlers, handler'[h].pc = "effect"
        PROVE  marking'[copies'[handler'[h].copy].event] = h
    <2>1. /\ handler[h].pc # "free" /\ handler'[h].copy = handler[h].copy
          /\ marking'[EventOf(h)] = h
      BY <1>1, MarkersMove
    <2>2. /\ handler[h].copy \in Copies /\ copies[handler[h].copy].at # "unsent"
      BY <2>1 DEF IInv, Deliveries
    <2> QED
      BY <2>1, <2>2, SentStays DEF EventOf
  <1>2. ASSUME NEW e \in Events
        PROVE  commits'[e] = forgotten'[e] + (IF inbox'[e] = None THEN 0 ELSE 1)
    <2>0. /\ inbox \in [Events -> 0 .. MaxDay \union {None}]
          /\ forgotten \in [Events -> Nat] /\ commits \in [Events -> Nat] /\ day # None
          /\ commits[e] = forgotten[e] + (IF inbox[e] = None THEN 0 ELSE 1)
      BY RelayAssumption
      DEF IInv, TypeOK, ConsumerTypeOK, RetentionTypeOK, BrokerTypeOK, Marking
    <2>1. CASE UNCHANGED <<inbox, confirmed, commits, forgotten>>
      BY <2>0, <2>1
    <2>2. ASSUME NEW h \in Handlers, handler[h].pc = "effect", CommitEffect(EventOf(h)),
                 UNCHANGED forgotten
          PROVE  commits'[e] = forgotten'[e] + (IF inbox'[e] = None THEN 0 ELSE 1)
      <3>1. CASE e # EventOf(h)
        BY <2>0, <2>2, <3>1 DEF CommitEffect
      <3>2. CASE e = EventOf(h)
        <4>1. inbox[e] = None
          BY <2>2, <3>2, ConsumerAssumption DEF IInv, Marking
        <4>2. commits'[e] = commits[e] + 1 /\ inbox'[e] = day
          BY <2>0, <2>2, <3>2 DEF CommitEffect
        <4> QED
          BY <2>0, <2>2, <4>1, <4>2
      <3> QED
        BY <3>1, <3>2
    <2>3. CASE PurgeMarks
      <3>1. PICK batch \in SUBSET OldMarks :
              /\ inbox' = [f \in Events |-> IF f \in batch THEN None ELSE inbox[f]]
              /\ forgotten' = [f \in Events |->
                                  IF f \in batch THEN forgotten[f] + 1 ELSE forgotten[f]]
        BY <2>3 DEF PurgeMarks
      <3>2. commits' = commits /\ (e \in batch => inbox[e] # None)
        BY <2>3 DEF PurgeMarks, OldMarks
      <3> QED
        BY <2>0, <3>1, <3>2
    <2> QED
      BY <2>1, <2>2, <2>3, EffectsMove
  <1> QED
    BY <1>1, <1>2, UncommittedMarks DEF Marking, EventOf

SameHistory(e) == added'[e] = added[e] /\ sent'[e] = sent[e]

SentOrNot(e) == added'[e] = added[e] /\ sent'[e] \in {sent[e], sent[e] + 1}

\* What a step may do to the job of an order.
JobMoved(e) ==
    \/ jobs'[e] = jobs[e] /\ SameHistory(e)
    \/ /\ jobs[e].state = "absent" /\ jobs'[e] = Waiting
       /\ added'[e] = added[e] + 1 /\ sent'[e] = sent[e]
    \/ /\ jobs[e].state \in {"waiting", "active"}
       /\ jobs'[e].state \in {"waiting", "active"}
       /\ jobs'[e].stalls = jobs[e].stalls /\ SameHistory(e)
    \/ /\ jobs[e].state = "active" /\ jobs'[e].state = "waiting"
       /\ jobs'[e].stalls = jobs[e].stalls + 1 /\ SentOrNot(e)
    \/ /\ jobs[e].state = "active" /\ jobs'[e].state \in {"completed", "failed"}
       /\ SentOrNot(e)
    \/ /\ jobs[e].state \in {"completed", "failed"}
       /\ jobs'[e].state \in {jobs[e].state, "absent"} /\ SameHistory(e)

LEMMA JobsMove ==
    ASSUME IInv, [Next]_vars, NEW e \in Events
    PROVE  JobMoved(e)
  <1>0. /\ jobs \in [Events -> JobType] /\ added \in [Events -> Nat] /\ sent \in [Events -> Nat]
    BY DEF IInv, TypeOK, JobTypeOK, JobType
  <1>1. CASE UNCHANGED <<jobs, added, sent>>
    BY <1>1 DEF JobMoved, SameHistory
  <1>2. ASSUME NEW f \in Events, AddJob(f)
        PROVE  JobMoved(e)
    <2>1. CASE jobs[f].state = "absent"
      <3>1. CASE e = f
        BY <1>0, <1>2, <2>1, <3>1 DEF AddJob, JobMoved
      <3>2. CASE e # f
        BY <1>0, <1>2, <2>1, <3>2 DEF AddJob, JobMoved, SameHistory
      <3> QED
        BY <3>1, <3>2
    <2>2. CASE jobs[f].state # "absent"
      BY <1>1, <1>2, <2>2 DEF AddJob, jobVars
    <2> QED
      BY <2>1, <2>2
  <1>3. CASE Consuming
    <2>1. ASSUME NEW h \in Handlers, EnqueueReceipt(h) \/ EnqueueFails(h)
          PROVE  JobMoved(e)
      <3>1. EventOf(h) \in Events
        BY <2>1 DEF EnqueueReceipt, EnqueueFails, IInv, Deliveries
      <3> QED
        BY <1>1, <1>2, <2>1, <3>1 DEF EnqueueReceipt, EnqueueFails, jobVars
    <2> QED
      BY <1>1, <1>3, <2>1
      DEF Consuming, ConsumerStep, HandlerStep, ConsumerFault, StartConsumer,
          DeclareTopology, ExitConsumer, Shutdown, LoseConnection, CancelConsumer, ChannelEnds,
          CrashConsumer, ProcessEnds, Deliver,
          InsertMark, Apply, Ack, DbError, ApplyUnheard, jobVars
  <1>4. ASSUME NEW f \in Events, PickJob(f)
        PROVE  JobMoved(e)
    <2>1. /\ jobs[f].state = "waiting" /\ jobs' = [jobs EXCEPT ![f].state = "active"]
          /\ added' = added /\ sent' = sent
      BY <1>4 DEF PickJob
    <2>2. CASE e = f
      <3>1. jobs'[e].state = "active" /\ jobs'[e].stalls = jobs[e].stalls
        BY <1>0, <2>1, <2>2 DEF JobType
      <3> QED
        BY <2>1, <2>2, <3>1 DEF JobMoved, SameHistory
    <2>3. CASE e # f
      BY <1>0, <2>1, <2>3 DEF JobMoved, SameHistory
    <2> QED
      BY <2>2, <2>3
  <1>5. ASSUME NEW state \in {"completed", "failed"}, NEW gone,
               jobs'[e] = Trimmed(e, state, gone), SameHistory(e)
        PROVE  JobMoved(e)
    <2>1. CASE jobs[e].state # state
      BY <1>5, <2>1 DEF Trimmed, JobMoved
    <2>2. CASE jobs[e].state = state /\ e \in gone
      BY <1>5, <2>2 DEF Trimmed, NoJob, JobMoved
    <2>3. CASE jobs[e].state = state /\ e \notin gone
      <3>1. jobs'[e].state = state
        BY <1>0, <1>5, <2>3 DEF Trimmed, JobType
      <3> QED
        BY <1>5, <2>3, <3>1 DEF JobMoved
    <2> QED
      BY <2>1, <2>2, <2>3
  <1>6. ASSUME NEW f \in Events, NEW state \in {"completed", "failed"},
               jobs[f].state = "active", JobEnds(f, state), SentOrNot(f),
               e # f => SameHistory(e)
        PROVE  JobMoved(e)
    <2>1. CASE e = f
      <3>1. jobs'[e] = Ended(f, state) /\ state \in JobStates
        BY <1>6, <2>1 DEF JobEnds, JobStates
      <3>2. jobs'[e].state = state
        BY <3>1, JobEndsTyped DEF IInv
      <3> QED
        BY <1>6, <2>1, <3>2 DEF JobMoved
    <2>2. CASE e # f
      BY <1>5, <1>6, <2>2 DEF JobEnds
    <2> QED
      BY <2>1, <2>2
  <1>7. ASSUME NEW f \in Events, CompleteJob(f)
        PROVE  JobMoved(e)
    <2>1. SentOrNot(f) /\ (e # f => SameHistory(e))
      BY <1>0, <1>7 DEF CompleteJob, SentOrNot, SameHistory
    <2> QED
      BY <1>6, <1>7, <2>1 DEF CompleteJob
  <1>8. ASSUME NEW f \in Events, FailJob(f)
        PROVE  JobMoved(e)
    <2>1. SentOrNot(f) /\ SameHistory(e) /\ jobs[f].state = "active"
      BY <1>8 DEF FailJob, SentOrNot, SameHistory
    <2>2. CASE jobs[f].attempts + 1 < JobAttempts
      <3>1. jobs' = [jobs EXCEPT ![f] = [jobs[f] EXCEPT !.state = "waiting",
                                           !.attempts = jobs[f].attempts + 1]]
        BY <1>0, <1>8, <2>2 DEF FailJob
      <3>2. jobs'[f].state = "waiting" /\ jobs'[f].stalls = jobs[f].stalls
        BY <1>0, <3>1 DEF JobType
      <3>3. e # f => jobs'[e] = jobs[e]
        BY <1>0, <3>1
      <3> QED
        BY <2>1, <3>2, <3>3 DEF JobMoved
    <2>3. CASE ~(jobs[f].attempts + 1 < JobAttempts)
      BY <1>6, <1>8, <2>1, <2>3 DEF FailJob
    <2> QED
      BY <2>2, <2>3
  <1>9. ASSUME NEW f \in Events, StallJob(f)
        PROVE  JobMoved(e)
    <2>1. /\ jobs[f].state = "active" /\ added' = added
          /\ sent' = sent \/ sent' = [sent EXCEPT ![f] = @ + 1]
      BY <1>9 DEF StallJob
    <2>2. SentOrNot(f) /\ (e # f => SameHistory(e))
      BY <1>0, <2>1 DEF SentOrNot, SameHistory
    <2>3. CASE jobs[f].stalls < MaxStalls
      <3>1. jobs' = [jobs EXCEPT ![f] = [jobs[f] EXCEPT !.state = "waiting",
                                           !.stalls = jobs[f].stalls + 1]]
        BY <1>0, <1>9, <2>3 DEF StallJob
      <3>2. jobs'[f].state = "waiting" /\ jobs'[f].stalls = jobs[f].stalls + 1
        BY <1>0, <3>1 DEF JobType
      <3>3. e # f => jobs'[e] = jobs[e]
        BY <1>0, <3>1
      <3> QED
        BY <2>1, <2>2, <3>2, <3>3 DEF JobMoved
    <2>4. CASE ~(jobs[f].stalls < MaxStalls)
      BY <1>6, <1>9, <2>1, <2>2, <2>4 DEF StallJob
    <2> QED
      BY <2>3, <2>4
  <1>13. CASE OtherJobEnds
    <2>1. SameHistory(e)
      BY <1>13 DEF OtherJobEnds, OtherReceiptEnds, CronJobEnds, SameHistory
    <2> QED
      BY <1>5, <1>13, <2>1 DEF OtherJobEnds, OtherReceiptEnds, CronJobEnds
  <1>10. CASE Receipting
    BY <1>4, <1>7, <1>8, <1>9, <1>10, <1>13 DEF Receipting, JobStep, JobFault
  <1>11. CASE Relaying \/ Surroundings \/ UNCHANGED vars
    BY <1>1, <1>11 DEF Relaying, Surroundings, vars, jobVars
  <1>12. CASE RetentionStep
    BY <1>1, <1>12 DEF RetentionStep, StartPurge, PurgeRows, PurgeMarks, FailPurge, jobVars
  <1> QED
    BY <1>3, <1>10, <1>11, <1>12 DEF Next
LEMMA JobsPreserved ==
    IInv /\ [Next]_vars => (\A e \in Events : jobs[e].state # "absent" => added[e] > 0)'
  <1> SUFFICES ASSUME IInv, [Next]_vars, NEW e \in Events, jobs'[e].state # "absent"
               PROVE  added'[e] > 0
    OBVIOUS
  <1>1. added[e] \in Nat /\ (jobs[e].state # "absent" => added[e] > 0)
    BY DEF IInv, TypeOK, JobTypeOK, Work
  <1>2. JobMoved(e)
    BY JobsMove
  <1> QED
    BY <1>1, <1>2 DEF JobMoved, SameHistory, SentOrNot

\* A handler gets past the effect by committing it or by finding its mark, and
\* past the receipt by adding the job or by finding it.
LEMMA HandlersMove ==
    ASSUME IInv, [Next]_vars, NEW h \in Handlers, handler'[h].pc \in {"after", "ack"}
    PROVE  /\ handler[h].pc # "free" /\ handler'[h].copy = handler[h].copy
           /\ handler'[h].pc = handler[h].pc \/ EventOf(h) \in confirmed'
           /\ \/ handler'[h].pc = handler[h].pc
              \/ handler'[h].pc = "after"
              \/ handler[h].pc = "after" /\ AddJob(EventOf(h))
  <1>0. /\ handler \in [Handlers -> HandlerType] /\ Work
    BY DEF IInv, TypeOK, ConsumerTypeOK, HandlerType
  <1>1. CASE handler'[h] = handler[h]
    BY <1>1
  <1>2. ASSUME NEW g \in Handlers, handler' = [handler EXCEPT ![g] = Free]
        PROVE  handler'[h] = handler[h]
    BY <1>0, <1>2 DEF Free
  <1>3. ASSUME NEW g \in Handlers, NEW transient \in BOOLEAN, RetryOrFail(g, transient)
        PROVE  handler'[h] = handler[h]
    <2>1. CASE transient /\ handler[g].try < LocalAttempts
      BY <1>0, <1>3, <2>1 DEF RetryOrFail, HandlerType
    <2>2. CASE ~(transient /\ handler[g].try < LocalAttempts)
      BY <1>2, <1>3, <2>2 DEF RetryOrFail
    <2> QED
      BY <2>1, <2>2
  <1>4. ASSUME NEW g \in Handlers, Deliver(g)
        PROVE  handler'[h] = handler[h]
    BY <1>0, <1>4 DEF Deliver
  <1>5. ASSUME NEW p \in Consumers, ChannelEnds(p)
        PROVE  /\ handler'[h].pc = handler[h].pc
               /\ handler'[h].copy = handler[h].copy
    BY <1>0, <1>5 DEF ChannelEnds, HandlerType
  <1>6. ASSUME NEW p \in Consumers, ProcessEnds(p)
        PROVE  handler'[h] = handler[h]
    BY <1>6 DEF ProcessEnds, Free
  <1>7. ASSUME NEW g \in Handlers, NEW pc, handler' = [handler EXCEPT ![g].pc = pc]
        PROVE  \/ g # h /\ handler'[h] = handler[h]
               \/ /\ g = h
                  /\ handler'[h].pc = pc /\ handler'[h].copy = handler[h].copy
    BY <1>0, <1>7 DEF HandlerType
  <1>8. ASSUME NEW g \in Handlers, InsertMark(g)
        PROVE  \/ handler'[h] = handler[h]
               \/ /\ handler'[h].copy = handler[h].copy /\ handler[h].pc = "mark"
                  /\ handler'[h].pc = "after" /\ EventOf(h) \in confirmed'
    <2>1. CASE inbox[EventOf(g)] = None
      <3>1. handler' = [handler EXCEPT ![g].pc = "effect"]
        BY <1>8, <2>1 DEF InsertMark
      <3> QED
        BY <1>7, <3>1
    <2>2. CASE inbox[EventOf(g)] # None
      <3>1. handler' = [handler EXCEPT ![g].pc = "after"] /\ confirmed' = confirmed
        BY <1>8, <2>2 DEF InsertMark
      <3>2. EventOf(g) \in Events /\ handler[g].pc = "mark"
        BY <1>8 DEF InsertMark, IInv, Deliveries
      <3>3. EventOf(g) \in confirmed
        BY <1>0, <2>2, <3>2 DEF Work, MarkWithEffect
      <3> QED
        BY <1>7, <3>1, <3>2, <3>3
    <2> QED
      BY <2>1, <2>2
  <1>9. ASSUME NEW g \in Handlers, Apply(g)
        PROVE  \/ handler'[h] = handler[h]
               \/ /\ handler'[h].copy = handler[h].copy /\ handler[h].pc = "effect"
                  /\ handler'[h].pc = "after" /\ EventOf(h) \in confirmed'
    BY <1>7, <1>9 DEF Apply, CommitEffect
  <1>10. ASSUME NEW g \in Handlers, EnqueueReceipt(g)
         PROVE  \/ handler'[h] = handler[h]
                \/ /\ handler'[h].copy = handler[h].copy /\ handler[h].pc = "after"
                   /\ handler'[h].pc = "ack" /\ EventOf(h) \in confirmed'
                   /\ AddJob(EventOf(h))
    <2>1. /\ handler[g].pc = "after" /\ AddJob(EventOf(g)) /\ confirmed' = confirmed
          /\ handler' = [handler EXCEPT ![g].pc = "ack"]
      BY <1>10 DEF EnqueueReceipt
    <2>2. EventOf(g) \in confirmed
      BY <1>0, <2>1 DEF Work
    <2> QED
      BY <1>7, <2>1, <2>2
  <1>11. CASE Consuming
    <2>1. CASE \E p \in Consumers : ConsumerStep(p)
      BY <1>1, <1>6, <2>1 DEF ConsumerStep, StartConsumer, DeclareTopology, ExitConsumer
    <2>2. CASE \E g \in Handlers : HandlerStep(g)
      BY <1>1, <1>2, <1>4, <1>8, <1>9, <1>10, <2>2 DEF HandlerStep, Ack
    <2>3. CASE ConsumerFault
      BY <1>1, <1>2, <1>3, <1>5, <1>6, <2>3
      DEF ConsumerFault, Shutdown, LoseConnection, CancelConsumer, CrashConsumer, DbError,
          ApplyUnheard, EnqueueFails
    <2> QED
      BY <1>11, <2>1, <2>2, <2>3 DEF Consuming
  <1>12. CASE Relaying \/ Receipting \/ Surroundings \/ UNCHANGED vars
    BY <1>1, <1>12 DEF Relaying, Receipting, Surroundings, vars, consumerVars
  <1>13. CASE RetentionStep
    BY <1>1, <1>13 DEF RetentionStep, StartPurge, PurgeRows, PurgeMarks, FailPurge,
                       consumerVars
  <1> QED
    BY <1>11, <1>12, <1>13 DEF Next

LEMMA WorkPreserved == IInv /\ [Next]_vars => Work'
  <1> SUFFICES ASSUME IInv, [Next]_vars PROVE Work'
    OBVIOUS
  <1>1. ASSUME NEW h \in Handlers, handler'[h].pc \in {"after", "ack"}
        PROVE  /\ EventOf(h) \in Events
               /\ copies'[handler'[h].copy].event = EventOf(h)
    <2>1. handler[h].pc # "free" /\ handler'[h].copy = handler[h].copy
      BY <1>1, HandlersMove
    <2>2. /\ handler[h].copy \in Copies /\ copies[handler[h].copy].at # "unsent"
          /\ EventOf(h) \in Events
      BY <2>1 DEF IInv, Deliveries
    <2> QED
      BY <2>1, <2>2, SentStays DEF EventOf
  <1>2. ASSUME NEW h \in Handlers, handler'[h].pc \in {"after", "ack"}
        PROVE  copies'[handler'[h].copy].event \in confirmed'
    <2>1. EventOf(h) \in confirmed'
      BY <1>2, HandlersMove, ConfirmedGrows DEF IInv, Work
    <2> QED
      BY <1>1, <1>2, <2>1
  <1>3. ASSUME NEW h \in Handlers, handler'[h].pc = "ack"
        PROVE  added'[copies'[handler'[h].copy].event] > 0
    <2> DEFINE e == EventOf(h)
    <2>1. e \in Events /\ copies'[handler'[h].copy].event = e
      BY <1>1, <1>3
    <2>2. handler[h].pc = "ack" \/ (handler[h].pc = "after" /\ AddJob(e))
      BY <1>3, HandlersMove
    <2>3. added \in [Events -> Nat] /\ added' \in [Events -> Nat]
      BY TypePreserved DEF IInv, TypeOK, JobTypeOK
    <2>4. CASE handler[h].pc = "ack"
      <3>1. added[e] > 0
        BY <2>4 DEF IInv, Work
      <3>2. added[e] <= added'[e]
        BY <2>1, AddedGrows
      <3> QED
        BY <2>1, <2>3, <3>1, <3>2
    <2>5. CASE AddJob(e)
      <3> HIDE DEF e
      <3>1. CASE jobs[e].state = "absent"
        BY <2>1, <2>3, <2>5, <3>1 DEF AddJob
      <3>2. CASE jobs[e].state # "absent"
        <4>1. added[e] > 0 /\ added' = added
          BY <2>1, <2>5, <3>2 DEF AddJob, jobVars, IInv, Work
        <4> QED
          BY <2>1, <4>1
      <3> QED
        BY <3>1, <3>2
    <2> QED
      BY <2>2, <2>4, <2>5
  <1> QED
    BY <1>2, <1>3, MarksPreserved, AckedPreserved, JobsPreserved DEF Work, EventOf

-----------------------------------------------------------------------------
(* The invariant, and what it says.                                        *)

LEMMA InitInv == Init => IInv
  <1> SUFFICES ASSUME Init PROVE IInv
    OBVIOUS
  <1>0. TypeOK
    BY InitTyped
  <1> USE DEF Init
  <1>1. Claims
    BY DEF RelayInit, Claims, BatchesDisjoint, Down
  <1>2. Charges
    BY DEF RelayInit, Charges, AttemptsAreRefusals, Down
  <1>3. Publishes
    BY DEF RelayInit, Publishes, NoEventLost, Down, NothingSent
  <1>4. Messages
    BY DEF BrokerInit, Messages
  <1>5. Deliveries
    BY DEF BrokerInit, ConsumerInit, Deliveries, Free
  <1>6. Work
    BY DEF BrokerInit, ConsumerInit, JobInit, Work, MarkWithEffect, AckedIsDone, Free, NoJob
  <1>7. Marking
    BY DEF ConsumerInit, RetentionInit, Marking, Free
  <1> QED
    BY <1>0, <1>1, <1>2, <1>3, <1>4, <1>5, <1>6, <1>7 DEF IInv

LEMMA NextInv == IInv /\ [Next]_vars => IInv'
  BY TypePreserved, ClaimsPreserved, ChargesPreserved, PublishesPreserved,
     MessagesPreserved, DeliveriesPreserved, WorkPreserved,
     MarkingPreserved
  DEF IInv

THEOREM Invariance == Spec => []IInv
  BY InitInv, NextInv, PTL DEF Spec

\* Rows, messages, handlers, marks and jobs keep their types and bounds: in
\* particular no row is tried more often than RELAY_MAX_ATTEMPTS.
THEOREM TypeCorrect == Spec => []TypeOK
  <1>1. IInv => TypeOK
    BY DEF IInv
  <1> QED
    BY <1>1, Invariance, PTL

\* relay.ts publishes before it marks, so a row out of its sight is confirmed
\* or its message is in the broker, whoever crashes when.
THEOREM NothingLost == Spec => []NoEventLost
  <1>1. IInv => NoEventLost
    BY DEF IInv, Publishes
  <1> QED
    BY <1>1, Invariance, PTL

\* FOR UPDATE SKIP LOCKED keeps any number of relays on different rows, and a
\* channel that closes rolls the batch back before it counts an attempt.
THEOREM RelaysApart == Spec => []RelaysHold
  <1>1. IInv => RelaysHold
    BY DEF IInv, Claims, Charges, RelaysHold
  <1> QED
    BY <1>1, Invariance, PTL

\* handle() acknowledges last: what is acknowledged is confirmed and has had
\* its receipts job.
THEOREM AckedMeansDone == Spec => []AckedIsDone
  <1>1. IInv => AckedIsDone
    BY DEF IInv, Work
  <1> QED
    BY <1>1, Invariance, PTL

\* However often the broker redelivers, at whatever time, and local retries run:
\* the transaction of applyOrderPlaced() commits once for each mark that
\* processed_messages has kept.
THEOREM AppliedOnce == Spec => []AppliedOncePerMark
  <1>1. IInv => AppliedOncePerMark
    <2> SUFFICES ASSUME IInv, NEW e \in Events
                 PROVE  commits[e] <= 1 + forgotten[e]
      BY DEF AppliedOncePerMark
    <2>1. forgotten[e] \in Nat
      BY DEF IInv, TypeOK, RetentionTypeOK
    <2>2. commits[e] = forgotten[e] + (IF inbox[e] = None THEN 0 ELSE 1)
      BY DEF IInv, Marking
    <2> QED
      BY <2>1, <2>2
  <1> QED
    BY <1>1, Invariance, PTL

\* processed_messages and order_confirmations are written by one transaction:
\* neither is there without the other, but for marks that retention purged.
THEOREM MarksHold == Spec => []MarkWithEffect
  <1>1. IInv => MarkWithEffect
    BY DEF IInv, Work
  <1> QED
    BY <1>1, Invariance, PTL

\* A delivered message belongs to one handler with a live channel, any other
\* to none: Deliveries, counted.
THEOREM HeldOnce == Spec => []HeldByOne
  <1>1. IInv => HeldByOne
    <2> SUFFICES ASSUME IInv, NEW c \in Copies
                 PROVE  LET holders == {h \in Handlers : handler[h].live
                                                         /\ handler[h].copy = c}
                        IN  Cardinality(holders) = (IF copies[c].at = "held" THEN 1 ELSE 0)
      BY DEF HeldByOne
    <2> DEFINE holders == {h \in Handlers : handler[h].live /\ handler[h].copy = c}
    <2>1. CASE copies[c].at = "held"
      <3>1. PICK h \in Handlers : handler[h].live /\ handler[h].copy = c
        BY <2>1 DEF IInv, Deliveries
      <3>2. holders = {h}
        BY <3>1 DEF IInv, Deliveries
      <3> QED
        BY <2>1, <3>2, FS_Singleton
    <2>2. CASE copies[c].at # "held"
      <3>1. holders = {}
        BY <2>2 DEF IInv, Deliveries
      <3> QED
        BY <2>2, <3>1, FS_EmptySet
    <2> QED
      BY <2>1, <2>2
  <1> QED
    BY <1>1, Invariance, PTL

-----------------------------------------------------------------------------
(* Receipts.                                                               *)

\* A job pays in advance for its receipt and for one more per stall.
LEMMA JobsPaidPreserved == IInv /\ JobsPaid /\ [Next]_vars => JobsPaid'
  <1> SUFFICES ASSUME IInv, JobsPaid, [Next]_vars, NEW e \in Events
               PROVE  /\ sent'[e] <= added'[e] * (1 + MaxStalls)
                      /\ jobs'[e].state \in {"waiting", "active"} =>
                           sent'[e] + (1 + MaxStalls - jobs'[e].stalls)
                             <= added'[e] * (1 + MaxStalls)
    BY DEF JobsPaid, ReceiptsPerJob
  <1>0. /\ sent[e] \in Nat /\ added[e] \in Nat
        /\ jobs[e].stalls \in 0 .. MaxStalls /\ MaxStalls \in Nat
    BY JobAssumption DEF IInv, TypeOK, JobTypeOK
  <1>1. /\ sent[e] <= added[e] * (1 + MaxStalls)
        /\ jobs[e].state \in {"waiting", "active"} =>
             sent[e] + (1 + MaxStalls - jobs[e].stalls) <= added[e] * (1 + MaxStalls)
    BY DEF JobsPaid, ReceiptsPerJob
  <1>2. /\ added[e] * (1 + MaxStalls) \in Nat
        /\ (added[e] + 1) * (1 + MaxStalls) = added[e] * (1 + MaxStalls) + (1 + MaxStalls)
    BY <1>0
  <1>3. Waiting.state = "waiting" /\ Waiting.stalls = 0 /\ NoJob.state = "absent"
    BY DEF Waiting, NoJob
  <1>4. JobMoved(e)
    BY JobsMove
  <1> QED
    BY <1>0, <1>1, <1>2, <1>3, <1>4 DEF JobMoved, SameHistory, SentOrNot

\* receipts.queue.ts: however often a job stalls or is retried, and however
\* often its order gets another one, a job sends at most 1 + MaxStalls receipts.
THEOREM ReceiptsPaid == Spec => []ReceiptsPerJob
  <1>1. Init => JobsPaid
    BY JobAssumption DEF Init, JobInit, JobsPaid, ReceiptsPerJob, NoJob
  <1>2. JobsPaid => ReceiptsPerJob
    BY DEF JobsPaid
  <1> QED
    BY <1>1, <1>2, JobsPaidPreserved, Invariance, PTL DEF Spec

-----------------------------------------------------------------------------
(* The refinement.                                                         *)

PlacedSet == {e \in Events : Placed(e)}
RequestedSet == {e \in Events : added[e] > 0}

LEMMA PlacedMoves ==
    ASSUME IInv, [Next]_vars
    PROVE  \/ \E e \in Events : PlaceRow(e) /\ UNCHANGED <<confirmed, added>>
           \/ PlacedSet' = PlacedSet
  <1>0. TypeOK /\ outbox \in [Events -> RowType]
    BY DEF IInv, TypeOK, RelayTypeOK, RowType
  <1>1. CASE UNCHANGED outbox
    BY <1>1 DEF PlacedSet, Placed
  <1>2. CASE PurgeRows
    BY <1>0, <1>2, PurgeKeepsPending DEF PlacedSet, Placed
  <1>3. ASSUME NEW r \in Relays, outbox' = Marked(r)
        PROVE  PlacedSet' = PlacedSet
    <2>1. ASSUME NEW e \in Events PROVE Placed(e)' <=> Placed(e)
      <3>1. CASE e \notin relay[r].batch
        BY <1>3, <3>1 DEF Marked, Placed
      <3>2. CASE e \in relay[r].batch
        <4>1. Placed(e)
          BY <3>2 DEF IInv, Claims, Pending, Placed
        <4>2. Placed(e)'
          BY <4>1, RowsMove
        <4> QED
          BY <4>1, <4>2
      <3> QED
        BY <3>1, <3>2
    <2> QED
      BY <2>1 DEF PlacedSet
  <1>4. ASSUME NEW r \in Relays, RelayStep(r) \/ RelayFault(r)
        PROVE  outbox' = outbox \/ outbox' = Marked(r)
    BY <1>4 DEF RelayStep, RelayFault, StartRelay, ClaimBatch, PublishStored,
                PublishNoExchange, PublishClosed, Drained, MarkBatch, SettleClosed,
                ReleaseDeadRelay, PublishRefused, MarkUnheard, CloseRelayChannel, CrashRelay
  <1>5. CASE Relaying
    BY <1>1, <1>3, <1>4, <1>5 DEF Relaying, consumerVars, jobVars
  <1> QED
    BY <1>1, <1>2, <1>5
    DEF Next, Consuming, Receipting, RetentionStep, StartPurge, PurgeMarks, FailPurge,
        Surroundings, vars, relayVars

\* Seen from the order, the rows, relays, messages, handlers and jobs together
\* do what ConfirmOnce does: place it, confirm it once, ask for its receipt.
THEOREM Refinement == Spec => ImplementsConfirmOnce
  <1> USE DEF PlacedSet, RequestedSet
  <1>1. Init => Promise!Init
    BY BrokerAssumption
    DEF Init, RelayInit, ConsumerInit, JobInit, Placed, Promise!Init
  <1>2. IInv /\ [Next]_vars => [Promise!Next]_(Promise!vars)
    <2> SUFFICES ASSUME IInv, [Next]_vars
                 PROVE  Promise!Next \/ UNCHANGED Promise!vars
      OBVIOUS
    <2> USE DEF Promise!vars, Promise!Next
    <2>0. added \in [Events -> Nat] /\ outbox \in [Events -> RowType]
      BY DEF IInv, TypeOK, JobTypeOK, RelayTypeOK, RowType
    <2>1. ASSUME NEW e \in Events, PlaceRow(e), UNCHANGED <<confirmed, added>>
          PROVE  Promise!Next
      <3>1. PlacedSet' = PlacedSet \union {e} /\ ~Placed(e)
        BY <2>0, <2>1 DEF PlaceRow, Placed, RowType
      <3> QED
        BY <2>1, <3>1 DEF Promise!Place
    <2>2. ASSUME NEW h \in Handlers, handler[h].pc = "effect", CommitEffect(EventOf(h)),
                 UNCHANGED <<added, outbox>>
          PROVE  Promise!Next \/ UNCHANGED Promise!vars
      <3> DEFINE e == EventOf(h)
      <3>1. /\ e \in Events /\ Placed(e) /\ confirmed' = confirmed \union {e}
            /\ PlacedSet' = PlacedSet /\ RequestedSet' = RequestedSet
        <4>1. confirmed' = confirmed \union {e}
          BY <2>2 DEF CommitEffect
        <4>2. /\ handler[h].copy \in Copies /\ copies[handler[h].copy].at # "unsent"
              /\ e \in Events
          BY <2>2 DEF IInv, Deliveries
        <4>3. Placed(e)
          BY <4>2, BrokerAssumption DEF IInv, Messages, EventOf
        <4>4. PlacedSet' = PlacedSet /\ RequestedSet' = RequestedSet
          BY <2>2 DEF Placed
        <4> QED
          BY <4>1, <4>2, <4>3, <4>4
      <3> HIDE DEF e
      <3>2. CASE e \in confirmed
        BY <3>1, <3>2
      <3>3. CASE e \notin confirmed
        BY <3>1, <3>3 DEF Promise!Confirm
      <3> QED
        BY <3>2, <3>3
    <2>3. ASSUME NEW h \in Handlers, handler[h].pc = "after",
                 added' = [added EXCEPT ![EventOf(h)] = @ + 1],
                 UNCHANGED <<confirmed, outbox>>
          PROVE  Promise!Next \/ UNCHANGED Promise!vars
      <3> DEFINE e == EventOf(h)
      <3>1. e \in confirmed /\ e \in Events
        BY <2>3 DEF IInv, Work, Deliveries
      <3>2. PlacedSet' = PlacedSet
        BY <2>3 DEF Placed
      <3>3. added' = [added EXCEPT ![e] = added[e] + 1]
        BY <2>3
      <3> HIDE DEF e
      <3>4. RequestedSet' = RequestedSet \union {e}
        BY <2>0, <3>1, <3>3
      <3>5. CASE e \in RequestedSet
        BY <2>3, <3>2, <3>4, <3>5
      <3>6. CASE e \notin RequestedSet
        BY <2>3, <3>1, <3>2, <3>4, <3>6 DEF Promise!Request
      <3> QED
        BY <3>5, <3>6
    <2>4. CASE \E e \in Events : PlaceRow(e) /\ UNCHANGED <<confirmed, added>>
      BY <2>1, <2>4
    <2>5. CASE PlacedSet' = PlacedSet /\ UNCHANGED confirmed
      BY <2>3, <2>5, JobsAdded DEF IInv
    <2>6. CASE PlacedSet' = PlacedSet /\ ~UNCHANGED confirmed
      <3>1. PICK h \in Handlers : /\ handler[h].pc = "effect" /\ CommitEffect(EventOf(h))
                                  /\ UNCHANGED <<added, outbox>>
        BY <2>6, EffectsMove DEF PurgeMarks
      <3> QED
        BY <2>2, <3>1
    <2> QED
      BY <2>4, <2>5, <2>6, PlacedMoves
  <1> QED
    BY <1>1, <1>2, Invariance, PTL DEF Spec, Promise!Spec, ImplementsConfirmOnce

=============================================================================
