--------------------------- MODULE OutboxPipeline ---------------------------
(***************************************************************************)
(* The transactional outbox from end to end: rows committed by placeOrder, *)
(* the relays that publish them, RabbitMQ, the consumers that confirm the  *)
(* orders and ask for receipts, the receipts worker, and the retention     *)
(* job, all running concurrently and all able to fail.                     *)
(***************************************************************************)
EXTENDS OutboxRetention

vars == <<brokerVars, relayVars, consumerVars, jobVars, retentionVars>>

TypeOK ==
    /\ BrokerTypeOK
    /\ RelayTypeOK
    /\ ConsumerTypeOK
    /\ JobTypeOK
    /\ RetentionTypeOK

Init ==
    /\ BrokerInit
    /\ RelayInit
    /\ ConsumerInit
    /\ JobInit
    /\ RetentionInit

Relaying ==
    /\ \/ \E e \in Events : PlaceRow(e)
       \/ \E r \in Relays : RelayStep(r) \/ RelayFault(r)
    /\ UNCHANGED consumerVars
    /\ UNCHANGED jobVars
    /\ UNCHANGED retentionVars

Consuming ==
    /\ \/ \E p \in Consumers : ConsumerStep(p)
       \/ \E h \in Handlers : HandlerStep(h)
       \/ ConsumerFault
    /\ UNCHANGED relayVars
    /\ UNCHANGED retentionVars

Receipting ==
    /\ \/ \E e \in Events : JobStep(e) \/ JobFault(e)
       \/ OtherJobEnds
    /\ UNCHANGED relayVars
    /\ UNCHANGED consumerVars
    /\ UNCHANGED retentionVars

Surroundings ==
    /\ PublishGarbage \/ Tick
    /\ UNCHANGED relayVars
    /\ UNCHANGED consumerVars
    /\ UNCHANGED jobVars
    /\ UNCHANGED retentionVars

Next ==
    \/ Relaying
    \/ Consuming
    \/ Receipting
    \/ RetentionStep
    \/ Surroundings

Spec == Init /\ [][Next]_vars

\* Every process that can take its next step takes it in the end: a relay or
\* consumer that has exited is started again (nobody restarts one that still
\* runs), Postgres releases a dead client's locks.  Nothing is assumed of orders
\* being placed, of faults, of time, or of the queue's other jobs.
Fairness ==
    /\ \A r \in Relays :
          WF_vars(/\ RelayStep(r)
                  /\ UNCHANGED <<consumerVars, jobVars, retentionVars>>)
    /\ \A p \in Consumers :
          WF_vars(ConsumerStep(p) /\ UNCHANGED <<relayVars, retentionVars>>)
    /\ \A h \in Handlers :
          WF_vars(HandlerStep(h) /\ UNCHANGED <<relayVars, retentionVars>>)
    /\ \A e \in Events :
          WF_vars(/\ JobStep(e)
                  /\ UNCHANGED <<relayVars, consumerVars, retentionVars>>)

FairSpec == Spec /\ Fairness

-----------------------------------------------------------------------------
(* Safety.                                                                 *)

At(e, places) == \E c \in CopiesOf(e) : copies[c].at \in places

\* Publish before mark: a row that left the relay's sight is confirmed, or the
\* broker still has its message somewhere.  No crash loses an event.
NoEventLost ==
    \A e \in Events :
        outbox[e].state \in {"published", "purged"} =>
            e \in confirmed \/ At(e, {"ready", "held", "dlq", "unroutable"})

\* A message is acknowledged only when all its work is done: the order is
\* confirmed and its receipt is in the queue.
AckedIsDone ==
    \A c \in Copies :
        copies[c].at = "acked" =>
            copies[c].event \in confirmed /\ added[copies[c].event] > 0

\* However often a message is published, delivered and retried, by handlers at
\* the same time and over a COMMIT whose answer was lost, the transaction that
\* applies it commits once, and again only after retention purged its mark.
AppliedOncePerMark == \A e \in Events : commits[e] <= 1 + forgotten[e]

\* The inbox mark and the effect commit together: a mark without the effect
\* would lose the order, an effect without the mark would repeat the work.
MarkWithEffect ==
    /\ \A e \in Events : inbox[e] # None => e \in confirmed
    /\ \A e \in confirmed : inbox[e] # None \/ forgotten[e] > 0

\* SKIP LOCKED: no row is in the open batches of two relays.
BatchesDisjoint ==
    \A r, s \in Relays : r # s => relay[r].batch \intersect relay[s].batch = {}

\* An outage never parks a row: an attempt is counted against an unpublished
\* row only for a publish the broker itself refused.
AttemptsAreRefusals ==
    \A e \in Events : outbox[e].state = "pending" => outbox[e].attempts <= refusals[e]

\* Relays neither work on each other's rows nor blame a row for an outage.
RelaysHold == BatchesDisjoint /\ AttemptsAreRefusals

\* A delivered message belongs to exactly one handler whose channel lives: it
\* is neither stuck unacknowledged nor handled twice at the same time on a
\* live channel.
HeldByOne ==
    \A c \in Copies :
        LET holders == {h \in Handlers : handler[h].live /\ handler[h].copy = c}
        IN  Cardinality(holders) = (IF copies[c].at = "held" THEN 1 ELSE 0)

\* A job sends its receipt once, and once more for each stall it survives.
\* Retries, redelivered messages and lost answers add nothing to that, and a
\* second job for the order is added only with its own allowance.
ReceiptsPerJob == \A e \in Events : sent[e] <= added[e] * (1 + MaxStalls)

-----------------------------------------------------------------------------
(* Liveness and refinement.                                                *)

\* Waiting for a 'drain' that cannot come any more: it neither goes on nor exits.
Hung(r) == relay[r].pc = "drain" /\ relay[r].channel = "closed"

\* Nobody is left who could handle e: no consumer gets deliveries and none is
\* down, to be started again; or a relay that hangs has its row, or every one.
Abandoned(e) ==
    \/ \A p \in Consumers : consumer[p] \in {"deaf", "cancelled"}
    \/ \E r \in Relays : Hung(r) /\ e \in relay[r].batch
    \/ \A r \in Relays : Hung(r)

\* Confirmed with its receipt job finished (and perhaps removed since), or where
\* a human looks: parked, dead-lettered, unroutable.
Handled(e) ==
    \/ /\ e \in confirmed /\ added[e] > 0
       /\ jobs[e].state \in {"completed", "failed", "absent"}
    \/ Parked(e)
    \/ At(e, {"dlq", "unroutable"})

\* A placed order is handled in the end, unless from some moment on it stays
\* abandoned to processes that run and do nothing.
EndsHandled ==
    \A e \in Events : <>[]Abandoned(e) \/ (Placed(e) ~> Handled(e))

Promise ==
    INSTANCE ConfirmOnce
        WITH placed <- {e \in Events : Placed(e)},
             requested <- {e \in Events : added[e] > 0}

\* Seen from the order, all this is: placed, confirmed once, receipt requested.
ImplementsConfirmOnce == Promise!Spec

-----------------------------------------------------------------------------
(* What comments of the code say beyond what it does.                      *)

\* relay.ts: a closed channel rolls the batch back, so the rows are free for
\* the next relay.
ClosedChannelFreesRows ==
    \A r \in Relays :
        relay[r].channel = "closed" /\ relay[r].batch # {} ~> relay[r].batch = {}

\* receipts.queue.ts: a finished job is kept for a day, to deduplicate what is
\* redelivered within it.
OneJobPerOrder == \A e \in Events : added[e] <= 1

=============================================================================
