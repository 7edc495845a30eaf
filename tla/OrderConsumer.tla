--------------------------- MODULE OrderConsumer ---------------------------
(***************************************************************************)
(* The order.placed consumers of src/src/outbox/consumer.ts and            *)
(* consumer-main.ts, with the tables they write (processed_messages, the   *)
(* inbox, and order_confirmations) and the receipts job they enqueue.      *)
(* Every delivery is handled by its own async handle(); handlers of one or *)
(* several processes interleave at every await.                            *)
(***************************************************************************)
EXTENDS ReceiptQueue

CONSTANTS
    Consumers,       \* consumer processes
    Handlers,        \* deliveries in flight at once (BROKER_PREFETCH each)
    ProcessOf,       \* the process a handler runs in
    LocalAttempts,   \* CONSUMER_LOCAL_ATTEMPTS
    MaxRedeliveries  \* CONSUMER_MAX_REDELIVERIES

ASSUME ConsumerAssumption ==
    /\ ProcessOf \in [Handlers -> Consumers]
    /\ LocalAttempts \in Nat \ {0}
    /\ MaxRedeliveries \in Nat
    /\ None \notin Handlers

VARIABLES
    consumer,   \* each process: down, declaring the topology, up, closing; or
                \* running without deliveries, its consumer cancelled by the
                \* broker or (deaf) its connection closed
    handler,    \* each handle(): the statement it runs next, its message, the
                \* attempt it is at, whether its channel still lives
    inbox,      \* committed processed_messages: day of the mark, or None
                \* (processed_at is the day of its BEGIN: a transaction is
                \* taken to be shorter than a day)
    marking,    \* handler whose open transaction inserted the mark
    confirmed,  \* committed order_confirmations
    commits     \* history: transactions committed for each event

consumerVars == <<consumer, handler, inbox, marking, confirmed, commits>>

Free == [pc |-> "free", copy |-> None, try |-> 1, live |-> FALSE]

ConsumerTypeOK ==
    /\ consumer \in [Consumers ->
                       {"down", "topology", "up", "cancelled", "deaf", "closing"}]
    /\ handler \in [Handlers -> [pc : {"free", "mark", "effect", "after", "ack"},
                                 copy : Copies \union {None},
                                 try : 1 .. LocalAttempts, live : BOOLEAN]]
    /\ inbox \in [Events -> 0 .. MaxDay \union {None}]
    /\ marking \in [Events -> Handlers \union {None}]
    /\ confirmed \in SUBSET Events
    /\ commits \in [Events -> Nat]

ConsumerInit ==
    /\ consumer = [p \in Consumers |-> "down"]
    /\ handler = [h \in Handlers |-> Free]
    /\ inbox = [e \in Events |-> None]
    /\ marking = [e \in Events |-> None]
    /\ confirmed = {}
    /\ commits = [e \in Events |-> 0]

EventOf(h) == copies[handler[h].copy].event

-----------------------------------------------------------------------------
(* The process: start, shutdown, crash, lost connection.                   *)

StartConsumer(p) ==
    /\ consumer[p] = "down"
    /\ consumer' = [consumer EXCEPT ![p] = "topology"]
    /\ UNCHANGED <<handler, inbox, marking, confirmed, commits>>
    /\ UNCHANGED jobVars
    /\ UNCHANGED brokerVars

DeclareTopology(p) ==
    /\ consumer[p] = "topology"
    /\ AssertTopology
    /\ consumer' = [consumer EXCEPT ![p] = IF topology' = "bound" THEN "up" ELSE @]
    /\ UNCHANGED <<handler, inbox, marking, confirmed, commits>>
    /\ UNCHANGED jobVars

HandlersOf(p) == {h \in Handlers : ProcessOf[h] = p}

HeldBy(H) == {handler[h].copy : h \in {g \in H : handler[g].live}}

\* Deliveries of a channel that is gone go back to the queue.
ReturnAll(H) ==
    copies' = [c \in Copies |->
                 IF c \in HeldBy(H) THEN Returned(copies[c]) ELSE copies[c]]

\* The channel of process p is gone while its handlers are still at work.
ChannelEnds(p) ==
    /\ ReturnAll(HandlersOf(p))
    /\ handler' = [h \in Handlers |->
                     IF h \in HandlersOf(p) THEN [handler[h] EXCEPT !.live = FALSE]
                     ELSE handler[h]]
    /\ UNCHANGED <<inbox, marking, confirmed, commits, topology, day>>
    /\ UNCHANGED jobVars

\* SIGTERM: the consumer is cancelled and the channel closed; pool.end() waits
\* for the handlers' connections.
Shutdown(p) ==
    /\ Fault
    /\ consumer[p] \in {"up", "cancelled"}
    /\ consumer' = [consumer EXCEPT ![p] = "closing"]
    /\ ChannelEnds(p)

\* The broker closes the connection.  Nobody listens to 'close', and Postgres
\* and Redis keep the process running.
LoseConnection(p) ==
    /\ Fault
    /\ consumer[p] \in {"up", "cancelled"}
    /\ consumer' = [consumer EXCEPT ![p] = "deaf"]
    /\ ChannelEnds(p)

\* The broker cancels the consumer and the callback gets a null: no delivery
\* after that, and those in flight can still be settled.
CancelConsumer(p) ==
    /\ Fault
    /\ consumer[p] = "up"
    /\ consumer' = [consumer EXCEPT ![p] = "cancelled"]
    /\ UNCHANGED <<handler, inbox, marking, confirmed, commits, topology, copies,
                   day>>
    /\ UNCHANGED jobVars

\* What is left of process p when it ends: nothing.  Postgres rolls back what
\* its handlers had not committed.
ProcessEnds(p) ==
    /\ consumer' = [consumer EXCEPT ![p] = "down"]
    /\ handler' = [h \in Handlers |->
                     IF h \in HandlersOf(p) THEN Free ELSE handler[h]]
    /\ marking' = [e \in Events |->
                     IF marking[e] \in HandlersOf(p) THEN None ELSE marking[e]]
    /\ UNCHANGED <<inbox, confirmed, commits>>
    /\ UNCHANGED jobVars

\* process.exit(0), once no handler is inside a transaction.
ExitConsumer(p) ==
    /\ consumer[p] = "closing"
    /\ \A h \in HandlersOf(p) : handler[h].pc # "effect"
    /\ ProcessEnds(p)
    /\ UNCHANGED brokerVars

\* The process dies anywhere: also on an 'error' event of the connection, on a
\* connection lost before consume(), and when it is told to stop while deaf,
\* because cancel() throws.
CrashConsumer(p) ==
    /\ Fault
    /\ consumer[p] # "down"
    /\ ReturnAll(HandlersOf(p))
    /\ ProcessEnds(p)
    /\ UNCHANGED <<topology, day>>

-----------------------------------------------------------------------------
(* handle(): one delivery.                                                 *)

\* Faulty variant: the message is acknowledged when it is delivered.
DeliverAcked(h) ==
    \E c \in Copies :
        /\ consumer[ProcessOf[h]] = "up"
        /\ handler[h].pc = "free"
        /\ copies[c].at = "ready"
        /\ copies[c].event # Garbage
        /\ copies' = [copies EXCEPT ![c].at = "acked"]
        /\ handler' = [handler EXCEPT ![h] =
                         [pc |-> "mark", copy |-> c, try |-> 1, live |-> FALSE]]
        /\ UNCHANGED <<consumer, inbox, marking, confirmed, commits, topology,
                       faults, day>>
        /\ UNCHANGED jobVars

\* The broker delivers and handle() runs to its first await: content that does
\* not parse is rejected without requeue.
Deliver(h) ==
    \E c \in Copies :
        /\ consumer[ProcessOf[h]] = "up"
        /\ handler[h].pc = "free"
        /\ copies[c].at = "ready"
        /\ IF copies[c].event = Garbage
           THEN /\ copies' = [copies EXCEPT ![c].at = "dlq"]
                /\ UNCHANGED handler
           ELSE /\ copies' = [copies EXCEPT ![c].at = "held"]
                /\ handler' = [handler EXCEPT ![h] =
                                 [pc |-> "mark", copy |-> c, try |-> 1,
                                  live |-> TRUE]]
        /\ UNCHANGED <<consumer, inbox, marking, confirmed, commits, topology,
                       faults, day>>
        /\ UNCHANGED jobVars

\* Faulty variant: the mark commits by itself, before the effect.
InsertMarkAlone(h) ==
    /\ handler[h].pc = "mark"
    /\ marking[EventOf(h)] = None
    /\ IF inbox[EventOf(h)] = None
       THEN /\ inbox' = [inbox EXCEPT ![EventOf(h)] = day]
            /\ marking' = [marking EXCEPT ![EventOf(h)] = h]
            /\ handler' = [handler EXCEPT ![h].pc = "effect"]
       ELSE /\ handler' = [handler EXCEPT ![h].pc = "after"]
            /\ UNCHANGED <<marking, inbox>>
    /\ UNCHANGED <<consumer, confirmed, commits>>
    /\ UNCHANGED jobVars
    /\ UNCHANGED brokerVars

\* Faulty variant: the mark is looked up with a SELECT, which sees no uncommitted
\* one and waits for nobody.
InsertMarkUnseen(h) ==
    /\ handler[h].pc = "mark"
    /\ IF inbox[EventOf(h)] = None
       THEN /\ marking' = [marking EXCEPT ![EventOf(h)] = h]
            /\ handler' = [handler EXCEPT ![h].pc = "effect"]
       ELSE /\ handler' = [handler EXCEPT ![h].pc = "after"]
            /\ UNCHANGED marking
    /\ UNCHANGED <<consumer, inbox, confirmed, commits>>
    /\ UNCHANGED jobVars
    /\ UNCHANGED brokerVars

\* INSERT INTO processed_messages ON CONFLICT DO NOTHING waits for another
\* transaction's mark; a committed one ends this transaction.
InsertMark(h) ==
    /\ handler[h].pc = "mark"
    /\ marking[EventOf(h)] = None
    /\ IF inbox[EventOf(h)] = None
       THEN /\ marking' = [marking EXCEPT ![EventOf(h)] = h]
            /\ handler' = [handler EXCEPT ![h].pc = "effect"]
       ELSE /\ handler' = [handler EXCEPT ![h].pc = "after"]
            /\ UNCHANGED marking
    /\ UNCHANGED <<consumer, inbox, confirmed, commits>>
    /\ UNCHANGED jobVars
    /\ UNCHANGED brokerVars

\* The commit of mark and effect together; an order that is confirmed already
\* stays as it is (ON CONFLICT DO NOTHING).
CommitEffect(e) ==
    /\ inbox' = [inbox EXCEPT ![e] = day]
    /\ marking' = [marking EXCEPT ![e] = None]
    /\ confirmed' = confirmed \union {e}
    /\ commits' = [commits EXCEPT ![e] = @ + 1]

Apply(h) ==
    /\ handler[h].pc = "effect"
    /\ CommitEffect(EventOf(h))
    /\ handler' = [handler EXCEPT ![h].pc = "after"]
    /\ UNCHANGED consumer
    /\ UNCHANGED jobVars
    /\ UNCHANGED brokerVars

\* Faulty variant: catch() forgets the message; it stays unacknowledged.
DisposedSilently(h, transient) == copies

\* What catch() does with the message: back to the queue, or to the DLQ.  On a
\* channel that is closed neither reaches the broker.
Disposed(h, transient) ==
    LET c == handler[h].copy
    IN  IF ~handler[h].live THEN copies
        ELSE IF transient /\ copies[c].returns < MaxRedeliveries
             THEN [copies EXCEPT ![c] = Returned(@)]
             ELSE [copies EXCEPT ![c].at = "dlq"]

\* withLocalRetry: a transient error is retried in place, up to the limit.
RetryOrFail(h, transient) ==
    IF transient /\ handler[h].try < LocalAttempts
    THEN /\ handler' = [handler EXCEPT ![h].pc = "mark", ![h].try = @ + 1]
         /\ UNCHANGED copies
    ELSE /\ handler' = [handler EXCEPT ![h] = Free]
         /\ copies' = Disposed(h, transient)

Unmark(h) == [e \in Events |-> IF marking[e] = h THEN None ELSE marking[e]]

\* A statement of the transaction fails and it is rolled back.
DbError(h) ==
    /\ Fault
    /\ handler[h].pc \in {"mark", "effect"}
    /\ \E transient \in BOOLEAN : RetryOrFail(h, transient)
    /\ marking' = Unmark(h)
    /\ UNCHANGED <<consumer, inbox, confirmed, commits, topology, day>>
    /\ UNCHANGED jobVars

\* COMMIT is applied but its answer is lost, a transient error.
ApplyUnheard(h) ==
    /\ Fault
    /\ handler[h].pc = "effect"
    /\ CommitEffect(EventOf(h))
    /\ RetryOrFail(h, TRUE)
    /\ UNCHANGED <<consumer, topology, day>>
    /\ UNCHANGED jobVars

-----------------------------------------------------------------------------
(* afterEffect: the receipts job, deduplicated by its id.  REDIS_QUEUE_URL *)
(* is taken to be set; without it there is no afterEffect and no job.      *)

EnqueueReceipt(h) ==
    /\ handler[h].pc = "after"
    /\ AddJob(EventOf(h))
    /\ handler' = [handler EXCEPT ![h].pc = "ack"]
    /\ UNCHANGED <<consumer, inbox, marking, confirmed, commits>>
    /\ UNCHANGED brokerVars

\* add() fails, before or after Redis took the job: AfterEffectError, which
\* counts as transient but is not retried in place.
EnqueueFails(h) ==
    /\ Fault
    /\ handler[h].pc = "after"
    /\ AddJob(EventOf(h)) \/ UNCHANGED jobVars
    /\ handler' = [handler EXCEPT ![h] = Free]
    /\ copies' = Disposed(h, TRUE)
    /\ UNCHANGED <<consumer, inbox, marking, confirmed, commits, topology, day>>

\* ack() on a closed channel throws; the nack that follows does nothing.
Ack(h) ==
    /\ handler[h].pc = "ack"
    /\ copies' = IF handler[h].live
                 THEN [copies EXCEPT ![handler[h].copy].at = "acked"]
                 ELSE copies
    /\ handler' = [handler EXCEPT ![h] = Free]
    /\ UNCHANGED <<consumer, inbox, marking, confirmed, commits, topology,
                   faults, day>>
    /\ UNCHANGED jobVars

ConsumerStep(p) ==
    \/ StartConsumer(p)
    \/ DeclareTopology(p)
    \/ ExitConsumer(p)

HandlerStep(h) ==
    \/ Deliver(h)
    \/ InsertMark(h)
    \/ Apply(h)
    \/ EnqueueReceipt(h)
    \/ Ack(h)

ConsumerFault ==
    \/ \E p \in Consumers :
          Shutdown(p) \/ LoseConnection(p) \/ CancelConsumer(p) \/ CrashConsumer(p)
    \/ \E h \in Handlers : DbError(h) \/ ApplyUnheard(h) \/ EnqueueFails(h)

=============================================================================
