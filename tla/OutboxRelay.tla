---------------------------- MODULE OutboxRelay ----------------------------
(***************************************************************************)
(* The outbox table and the relay processes of src/src/outbox/relay.ts:    *)
(* relayBatch() claims unpublished rows FOR UPDATE SKIP LOCKED, publishes  *)
(* them one by one on a confirm channel, waits for all confirms and marks  *)
(* the rows.  Rows become visible when placeOrder commits (PlaceRow).      *)
(***************************************************************************)
EXTENDS EventBroker

CONSTANTS
    Relays,         \* relay processes
    BatchSize,      \* RELAY_BATCH_SIZE
    MaxAttempts,    \* RELAY_MAX_ATTEMPTS
    Backpressure    \* whether publish() may return false

ASSUME RelayAssumption ==
    /\ BatchSize \in Nat \ {0}
    /\ MaxAttempts \in Nat \ {0}
    /\ Backpressure \in BOOLEAN
    /\ None \notin 0 .. MaxDay

VARIABLES
    outbox,     \* each row: absent, pending, published or purged; attempts;
                \* published_at as a day
    relay,      \* each relay: what it does, the rows its open transaction
                \* has locked, what became of those it published, its channel
    refusals    \* history: publishes of each event the broker refused

relayVars == <<outbox, relay, refusals>>

Outcomes == {"unsent", "stored", "refused", "closed"}

RelayTypeOK ==
    /\ outbox \in [Events -> [state : {"absent", "pending", "published", "purged"},
                              attempts : 0 .. MaxAttempts, at : 0 .. MaxDay]]
    /\ relay \in [Relays -> [pc : {"down", "idle", "publish", "drain", "dead"},
                             batch : SUBSET Events,
                             sent : [Events -> Outcomes],
                             channel : {"open", "closed"}]]
    /\ refusals \in [Events -> Nat]

NothingSent == [e \in Events |-> "unsent"]

Down == [pc |-> "down", batch |-> {}, sent |-> NothingSent, channel |-> "closed"]

Idle(r) == [relay[r] EXCEPT !.pc = "idle", !.batch = {}, !.sent = NothingSent]

RelayInit ==
    /\ outbox = [e \in Events |-> [state |-> "absent", attempts |-> 0, at |-> 0]]
    /\ relay = [r \in Relays |-> Down]
    /\ refusals = [e \in Events |-> 0]

Placed(e) == outbox[e].state # "absent"

Parked(e) == outbox[e].state = "pending" /\ outbox[e].attempts = MaxAttempts

\* The commit of placeOrder makes the row visible.
PlaceRow(e) ==
    /\ ~Placed(e)
    /\ outbox' = [outbox EXCEPT ![e].state = "pending"]
    /\ UNCHANGED <<relay, refusals>>
    /\ UNCHANGED brokerVars

\* The process connects and opens its confirm channel.
StartRelay(r) ==
    /\ relay[r].pc = "down"
    /\ relay' = [relay EXCEPT ![r].pc = "idle", ![r].channel = "open"]
    /\ UNCHANGED <<outbox, refusals>>
    /\ UNCHANGED brokerVars

Locked(e) == \E r \in Relays : e \in relay[r].batch

\* Faulty variant: AND attempts < $2 is left out of the SELECT.
PendingForever(e) == outbox[e].state = "pending"

\* WHERE published_at IS NULL AND attempts < $2
Pending(e) == outbox[e].state = "pending" /\ outbox[e].attempts < MaxAttempts

\* Faulty variant: FOR UPDATE SKIP LOCKED is left out of the SELECT.
ClaimableLocked(e) == Pending(e)

Claimable(e) == Pending(e) /\ ~Locked(e)

\* ORDER BY created_at LIMIT $1: the oldest claimable rows.
Oldest(batch) ==
    /\ batch # {}
    /\ \A e \in batch : Claimable(e)
    /\ \A e \in Events \ batch :
          Claimable(e) =>
              Cardinality(batch) = BatchSize /\ \A f \in batch : f < e
    /\ Cardinality(batch) <= BatchSize

ClaimBatch(r) ==
    /\ relay[r].pc = "idle"
    /\ \E batch \in SUBSET Events :
          /\ Oldest(batch)
          /\ relay' = [relay EXCEPT ![r].pc = "publish", ![r].batch = batch]
    /\ UNCHANGED <<outbox, refusals>>
    /\ UNCHANGED brokerVars

NextRow(r, e) ==
    /\ e \in relay[r].batch
    /\ relay[r].sent[e] = "unsent"
    /\ \A f \in relay[r].batch : f < e => relay[r].sent[f] # "unsent"

\* After the write publish() asks to wait for 'drain', or not.
AfterWrite == {"publish"} \union (IF Backpressure THEN {"drain"} ELSE {})

\* publishRow on an open channel: the broker stores and will confirm the
\* message ...
PublishStored(r) ==
    \E e \in Events, label \in AfterWrite :
        /\ relay[r].pc = "publish"
        /\ NextRow(r, e)
        /\ relay[r].channel = "open"
        /\ topology # "none"
        /\ Store(e)
        /\ relay' = [relay EXCEPT ![r].pc = label, ![r].sent[e] = "stored"]
        /\ UNCHANGED <<outbox, refusals, topology, faults, day>>

\* Faulty variant: a publish counts as confirmed whatever the broker answers.
PublishRefusedIgnored(r) ==
    \E e \in Events :
        /\ Fault
        /\ relay[r].pc = "publish"
        /\ NextRow(r, e)
        /\ relay[r].channel = "open"
        /\ relay' = [relay EXCEPT ![r].sent[e] = "stored"]
        /\ refusals' = [refusals EXCEPT ![e] = @ + 1]
        /\ UNCHANGED <<outbox, topology, copies, day>>

\* ... or refuses it (a nack; the same for a payload that cannot be
\* serialized) ...
PublishRefused(r) ==
    \E e \in Events, label \in AfterWrite :
        /\ Fault
        /\ relay[r].pc = "publish"
        /\ NextRow(r, e)
        /\ relay[r].channel = "open"
        /\ relay' = [relay EXCEPT ![r].pc = label, ![r].sent[e] = "refused"]
        /\ refusals' = [refusals EXCEPT ![e] = @ + 1]
        /\ UNCHANGED <<outbox, topology, copies, day>>

\* ... or there is no shop.events yet and it closes the channel.
PublishNoExchange(r) ==
    \E e \in Events, label \in AfterWrite :
        /\ relay[r].pc = "publish"
        /\ NextRow(r, e)
        /\ relay[r].channel = "open"
        /\ topology = "none"
        /\ relay' = [relay EXCEPT ![r].pc = label, ![r].sent[e] = "closed",
                                  ![r].channel = "closed"]
        /\ UNCHANGED <<outbox, refusals>>
        /\ UNCHANGED brokerVars

\* publishRow on a closed channel throws inside the promise: the confirm is
\* rejected with "Channel closed", and nothing asks for a wait.
PublishClosed(r) ==
    \E e \in Events :
        /\ relay[r].pc = "publish"
        /\ NextRow(r, e)
        /\ relay[r].channel = "closed"
        /\ relay' = [relay EXCEPT ![r].sent[e] = "closed"]
        /\ UNCHANGED <<outbox, refusals>>
        /\ UNCHANGED brokerVars

\* 'drain' comes only from a live channel; nothing else ends the wait.
Drained(r) ==
    /\ relay[r].pc = "drain"
    /\ relay[r].channel = "open"
    /\ relay' = [relay EXCEPT ![r].pc = "publish"]
    /\ UNCHANGED <<outbox, refusals>>
    /\ UNCHANGED brokerVars

AllSent(r) ==
    /\ relay[r].pc = "publish"
    /\ relay[r].batch # {}
    /\ \A e \in relay[r].batch : relay[r].sent[e] # "unsent"

\* The rows after a commit that marks them.  published_at is the day of BEGIN:
\* a batch is taken to be shorter than a day.
Marked(r) ==
    [e \in Events |->
        IF e \notin relay[r].batch THEN outbox[e]
        ELSE IF relay[r].sent[e] = "stored"
             THEN [state |-> "published", attempts |-> outbox[e].attempts + 1,
                   at |-> day]
             ELSE [outbox[e] EXCEPT !.attempts = @ + 1]]

\* All confirms are settled and none says that the channel is closed (it may
\* have been closed after the last confirm): the rows are marked and the
\* transaction commits.
MarkBatch(r) ==
    /\ AllSent(r)
    /\ \A e \in relay[r].batch : relay[r].sent[e] # "closed"
    /\ outbox' = Marked(r)
    /\ relay' = [relay EXCEPT ![r] = Idle(r)]
    /\ UNCHANGED refusals
    /\ UNCHANGED brokerVars

\* Postgres commits the marks but the relay does not hear of it: it exits.
MarkUnheard(r) ==
    /\ Fault
    /\ AllSent(r)
    /\ \A e \in relay[r].batch : relay[r].sent[e] # "closed"
    /\ outbox' = Marked(r)
    /\ relay' = [relay EXCEPT ![r] = Down]
    /\ UNCHANGED <<refusals, topology, copies, day>>

\* Faulty variant: every settled confirm that was not positive counts as the
\* row's failure, also when the channel is gone.
SettleClosedAsFailed(r) ==
    /\ AllSent(r)
    /\ relay[r].channel = "closed"
    /\ outbox' = Marked(r)
    /\ relay' = [relay EXCEPT ![r] = Down]
    /\ UNCHANGED refusals
    /\ UNCHANGED brokerVars

\* A confirm was rejected because the channel is closed: roll back, rethrow,
\* and main() exits.
SettleClosed(r) ==
    /\ AllSent(r)
    /\ relay[r].channel = "closed"
    /\ relay' = [relay EXCEPT ![r] = Down]
    /\ UNCHANGED <<outbox, refusals>>
    /\ UNCHANGED brokerVars

\* The connection is closed by the broker without an error event: confirms
\* that are still out are rejected, messages already stored stay.
CloseRelayChannel(r) ==
    /\ Fault
    /\ relay[r].pc # "down"
    /\ relay[r].pc # "dead"
    /\ relay[r].channel = "open"
    /\ relay' = [relay EXCEPT ![r].channel = "closed"]
    /\ UNCHANGED <<outbox, refusals, topology, copies, day>>

\* The process dies anywhere, also on a DB error or an 'error' event of the
\* connection; its row locks stay until Postgres notices.
CrashRelay(r) ==
    /\ Fault
    /\ relay[r].pc \notin {"down", "dead"}
    /\ relay' = [relay EXCEPT ![r].pc = "dead"]
    /\ UNCHANGED <<outbox, refusals, topology, copies, day>>

\* Postgres rolls the dead relay's transaction back.
ReleaseDeadRelay(r) ==
    /\ relay[r].pc = "dead"
    /\ relay' = [relay EXCEPT ![r] = Down]
    /\ UNCHANGED <<outbox, refusals>>
    /\ UNCHANGED brokerVars

\* The relay's own steps and those of Postgres on its behalf.
RelayStep(r) ==
    \/ StartRelay(r)
    \/ ClaimBatch(r)
    \/ PublishStored(r)
    \/ PublishNoExchange(r)
    \/ PublishClosed(r)
    \/ Drained(r)
    \/ MarkBatch(r)
    \/ SettleClosed(r)
    \/ ReleaseDeadRelay(r)

RelayFault(r) ==
    \/ PublishRefused(r)
    \/ MarkUnheard(r)
    \/ CloseRelayChannel(r)
    \/ CrashRelay(r)

=============================================================================
