-------------------------- MODULE OutboxRetention ---------------------------
(***************************************************************************)
(* purgeOutbox() of src/src/outbox/retention.ts, run by the outbox-purge   *)
(* job: published rows, then inbox marks, in batches that each commit by   *)
(* themselves, against two cutoffs taken when the purge starts.            *)
(***************************************************************************)
EXTENDS OutboxRelay, OrderConsumer

CONSTANTS
    OutboxDays,   \* OUTBOX_RETENTION_MS, in days
    InboxDays,    \* INBOX_RETENTION_MS, in days
    PurgeBatch    \* PURGE_BATCH_SIZE

ASSUME RetentionAssumption ==
    /\ OutboxDays \in Nat
    /\ InboxDays \in Nat
    /\ PurgeBatch \in Nat \ {0}

VARIABLES
    purge,      \* the running purge: its phase and the day it started
    forgotten   \* history: how often the inbox mark of each event was purged

retentionVars == <<purge, forgotten>>

RetentionTypeOK ==
    /\ purge \in [phase : {"idle", "outbox", "inbox"}, since : 0 .. MaxDay]
    /\ forgotten \in [Events -> Nat]

RetentionInit ==
    /\ purge = [phase |-> "idle", since |-> 0]
    /\ forgotten = [e \in Events |-> 0]

StartPurge ==
    /\ purge.phase = "idle"
    /\ purge' = [phase |-> "outbox", since |-> day]
    /\ UNCHANGED forgotten
    /\ UNCHANGED relayVars
    /\ UNCHANGED consumerVars
    /\ UNCHANGED jobVars
    /\ UNCHANGED brokerVars

\* Faulty variant: published_at IS NOT NULL is forgotten and the age taken
\* from created_at.
OldRowsUnpublished ==
    {e \in Events : outbox[e].state \in {"pending", "published"}
                    /\ purge.since - outbox[e].at > OutboxDays}

OldRows ==
    {e \in Events : outbox[e].state = "published"
                    /\ purge.since - outbox[e].at > OutboxDays}

OldMarks ==
    {e \in Events : inbox[e] # None /\ purge.since - inbox[e] > InboxDays}

\* A LIMIT without ORDER BY takes any of the rows; a short batch is the last.
IsBatch(batch, old) ==
    /\ batch \subseteq old
    /\ \/ Cardinality(batch) = PurgeBatch
       \/ batch = old /\ Cardinality(old) < PurgeBatch

After(phase, batch) ==
    IF Cardinality(batch) < PurgeBatch THEN phase ELSE purge.phase

PurgeRows ==
    /\ purge.phase = "outbox"
    /\ \E batch \in SUBSET OldRows :
          /\ IsBatch(batch, OldRows)
          /\ outbox' = [e \in Events |->
                          IF e \in batch THEN [outbox[e] EXCEPT !.state = "purged"]
                          ELSE outbox[e]]
          /\ purge' = [purge EXCEPT !.phase = After("inbox", batch)]
    /\ UNCHANGED <<relay, refusals, forgotten>>
    /\ UNCHANGED consumerVars
    /\ UNCHANGED jobVars
    /\ UNCHANGED brokerVars

PurgeMarks ==
    /\ purge.phase = "inbox"
    /\ \E batch \in SUBSET OldMarks :
          /\ IsBatch(batch, OldMarks)
          /\ inbox' = [e \in Events |-> IF e \in batch THEN None ELSE inbox[e]]
          /\ forgotten' = [e \in Events |->
                             IF e \in batch THEN forgotten[e] + 1 ELSE forgotten[e]]
          /\ purge' = [purge EXCEPT !.phase = After("idle", batch)]
    /\ UNCHANGED <<consumer, handler, marking, confirmed, commits>>
    /\ UNCHANGED relayVars
    /\ UNCHANGED jobVars
    /\ UNCHANGED brokerVars

\* The job fails between two batches; BullMQ runs it again from the start.
FailPurge ==
    /\ Fault
    /\ purge.phase # "idle"
    /\ purge' = [purge EXCEPT !.phase = "idle"]
    /\ UNCHANGED <<forgotten, topology, copies, day>>
    /\ UNCHANGED relayVars
    /\ UNCHANGED consumerVars
    /\ UNCHANGED jobVars

RetentionStep == StartPurge \/ PurgeRows \/ PurgeMarks \/ FailPurge

=============================================================================
