---------------------------- MODULE ReceiptQueue ----------------------------
(***************************************************************************)
(* The receipts queue of src/src/queue/receipts.queue.ts: one BullMQ job   *)
(* per order under the id receipt-<order>, and the worker that runs it.    *)
(* BullMQ itself is modelled by what the options ask of it: the job id     *)
(* deduplicates as long as the job is kept, attempts and stalls are        *)
(* limited, finished jobs are removed by age and by count.  A job that ends *)
(* applies its own options to all the jobs of the queue that ended alike,  *)
(* whatever their names: those of the two repeatable jobs trim receipts.   *)
(***************************************************************************)
EXTENDS EventBroker

CONSTANTS
    JobAttempts,   \* attempts of DEFAULT_JOB_OPTIONS
    MaxStalls,     \* stalls after which BullMQ fails a job (its default, 1)
    KeepCompleted, \* removeOnComplete.count of DEFAULT_JOB_OPTIONS
    KeepCron,      \* removeOnComplete.count and removeOnFail.count of the
                   \* repeatable jobs outbox-purge and files-orphan-sweep
    CompletedAge,  \* removeOnComplete.age, in days
    FailedAge      \* removeOnFail.age, in days

ASSUME JobAssumption ==
    /\ JobAttempts \in Nat \ {0}
    /\ MaxStalls \in Nat
    /\ KeepCompleted \in Nat \ {0}
    /\ KeepCron \in 1 .. KeepCompleted
    /\ CompletedAge \in Nat
    /\ FailedAge \in Nat

VARIABLES
    jobs,   \* the job of each order: state, attempts made, stalls, day it
            \* ended, jobs of the queue that ended alike since (counted up to
            \* KeepCompleted, which no comparison passes)
    added,  \* history: jobs created for each order
    sent    \* history: receipts the processor sent for each order

jobVars == <<jobs, added, sent>>

JobStates == {"absent", "waiting", "active", "completed", "failed"}

JobTypeOK ==
    /\ jobs \in [Events -> [state : JobStates, attempts : 0 .. JobAttempts,
                            stalls : 0 .. MaxStalls, at : 0 .. MaxDay,
                            newer : 0 .. KeepCompleted]]
    /\ added \in [Events -> Nat]
    /\ sent \in [Events -> Nat]

NoJob == [state |-> "absent", attempts |-> 0, stalls |-> 0, at |-> 0, newer |-> 0]

JobInit ==
    /\ jobs = [e \in Events |-> NoJob]
    /\ added = [e \in Events |-> 0]
    /\ sent = [e \in Events |-> 0]

Waiting == [NoJob EXCEPT !.state = "waiting"]

\* A job with this id, whatever its state, makes add() do nothing.
AddJob(e) ==
    IF jobs[e].state = "absent"
    THEN /\ jobs' = [jobs EXCEPT ![e] = Waiting]
         /\ added' = [added EXCEPT ![e] = @ + 1]
         /\ UNCHANGED sent
    ELSE UNCHANGED jobVars

\* The worker fetches the job (after its backoff, if it failed before).
PickJob(e) ==
    /\ jobs[e].state = "waiting"
    /\ jobs' = [jobs EXCEPT ![e].state = "active"]
    /\ UNCHANGED <<added, sent>>
    /\ UNCHANGED brokerVars

Ended(e, state) == [jobs[e] EXCEPT !.state = state, !.at = day, !.newer = 0]

TooOld(e, age) == day - jobs[e].at > age

\* Not among the `count` newest once another job has ended.
Outranked(e, count) == jobs[e].newer + 1 >= count

\* What becomes of job e when another one ends in `state`, and `gone` of those
\* that ended alike are removed.
Trimmed(e, state, gone) ==
    IF jobs[e].state # state THEN jobs[e]
    ELSE IF e \in gone THEN NoJob
    ELSE [jobs[e] EXCEPT !.newer = IF @ < KeepCompleted THEN @ + 1 ELSE @]

\* removeOnComplete and removeOnFail of a receipt.
Expired(state) ==
    IF state = "completed"
    THEN {e \in Events : TooOld(e, CompletedAge) \/ Outranked(e, KeepCompleted)}
    ELSE {e \in Events : TooOld(e, FailedAge)}

\* Those of a repeatable job, the same for both and without an age.
CronExpired == {e \in Events : Outranked(e, KeepCron)}

\* Job e ends in `state`.
JobEnds(e, state) ==
    jobs' = [f \in Events |->
               IF f = e THEN Ended(e, state) ELSE Trimmed(f, state, Expired(state))]

\* The processor sends the receipt and the job completes.
CompleteJob(e) ==
    /\ jobs[e].state = "active"
    /\ sent' = [sent EXCEPT ![e] = @ + 1]
    /\ JobEnds(e, "completed")
    /\ UNCHANGED added
    /\ UNCHANGED brokerVars

\* The processor throws: another attempt, or the job has failed for good.
FailJob(e) ==
    /\ Fault
    /\ jobs[e].state = "active"
    /\ IF jobs[e].attempts + 1 < JobAttempts
       THEN jobs' = [jobs EXCEPT ![e].state = "waiting", ![e].attempts = @ + 1]
       ELSE JobEnds(e, "failed")
    /\ UNCHANGED <<added, sent, topology, copies, day>>

\* Faulty variant: a stalled job is always run again.
StallJobForever(e) ==
    /\ Fault
    /\ jobs[e].state = "active"
    /\ \/ UNCHANGED sent
       \/ sent' = [sent EXCEPT ![e] = @ + 1]
    /\ jobs' = [jobs EXCEPT ![e].state = "waiting"]
    /\ UNCHANGED <<added, topology, copies, day>>

\* The worker dies with the job, possibly after the receipt went out: its lock
\* expires and the job is stalled.
StallJob(e) ==
    /\ Fault
    /\ jobs[e].state = "active"
    /\ \/ UNCHANGED sent
       \/ sent' = [sent EXCEPT ![e] = @ + 1]
    /\ IF jobs[e].stalls < MaxStalls
       THEN jobs' = [jobs EXCEPT ![e].state = "waiting", ![e].stalls = @ + 1]
       ELSE JobEnds(e, "failed")
    /\ UNCHANGED <<added, topology, copies, day>>

\* Another job of the queue ends: the receipt of an order outside Events ...
OtherReceiptEnds(state) ==
    /\ jobs' = [e \in Events |-> Trimmed(e, state, Expired(state))]
    /\ UNCHANGED <<added, sent>>
    /\ UNCHANGED brokerVars

\* ... or a repeatable job.
CronJobEnds(state) ==
    /\ jobs' = [e \in Events |-> Trimmed(e, state, CronExpired)]
    /\ UNCHANGED <<added, sent>>
    /\ UNCHANGED brokerVars

OtherJobEnds ==
    \E state \in {"completed", "failed"} : OtherReceiptEnds(state) \/ CronJobEnds(state)

JobStep(e) == PickJob(e) \/ CompleteJob(e)

JobFault(e) == FailJob(e) \/ StallJob(e)

=============================================================================
