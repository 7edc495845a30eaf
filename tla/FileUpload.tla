----------------------------- MODULE FileUpload -----------------------------
(***************************************************************************)
(* The upload contract of src/src/files/files.service.ts (intent, resume,  *)
(* commit) and the orphan sweep of src/src/files/orphans.ts, against the   *)
(* files table and an S3 object store.  The bytes go from the client to    *)
(* the store with presigned URLs.  One action per statement or request to  *)
(* the store; between two of them everybody else runs.                     *)
(***************************************************************************)
EXTENDS Naturals, FiniteSets

CONSTANTS
    Files,       \* intent calls; file f is the row that call f may insert
    Keys,        \* Idempotency-Key values, per owner
    NoKey,
    KeyOf,       \* the key call f carries, or NoKey
    Bodies,      \* contentType and size a call can ask for
    BodyOf,      \* the body of call f
    Big,         \* bodies above MULTIPART_THRESHOLD_BYTES
    Parts,       \* part numbers of a multipart upload
    Kinds,       \* what clients put: "good", "fake" (content that is not its
                 \* type); "short" only where the store ignores a signed length
    Commits,     \* commit calls
    Sweepers,    \* workers that run the sweep
    SweepBatch,  \* BATCH
    MaxFaults,   \* faults the environment may inject (a bound)
    None

ASSUME UploadAssumption ==
    /\ KeyOf \in [Files -> Keys \union {NoKey}]
    /\ NoKey \notin Keys
    /\ BodyOf \in [Files -> Bodies]
    /\ Big \subseteq Bodies
    /\ IsFiniteSet(Parts) /\ Parts # {}
    /\ Kinds \subseteq {"good", "short", "fake"}
    /\ SweepBatch \in Nat \ {0}
    /\ MaxFaults \in Nat
    /\ None \notin Files \union Sweepers

VARIABLES
    status,   \* each row: absent, pending, completed, deleted
    named,    \* rows whose upload_id is set
    old,      \* rows created more than ORPHAN_AGE_HOURS ago
    lock,     \* sweeper whose transaction has locked the row
    upload,   \* the multipart upload made for a row: none, open, done, aborted
    parts,    \* parts the store has of it
    object,   \* what is stored under the row's key
    signed,   \* rows the client has a valid presigned URL for
    intent,   \* each intent call: its next step, its row, its answer
    commit,   \* each commit call, likewise
    sweep,    \* each sweeper: its batch, rows still to do, uploads aborted
    faults

rows == <<status, named, old, lock>>
store == <<upload, parts, object>>
vars == <<rows, store, signed, intent, commit, sweep, faults>>

IntentAnswers == {"none", "urls", "completed", "missing", "mismatch",
                  "conflict", "gone", "failed"}
CommitAnswers == {"none", "completed", "missing", "conflict", "refused", "failed"}

TypeOK ==
    /\ status \in [Files -> {"absent", "pending", "completed", "deleted"}]
    /\ named \in SUBSET Files
    /\ old \in SUBSET Files
    /\ lock \in [Files -> Sweepers \union {None}]
    /\ upload \in [Files -> {"none", "open", "done", "aborted"}]
    /\ parts \in [Files -> SUBSET Parts]
    /\ object \in [Files -> {"none", "good", "short", "fake"}]
    /\ signed \in SUBSET Files
    /\ intent \in [Files -> [pc : {"insert", "find", "create", "save", "sign", "done"},
                             file : Files \union {None}, answer : IntentAnswers]]
    /\ commit \in [Commits -> [pc : {"start", "list", "recheck", "complete", "head",
                                     "magic", "drop", "update", "done"},
                               file : Files \union {None}, answer : CommitAnswers]]
    /\ sweep \in [Sweepers -> [batch : SUBSET Files, left : SUBSET Files,
                               aborted : SUBSET Files]]
    /\ faults \in 0 .. MaxFaults

NoBatch == [batch |-> {}, left |-> {}, aborted |-> {}]

Init ==
    /\ status = [f \in Files |-> "absent"]
    /\ named = {}
    /\ old = {}
    /\ lock = [f \in Files |-> None]
    /\ upload = [f \in Files |-> "none"]
    /\ parts = [f \in Files |-> {}]
    /\ object = [f \in Files |-> "none"]
    /\ signed = {}
    /\ intent = [i \in Files |-> [pc |-> "insert", file |-> None, answer |-> "none"]]
    /\ commit = [c \in Commits |-> [pc |-> "start", file |-> None, answer |-> "none"]]
    /\ sweep = [s \in Sweepers |-> NoBatch]
    /\ faults = 0

IsBig(f) == BodyOf[f] \in Big

Live(f) == status[f] \in {"pending", "completed"}

Fault ==
    /\ faults < MaxFaults
    /\ faults' = faults + 1

-----------------------------------------------------------------------------
(* intent()                                                                *)

IntentAt(i, pc, f) == intent' = [intent EXCEPT ![i].pc = pc, ![i].file = f]

AnswerIntent(i, answer) ==
    intent' = [intent EXCEPT ![i].pc = "done", ![i].answer = answer]

\* The row uq_files_owner_idempotency_key finds.
Holder(i) == {f \in Files : KeyOf[i] # NoKey /\ KeyOf[f] = KeyOf[i] /\ Live(f)}

\* Faulty variant: the INSERT has no ON CONFLICT and the table no unique key.
InsertRowAlways(i) ==
    /\ intent[i].pc = "insert"
    /\ status' = [status EXCEPT ![i] = "pending"]
    /\ IntentAt(i, IF IsBig(i) THEN "create" ELSE "sign", i)
    /\ UNCHANGED <<named, old, lock, signed, commit, sweep, faults>>
    /\ UNCHANGED store

\* INSERT INTO files ON CONFLICT DO NOTHING, a transaction of its own.
InsertRow(i) ==
    /\ intent[i].pc = "insert"
    /\ IF Holder(i) = {}
       THEN /\ status' = [status EXCEPT ![i] = "pending"]
            /\ IntentAt(i, IF IsBig(i) THEN "create" ELSE "sign", i)
       ELSE /\ IntentAt(i, "find", None)
            /\ UNCHANGED status
    /\ UNCHANGED <<named, old, lock, signed, commit, sweep, faults>>
    /\ UNCHANGED store

\* The double tap reads the row; by now it may be completed, or swept.
FindRow(i) ==
    /\ intent[i].pc = "find"
    /\ IF Holder(i) = {}
       THEN AnswerIntent(i, "missing")
       ELSE \E f \in Holder(i) :
              IF BodyOf[f] # BodyOf[i] THEN AnswerIntent(i, "mismatch")
              ELSE IF status[f] = "completed" THEN AnswerIntent(i, "completed")
              ELSE IF IsBig(f) /\ f \notin named THEN AnswerIntent(i, "conflict")
              ELSE IntentAt(i, "sign", f)
    /\ UNCHANGED <<signed, commit, sweep, faults>>
    /\ UNCHANGED rows
    /\ UNCHANGED store

CreateUpload(i) ==
    /\ intent[i].pc = "create"
    /\ upload' = [upload EXCEPT ![i] = "open"]
    /\ IntentAt(i, "save", i)
    /\ UNCHANGED <<parts, object, signed, commit, sweep, faults>>
    /\ UNCHANGED rows

\* UPDATE files SET upload_id.
SaveUpload(i) ==
    /\ intent[i].pc = "save"
    /\ lock[i] = None
    /\ named' = IF Live(i) THEN named \union {i} ELSE named
    /\ IntentAt(i, "sign", i)
    /\ UNCHANGED <<status, old, lock, signed, commit, sweep, faults>>
    /\ UNCHANGED store

\* signFor: URLs for the object, or for the parts the store does not have.
CanSign(f) == IsBig(f) => upload[f] = "open"

Sign(i) ==
    LET f == intent[i].file
    IN  /\ intent[i].pc = "sign"
        /\ IF CanSign(f)
           THEN /\ AnswerIntent(i, "urls")
                /\ signed' = signed \union {f}
           ELSE /\ AnswerIntent(i, "gone")
                /\ UNCHANGED signed
        /\ UNCHANGED <<commit, sweep, faults>>
        /\ UNCHANGED rows
        /\ UNCHANGED store

\* A request of the call fails, or its process dies.
IntentFails(i) ==
    /\ Fault
    /\ intent[i].pc # "done"
    /\ AnswerIntent(i, "failed")
    /\ UNCHANGED <<signed, commit, sweep>>
    /\ UNCHANGED rows
    /\ UNCHANGED store

\* resume(): fresh URLs for an upload that is still open.
Resume(f) ==
    /\ status[f] = "pending"
    /\ f \in named
    /\ CanSign(f)
    /\ f \notin signed
    /\ signed' = signed \union {f}
    /\ UNCHANGED <<intent, commit, sweep, faults>>
    /\ UNCHANGED rows
    /\ UNCHANGED store

-----------------------------------------------------------------------------
(* The client and the store.                                               *)

\* A single PUT, possibly repeated with other bytes.
PutObject(f) ==
    /\ f \in signed
    /\ ~IsBig(f)
    /\ \E kind \in Kinds : object' = [object EXCEPT ![f] = kind]
    /\ UNCHANGED <<upload, parts, signed, intent, commit, sweep, faults>>
    /\ UNCHANGED rows

UploadPart(f) ==
    /\ f \in signed
    /\ IsBig(f)
    /\ upload[f] = "open"
    /\ \E n \in Parts \ parts[f] : parts' = [parts EXCEPT ![f] = @ \union {n}]
    /\ UNCHANGED <<upload, object, signed, intent, commit, sweep, faults>>
    /\ UNCHANGED rows

\* A day passes for a row: no URL signed before is valid any more, and no
\* intent call that was at work on it still is.
Age(f) ==
    /\ status[f] = "pending"
    /\ f \notin old
    /\ \A i \in Files : intent[i].file = f => intent[i].pc = "done"
    /\ old' = old \union {f}
    /\ signed' = signed \ {f}
    /\ UNCHANGED <<status, named, lock, intent, commit, sweep, faults>>
    /\ UNCHANGED store

-----------------------------------------------------------------------------
(* commit()                                                                *)

CommitAt(c, pc) == commit' = [commit EXCEPT ![c].pc = pc]

AnswerCommit(c, answer) ==
    commit' = [commit EXCEPT ![c].pc = "done", ![c].answer = answer]

OnlyCommit ==
    /\ UNCHANGED <<signed, intent, sweep>>
    /\ UNCHANGED rows

\* The client commits a file an intent call was answered with.
FindFile(c) ==
    /\ commit[c].pc = "start"
    /\ \E f \in {intent[i].file : i \in {j \in Files : intent[j].answer = "urls"}} :
         commit' = [commit EXCEPT ![c] =
             CASE status[f] = "deleted"   -> [pc |-> "done", file |-> f,
                                              answer |-> "missing"]
               [] status[f] = "completed" -> [pc |-> "done", file |-> f,
                                              answer |-> "completed"]
               [] status[f] = "pending"   -> [pc |-> IF f \in named THEN "list" ELSE "head",
                                              file |-> f, answer |-> "none"]]
    /\ OnlyCommit
    /\ UNCHANGED store
    /\ UNCHANGED faults

\* Faulty variant: the number of parts is not checked.
ListPartsUnchecked(c) ==
    /\ commit[c].pc = "list"
    /\ CommitAt(c, IF upload[commit[c].file] # "open" THEN "recheck" ELSE "complete")
    /\ OnlyCommit
    /\ UNCHANGED store
    /\ UNCHANGED faults

\* ListParts, with the check of their number and sizes.
ListParts(c) ==
    LET f == commit[c].file
    IN  /\ commit[c].pc = "list"
        /\ IF upload[f] # "open" THEN CommitAt(c, "recheck")
           ELSE IF parts[f] # Parts THEN AnswerCommit(c, "conflict")
           ELSE CommitAt(c, "complete")
        /\ OnlyCommit
        /\ UNCHANGED store
        /\ UNCHANGED faults

\* NoSuchUpload: somebody else completed it if the object is there; if not the
\* error is rethrown.
Recheck(c) ==
    /\ commit[c].pc = "recheck"
    /\ IF object[commit[c].file] # "none" THEN CommitAt(c, "head")
       ELSE AnswerCommit(c, "failed")
    /\ OnlyCommit
    /\ UNCHANGED store
    /\ UNCHANGED faults

\* CompleteMultipartUpload; a NoSuchUpload is ignored.
CompleteUpload(c) ==
    LET f == commit[c].file
    IN  /\ commit[c].pc = "complete"
        /\ IF upload[f] = "open"
           THEN /\ upload' = [upload EXCEPT ![f] = "done"]
                /\ \E kind \in Kinds \ {"short"} :
                      object' = [object EXCEPT ![f] = kind]
           ELSE UNCHANGED <<upload, object>>
        /\ CommitAt(c, "head")
        /\ OnlyCommit
        /\ UNCHANGED <<parts, faults>>

\* HeadObject: there, and of the declared size.
Head(c) ==
    LET f == commit[c].file
    IN  /\ commit[c].pc = "head"
        /\ IF object[f] = "none" THEN AnswerCommit(c, "conflict")
           ELSE commit' = [commit EXCEPT
                             ![c].pc = IF object[f] = "short" THEN "drop" ELSE "magic",
                             ![c].answer = IF object[f] = "short" THEN "conflict" ELSE @]
        /\ OnlyCommit
        /\ UNCHANGED store
        /\ UNCHANGED faults

\* Faulty variant: the commit is answered before the row is updated.
ReadMagicEarly(c) ==
    LET f == commit[c].file
    IN  /\ commit[c].pc = "magic"
        /\ commit' = [commit EXCEPT
                ![c].pc = IF object[f] = "good" THEN "update" ELSE "drop",
                ![c].answer = IF object[f] = "good" THEN "completed" ELSE "refused"]
        /\ OnlyCommit
        /\ UNCHANGED store
        /\ UNCHANGED faults

\* The first bytes; an object deleted meanwhile is an error nobody catches.
ReadMagic(c) ==
    LET f == commit[c].file
    IN  /\ commit[c].pc = "magic"
        /\ IF object[f] = "none" THEN AnswerCommit(c, "failed")
           ELSE commit' = [commit EXCEPT
                             ![c].pc = IF object[f] = "fake" THEN "drop" ELSE "update",
                             ![c].answer = IF object[f] = "fake" THEN "refused" ELSE @]
        /\ OnlyCommit
        /\ UNCHANGED store
        /\ UNCHANGED faults

\* DeleteObject before the refusal is thrown.
DropObject(c) ==
    /\ commit[c].pc = "drop"
    /\ object' = [object EXCEPT ![commit[c].file] = "none"]
    /\ CommitAt(c, "done")
    /\ OnlyCommit
    /\ UNCHANGED <<upload, parts, faults>>

\* Faulty variant: the UPDATE writes a status the table does not have.
UpdateStatusUnknown(c) ==
    /\ commit[c].pc = "update"
    /\ lock[commit[c].file] = None
    /\ status' = [status EXCEPT ![commit[c].file] = "committed"]
    /\ AnswerCommit(c, "completed")
    /\ UNCHANGED <<named, old, lock, signed, intent, sweep, faults>>
    /\ UNCHANGED store

\* UPDATE ... WHERE status = 'PENDING' waits for a sweep that has the row; the
\* answer is the same whether it matched or not.
UpdateStatus(c) ==
    LET f == commit[c].file
    IN  /\ commit[c].pc = "update"
        /\ lock[f] = None
        /\ status' = [status EXCEPT ![f] = IF @ = "pending" THEN "completed" ELSE @]
        /\ AnswerCommit(c, "completed")
        /\ UNCHANGED <<named, old, lock, signed, intent, sweep, faults>>
        /\ UNCHANGED store

CommitFails(c) ==
    /\ Fault
    /\ commit[c].pc \notin {"start", "done"}
    /\ AnswerCommit(c, "failed")
    /\ OnlyCommit
    /\ UNCHANGED store

-----------------------------------------------------------------------------
(* sweepOrphanFiles()                                                      *)

\* Faulty variant: rows another sweep has locked are not skipped.
SweepableLocked == {f \in old : status[f] = "pending"}

Sweepable == {f \in old : status[f] = "pending" /\ lock[f] = None}

\* Faulty variant: the SELECT has no FOR UPDATE.
ClaimOrphansUnlocked(s) ==
    /\ sweep[s] = NoBatch
    /\ \E f \in Sweepable :
         sweep' = [sweep EXCEPT ![s] = [batch |-> {f}, left |-> {f},
                                        aborted |-> {f} \ named]]
    /\ UNCHANGED <<signed, intent, commit, faults>>
    /\ UNCHANGED rows
    /\ UNCHANGED store

ClaimOrphans(s) ==
    /\ sweep[s] = NoBatch
    /\ \E batch \in SUBSET Sweepable \ {{}} :
         /\ \/ Cardinality(batch) = SweepBatch
            \/ batch = Sweepable /\ Cardinality(batch) < SweepBatch
         /\ sweep' = [sweep EXCEPT ![s] = [batch |-> batch, left |-> batch,
                                           aborted |-> batch \ named]]
         /\ lock' = [f \in Files |-> IF f \in batch THEN s ELSE lock[f]]
    /\ UNCHANGED <<status, named, old, signed, intent, commit, faults>>
    /\ UNCHANGED store

Unlock(s) == [f \in Files |-> IF lock[f] = s THEN None ELSE lock[f]]

\* Faulty variant: NoSuchUpload is not ignored, the sweep is rolled back.
AbortUploadThrows(s) ==
    /\ \E f \in sweep[s].left \ sweep[s].aborted :
         IF upload[f] = "open"
         THEN /\ upload' = [upload EXCEPT ![f] = "aborted"]
              /\ sweep' = [sweep EXCEPT ![s].aborted = @ \union {f}]
              /\ UNCHANGED lock
         ELSE /\ sweep' = [sweep EXCEPT ![s] = NoBatch]
              /\ lock' = Unlock(s)
              /\ UNCHANGED upload
    /\ UNCHANGED <<parts, object, signed, intent, commit, faults>>
    /\ UNCHANGED <<status, named, old>>

\* AbortMultipartUpload of a row that named an upload when it was read.
AbortUpload(s) ==
    /\ \E f \in sweep[s].left \ sweep[s].aborted :
         /\ upload' = [upload EXCEPT ![f] = IF @ = "open" THEN "aborted" ELSE @]
         /\ sweep' = [sweep EXCEPT ![s].aborted = @ \union {f}]
    /\ UNCHANGED <<parts, object, signed, intent, commit, faults>>
    /\ UNCHANGED rows

\* Faulty variant: the object is deleted before the upload is aborted.
DeleteObjectFirst(s) ==
    /\ \E f \in sweep[s].left :
         /\ object' = [object EXCEPT ![f] = "none"]
         /\ sweep' = [sweep EXCEPT ![s].left = @ \ {f}]
    /\ UNCHANGED <<upload, parts, signed, intent, commit, faults>>
    /\ UNCHANGED rows

DeleteObject(s) ==
    /\ \E f \in sweep[s].left \intersect sweep[s].aborted :
         /\ object' = [object EXCEPT ![f] = "none"]
         /\ sweep' = [sweep EXCEPT ![s].left = @ \ {f}]
    /\ UNCHANGED <<upload, parts, signed, intent, commit, faults>>
    /\ UNCHANGED rows

\* DELETE FROM files and COMMIT.
DeleteRows(s) ==
    /\ sweep[s].batch # {}
    /\ sweep[s].left = {}
    /\ status' = [f \in Files |->
                    IF f \in sweep[s].batch THEN "deleted" ELSE status[f]]
    /\ lock' = Unlock(s)
    /\ sweep' = [sweep EXCEPT ![s] = NoBatch]
    /\ UNCHANGED <<named, old, signed, intent, commit, faults>>
    /\ UNCHANGED store

\* A request fails or the worker dies: the transaction is rolled back, what
\* was done in the store stays done.
SweepFails(s) ==
    /\ Fault
    /\ sweep[s].batch # {}
    /\ lock' = Unlock(s)
    /\ sweep' = [sweep EXCEPT ![s] = NoBatch]
    /\ UNCHANGED <<status, named, old, signed, intent, commit>>
    /\ UNCHANGED store

-----------------------------------------------------------------------------

IntentStep(i) ==
    \/ InsertRow(i)
    \/ FindRow(i)
    \/ CreateUpload(i)
    \/ SaveUpload(i)
    \/ Sign(i)

CommitStep(c) ==
    \/ ListParts(c)
    \/ Recheck(c)
    \/ CompleteUpload(c)
    \/ Head(c)
    \/ ReadMagic(c)
    \/ DropObject(c)
    \/ UpdateStatus(c)

SweepStep(s) ==
    \/ ClaimOrphans(s)
    \/ AbortUpload(s)
    \/ DeleteObject(s)
    \/ DeleteRows(s)

Next ==
    \/ \E i \in Files : IntentStep(i) \/ IntentFails(i)
    \/ \E f \in Files : Resume(f) \/ PutObject(f) \/ UploadPart(f) \/ Age(f)
    \/ \E c \in Commits : FindFile(c) \/ CommitStep(c) \/ CommitFails(c)
    \/ \E s \in Sweepers : SweepStep(s) \/ SweepFails(s)

Spec == Init /\ [][Next]_vars

\* Calls go on to their answer; the sweep runs every hour on some worker.
\* Nothing is owed by clients or by time.
Fairness ==
    /\ \A i \in Files : WF_vars(IntentStep(i))
    /\ \A c \in Commits : WF_vars(CommitStep(c))
    /\ \A s \in Sweepers : WF_vars(SweepStep(s))

-----------------------------------------------------------------------------
(* Properties.                                                             *)

\* A double tap gets the same file: two calls with one key are answered with
\* URLs of the same row as long as the sweep has deleted neither.
SameFilePerKey ==
    \A i, j \in Files :
        /\ KeyOf[i] = KeyOf[j] /\ KeyOf[i] # NoKey
        /\ intent[i].answer = "urls" /\ intent[j].answer = "urls"
        => \/ intent[i].file = intent[j].file
           \/ status[intent[i].file] = "deleted"
           \/ status[intent[j].file] = "deleted"

\* The sweep never takes a file somebody has committed, however commit and
\* sweep interleave.
CompletedStays ==
    [][\A f \in Files : status[f] = "completed" => status'[f] = "completed"]_vars

\* Nothing is left in the store of a multipart file the sweep has deleted: no
\* parts in an open upload, no object a late commit made of them.
SweptLeavesNothing ==
    \A f \in named :
        status[f] = "deleted" => upload[f] # "open" /\ object[f] = "none"

\* No two sweepers work on one row.
SweepsDisjoint ==
    \A s, t \in Sweepers : s # t => sweep[s].batch \intersect sweep[t].batch = {}

\* Sweepers stay out of each other's way and leave nothing behind.
SweepsClean == SweepsDisjoint /\ SweptLeavesNothing

\* "COMPLETED" is answered only for a row that is, or that the sweep deleted
\* while the commit waited for it.
CompletedAnswer ==
    \A c \in Commits :
        commit[c].answer = "completed" =>
            status[commit[c].file] \in {"completed", "deleted"}

\* What clients are told is so, whatever the calls they did not make do.
AnswersHold == SameFilePerKey /\ CompletedAnswer

\* A multipart file is COMPLETED only when it was assembled from all of its
\* parts and its content was checked, whichever of several commits completed
\* the upload, and whether or not a sweep tried to abort it.
CompletedIsWhole ==
    \A f \in Files :
        status[f] = "completed" /\ IsBig(f) =>
            upload[f] = "done" /\ parts[f] = Parts /\ object[f] # "fake"

\* An intent that is a day old does not stay pending.
OrphansEnd == \A f \in Files : f \in old ~> status[f] # "pending"

\* orphans.ts and the README: storage first and the row last, so a crash in
\* between leaves a pending row for the next sweep.  Then no row is COMPLETED
\* whose object is gone.
CompletedHasObject == \A f \in Files : status[f] = "completed" => object[f] # "none"

=============================================================================
