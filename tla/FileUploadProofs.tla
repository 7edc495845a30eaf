-------------------------- MODULE FileUploadProofs --------------------------
(***************************************************************************)
(* The upload contract for any number of files, keys, parts, commits,      *)
(* sweepers and faults: a double tap is answered with one file, a commit   *)
(* is answered only for a row that is committed, a committed multipart     *)
(* file is whole and checked, and the sweep takes no committed file and    *)
(* leaves nothing of those it takes.  And for any limits that satisfy      *)
(* PartPlanAssumption, the plan of every upload is sound.                  *)
(***************************************************************************)
EXTENDS UploadPlans, TLAPS

\* How far an intent call is, and what that says of its row and its upload.
Intents ==
    /\ \A i \in Files : intent[i].pc = "insert" => status[i] = "absent"
    /\ \A i \in Files : intent[i].pc \in {"insert", "create"} => upload[i] = "none"
    /\ \A i \in Files : intent[i].pc \in {"create", "save"} =>
                          IsBig(i) /\ intent[i].file = i /\ status[i] # "absent"
    /\ \A i \in Files : intent[i].answer # "none" => intent[i].pc = "done"
    /\ \A i \in Files :
         intent[i].pc = "sign" \/ intent[i].answer = "urls" =>
             /\ intent[i].file \in Files
             /\ KeyOf[intent[i].file] = KeyOf[i]
             /\ status[intent[i].file] # "absent"
    /\ \A f \in old : intent[f].pc \notin {"insert", "create", "save"}

\* uq_files_owner_idempotency_key, and which rows have an upload or are gone.
Table ==
    /\ \A f, g \in Files :
         Live(f) /\ Live(g) /\ KeyOf[f] = KeyOf[g] /\ KeyOf[f] # NoKey => f = g
    /\ \A f \in named : IsBig(f)
    /\ \A f \in Files : status[f] = "deleted" => f \in old

\* The object of a multipart file is what its upload was completed to, and
\* that was all of its parts.
Stored ==
    /\ \A f \in Files : IsBig(f) /\ object[f] # "none" => upload[f] = "done"
    /\ \A f \in Files : upload[f] = "done" => parts[f] = Parts

\* What a commit call has seen of its file.
Committing ==
    /\ \A c \in Commits :
         commit[c].pc # "start" =>
             commit[c].file \in Files /\ status[commit[c].file] # "absent"
    /\ \A c \in Commits : commit[c].pc = "complete" => parts[commit[c].file] = Parts
    /\ \A c \in Commits :
         commit[c].pc \in {"magic", "update"} /\ IsBig(commit[c].file) =>
             upload[commit[c].file] = "done"
    /\ \A c \in Commits :
         commit[c].pc = "update" /\ IsBig(commit[c].file) =>
             object[commit[c].file] # "fake"
    /\ \A c \in Commits : commit[c].pc = "start" => commit[c].answer = "none"

\* What a sweeper has locked, and what it has already taken from the store.
Sweeping ==
    /\ \A s \in Sweepers : sweep[s].left \subseteq sweep[s].batch
    /\ \A s \in Sweepers : \A f \in sweep[s].batch :
         /\ f \in old /\ status[f] = "pending" /\ lock[f] = s
         /\ f \notin sweep[s].left => f \in sweep[s].aborted
         /\ f \in named /\ f \in sweep[s].aborted => upload[f] # "open"
         /\ f \in named /\ f \notin sweep[s].left => object[f] = "none"

IInv ==
    /\ TypeOK /\ Intents /\ Table /\ Stored /\ Committing /\ Sweeping
    /\ CompletedAnswer /\ CompletedIsWhole /\ SweptLeavesNothing

-----------------------------------------------------------------------------
(* Types, and what the assignments do.                                     *)

IntentPcs == {"insert", "find", "create", "save", "sign", "done"}
CommitPcs == {"start", "list", "recheck", "complete", "head", "magic", "drop", "update",
              "done"}
IntentType == [pc : IntentPcs, file : Files \union {None}, answer : IntentAnswers]
CommitType == [pc : CommitPcs, file : Files \union {None}, answer : CommitAnswers]
SweepType == [batch : SUBSET Files, left : SUBSET Files, aborted : SUBSET Files]

\* TypeOK by the names of its records.
Typed ==
    /\ status \in [Files -> {"absent", "pending", "completed", "deleted"}]
    /\ named \in SUBSET Files
    /\ old \in SUBSET Files
    /\ lock \in [Files -> Sweepers \union {None}]
    /\ upload \in [Files -> {"none", "open", "done", "aborted"}]
    /\ parts \in [Files -> SUBSET Parts]
    /\ object \in [Files -> {"none", "good", "short", "fake"}]
    /\ signed \in SUBSET Files
    /\ intent \in [Files -> IntentType]
    /\ commit \in [Commits -> CommitType]
    /\ sweep \in [Sweepers -> SweepType]
    /\ faults \in 0 .. MaxFaults

LEMMA TypeIsTyped == (TypeOK <=> Typed) /\ (TypeOK' <=> Typed')
  BY DEF TypeOK, Typed, IntentType, CommitType, SweepType, IntentPcs, CommitPcs

LEMMA IntentAtSets ==
    ASSUME intent \in [Files -> IntentType], NEW i \in Files, NEW pc \in IntentPcs,
           NEW f \in Files \union {None}, IntentAt(i, pc, f)
    PROVE  /\ intent' \in [Files -> IntentType]
           /\ intent'[i].pc = pc /\ intent'[i].file = f
           /\ intent'[i].answer = intent[i].answer
           /\ \A j \in Files \ {i} : intent'[j] = intent[j]
  BY DEF IntentAt, IntentType

LEMMA AnswerIntentSets ==
    ASSUME intent \in [Files -> IntentType], NEW i \in Files, NEW answer \in IntentAnswers,
           AnswerIntent(i, answer)
    PROVE  /\ intent' \in [Files -> IntentType]
           /\ intent'[i].pc = "done" /\ intent'[i].file = intent[i].file
           /\ intent'[i].answer = answer
           /\ \A j \in Files \ {i} : intent'[j] = intent[j]
  BY DEF AnswerIntent, IntentType, IntentPcs

LEMMA CommitAtSets ==
    ASSUME commit \in [Commits -> CommitType], NEW c \in Commits, NEW pc \in CommitPcs,
           CommitAt(c, pc)
    PROVE  /\ commit' \in [Commits -> CommitType]
           /\ commit'[c].pc = pc /\ commit'[c].file = commit[c].file
           /\ commit'[c].answer = commit[c].answer
           /\ \A d \in Commits \ {c} : commit'[d] = commit[d]
  BY DEF CommitAt, CommitType

LEMMA AnswerCommitSets ==
    ASSUME commit \in [Commits -> CommitType], NEW c \in Commits, NEW answer \in CommitAnswers,
           AnswerCommit(c, answer)
    PROVE  /\ commit' \in [Commits -> CommitType]
           /\ commit'[c].pc = "done" /\ commit'[c].file = commit[c].file
           /\ commit'[c].answer = answer
           /\ \A d \in Commits \ {c} : commit'[d] = commit[d]
  BY DEF AnswerCommit, CommitType, CommitPcs

\* A commit call before its answer: the file stays, the answer is still open
\* or already a refusal.
LEMMA HeadSets ==
    ASSUME commit \in [Commits -> CommitType], NEW c \in Commits,
           NEW pc \in CommitPcs, NEW answer \in CommitAnswers,
           commit' = [commit EXCEPT ![c].pc = pc, ![c].answer = answer]
    PROVE  /\ commit' \in [Commits -> CommitType]
           /\ commit'[c].pc = pc /\ commit'[c].file = commit[c].file
           /\ commit'[c].answer = answer
           /\ \A d \in Commits \ {c} : commit'[d] = commit[d]
  BY DEF CommitType

\* The client and time.
LEMMA OthersTyped ==
    ASSUME Typed, NEW f \in Files, Resume(f) \/ PutObject(f) \/ UploadPart(f) \/ Age(f)
    PROVE  Typed'
  <1> USE DEF Typed
  <1>1. CASE Resume(f)
    BY <1>1 DEF Resume, rows, store
  <1>2. CASE PutObject(f)
    <2>1. PICK kind \in Kinds : object' = [object EXCEPT ![f] = kind]
      BY <1>2 DEF PutObject
    <2>2. kind \in {"none", "good", "short", "fake"}
      BY UploadAssumption
    <2> QED
      BY <1>2, <2>1, <2>2 DEF PutObject, rows
  <1>3. CASE UploadPart(f)
    <2>1. PICK n \in Parts : parts' = [parts EXCEPT ![f] = @ \union {n}]
      BY <1>3 DEF UploadPart
    <2> QED
      BY <1>3, <2>1 DEF UploadPart, rows
  <1>4. CASE Age(f)
    BY <1>4 DEF Age, store
  <1> QED
    BY <1>1, <1>2, <1>3, <1>4

\* intent().
LEMMA IntentTyped ==
    ASSUME Typed, Intents, NEW i \in Files, IntentStep(i) \/ IntentFails(i)
    PROVE  Typed'
  <1> USE DEF Typed
  <1>0. /\ "find" \in IntentPcs /\ "create" \in IntentPcs /\ "save" \in IntentPcs
        /\ "sign" \in IntentPcs
    BY DEF IntentPcs
  <1>1. CASE InsertRow(i)
    BY <1>0, <1>1, IntentAtSets DEF InsertRow, store
  <1>2. CASE FindRow(i)
    <2>1. intent' \in [Files -> IntentType]
      <3>1. \/ \E answer \in {"missing", "mismatch", "completed", "conflict"} :
                 AnswerIntent(i, answer)
            \/ \E f \in Files : IntentAt(i, "sign", f)
        BY <1>2 DEF FindRow, Holder
      <3> QED
        BY <1>0, <3>1, IntentAtSets, AnswerIntentSets DEF IntentAnswers
    <2> QED
      BY <1>2, <2>1 DEF FindRow, rows, store
  <1>3. CASE CreateUpload(i)
    BY <1>0, <1>3, IntentAtSets DEF CreateUpload, rows
  <1>4. CASE SaveUpload(i)
    BY <1>0, <1>4, IntentAtSets DEF SaveUpload, store
  <1>5. CASE Sign(i)
    <2>1. intent' \in [Files -> IntentType]
      <3>1. \E answer \in {"urls", "gone"} : AnswerIntent(i, answer)
        BY <1>5 DEF Sign
      <3> QED
        BY <3>1, AnswerIntentSets DEF IntentAnswers
    <2>2. signed' \in SUBSET Files
      BY <1>5 DEF Sign, Intents
    <2> QED
      BY <1>5, <2>1, <2>2 DEF Sign, rows, store
  <1>6. CASE IntentFails(i)
    BY <1>6, AnswerIntentSets, UploadAssumption DEF IntentFails, Fault, IntentAnswers, rows, store
  <1> QED
    BY <1>1, <1>2, <1>3, <1>4, <1>5, <1>6 DEF IntentStep

\* The commit call of a step: only Head, ReadMagic and the answers set more
\* than its next statement, and only FindFile its file.
LEMMA FindFileSets ==
    ASSUME Typed, Intents, NEW c \in Commits, FindFile(c)
    PROVE  /\ commit' \in [Commits -> CommitType]
           /\ \A d \in Commits \ {c} : commit'[d] = commit[d]
           /\ commit'[c].file \in Files
           /\ \/ status[commit'[c].file] = "deleted" /\ commit'[c].pc = "done"
                 /\ commit'[c].answer = "missing"
              \/ status[commit'[c].file] = "completed" /\ commit'[c].pc = "done"
                 /\ commit'[c].answer = "completed"
              \/ status[commit'[c].file] = "pending" /\ commit'[c].pc \in {"list", "head"}
                 /\ commit'[c].answer = "none"
  <1>0. /\ commit \in [Commits -> CommitType]
        /\ status \in [Files -> {"absent", "pending", "completed", "deleted"}]
    BY DEF Typed
  <1>1. PICK f \in {intent[i].file : i \in {j \in Files : intent[j].answer = "urls"}} :
          commit' = [commit EXCEPT ![c] =
             CASE status[f] = "deleted"   -> [pc |-> "done", file |-> f,
                                              answer |-> "missing"]
               [] status[f] = "completed" -> [pc |-> "done", file |-> f,
                                              answer |-> "completed"]
               [] status[f] = "pending"   -> [pc |-> IF f \in named THEN "list" ELSE "head",
                                              file |-> f, answer |-> "none"]]
    BY DEF FindFile
  <1>2. f \in Files /\ status[f] \in {"pending", "completed", "deleted"}
    BY <1>0, <1>1 DEF Intents
  <1>3. CASE status[f] = "deleted"
    <2>1. commit' = [commit EXCEPT ![c] = [pc |-> "done", file |-> f, answer |-> "missing"]]
      BY <1>1, <1>3
    <2> QED
      BY <1>0, <1>2, <1>3, <2>1 DEF CommitType, CommitPcs, CommitAnswers
  <1>4. CASE status[f] = "completed"
    <2>1. commit' = [commit EXCEPT ![c] = [pc |-> "done", file |-> f, answer |-> "completed"]]
      BY <1>1, <1>4
    <2> QED
      BY <1>0, <1>2, <1>4, <2>1 DEF CommitType, CommitPcs, CommitAnswers
  <1>5. CASE status[f] = "pending"
    <2>1. \E pc \in {"list", "head"} :
            commit' = [commit EXCEPT ![c] = [pc |-> pc, file |-> f, answer |-> "none"]]
      BY <1>1, <1>5
    <2> QED
      BY <1>0, <1>2, <1>5, <2>1 DEF CommitType, CommitPcs, CommitAnswers
  <1> QED
    BY <1>2, <1>3, <1>4, <1>5

LEMMA CommitMoves ==
    ASSUME Typed, NEW c \in Commits, CommitStep(c) \/ CommitFails(c)
    PROVE  /\ commit' \in [Commits -> CommitType]
           /\ \A d \in Commits \ {c} : commit'[d] = commit[d]
           /\ commit[c].pc # "start" /\ commit'[c].pc # "start"
           /\ commit'[c].file = commit[c].file
           /\ commit'[c].answer = "completed" =>
                commit[c].answer = "completed" \/ UpdateStatus(c)
           /\ CASE commit'[c].pc = "complete" ->
                     parts[commit[c].file] = Parts /\ UNCHANGED parts
                [] commit'[c].pc = "magic" ->
                     Head(c) /\ object[commit[c].file] # "none"
                [] commit'[c].pc = "update" ->
                     ReadMagic(c) /\ object[commit[c].file] # "fake"
                [] OTHER -> TRUE
  <1>0. /\ commit \in [Commits -> CommitType] /\ commit[c].answer \in CommitAnswers
        /\ \A pc \in {"start", "list", "recheck", "complete", "head", "magic", "drop",
                      "update", "done"} : pc \in CommitPcs
        /\ \A a \in {"none", "completed", "missing", "conflict", "refused", "failed"} :
             a \in CommitAnswers
    BY DEF Typed, CommitType, CommitPcs, CommitAnswers
  <1>1. CASE ListParts(c)
    <2>1. \/ AnswerCommit(c, "conflict")
          \/ CommitAt(c, "recheck")
          \/ CommitAt(c, "complete") /\ parts[commit[c].file] = Parts
      BY <1>1 DEF ListParts
    <2>2. commit[c].pc = "list" /\ UNCHANGED parts
      BY <1>1 DEF ListParts, store
    <2> QED
      BY <1>0, <2>1, <2>2, AnswerCommitSets, CommitAtSets
  <1>2. CASE Recheck(c)
    <2>1. AnswerCommit(c, "failed") \/ CommitAt(c, "head")
      BY <1>2 DEF Recheck
    <2>2. commit[c].pc = "recheck"
      BY <1>2 DEF Recheck
    <2> QED
      BY <1>0, <2>1, <2>2, AnswerCommitSets, CommitAtSets
  <1>3. CASE CompleteUpload(c)
    <2>1. commit[c].pc = "complete" /\ CommitAt(c, "head")
      BY <1>3 DEF CompleteUpload
    <2> QED
      BY <1>0, <2>1, CommitAtSets
  <1>4. CASE Head(c)
    <2>1. commit[c].pc = "head"
      BY <1>4 DEF Head
    <2>2. CASE object[commit[c].file] = "none"
      BY <1>0, <1>4, <2>1, <2>2, AnswerCommitSets DEF Head
    <2>3. CASE object[commit[c].file] # "none"
      <3>1. PICK pc \in {"magic", "drop"}, answer \in {"conflict", commit[c].answer} :
              commit' = [commit EXCEPT ![c].pc = pc, ![c].answer = answer]
        BY <1>0, <1>4, <2>3 DEF Head
      <3> QED
        <4>1. /\ commit' \in [Commits -> CommitType]
              /\ commit'[c].pc = pc /\ commit'[c].file = commit[c].file
              /\ commit'[c].answer = answer
              /\ \A d \in Commits \ {c} : commit'[d] = commit[d]
          <5>1. pc \in CommitPcs /\ answer \in CommitAnswers
            BY <1>0
          <5>2. commit \in [Commits -> CommitType]
            BY <1>0
          <5> QED
            BY <3>1, <5>1, <5>2, HeadSets
        <4> QED
          BY <1>4, <2>1, <2>3, <3>1, <4>1
    <2> QED
      BY <2>2, <2>3
  <1>5. CASE ReadMagic(c)
    <2>1. commit[c].pc = "magic"
      BY <1>5 DEF ReadMagic
    <2>2. CASE object[commit[c].file] = "none"
      BY <1>0, <1>5, <2>1, <2>2, AnswerCommitSets DEF ReadMagic
    <2>3. CASE object[commit[c].file] # "none"
      <3>1. PICK pc \in {"update", "drop"}, answer \in {"refused", commit[c].answer} :
              /\ commit' = [commit EXCEPT ![c].pc = pc, ![c].answer = answer]
              /\ pc = "update" => object[commit[c].file] # "fake"
        BY <1>0, <1>5, <2>3 DEF ReadMagic
      <3> QED
        <4>1. /\ commit' \in [Commits -> CommitType]
              /\ commit'[c].pc = pc /\ commit'[c].file = commit[c].file
              /\ commit'[c].answer = answer
              /\ \A d \in Commits \ {c} : commit'[d] = commit[d]
          <5>1. pc \in CommitPcs /\ answer \in CommitAnswers
            BY <1>0
          <5>2. commit \in [Commits -> CommitType]
            BY <1>0
          <5> QED
            BY <3>1, <5>1, <5>2, HeadSets
        <4> QED
          BY <1>5, <2>1, <2>3, <3>1, <4>1
    <2> QED
      BY <2>2, <2>3
  <1>6. CASE DropObject(c)
    <2>1. commit[c].pc = "drop" /\ CommitAt(c, "done")
      BY <1>6 DEF DropObject
    <2> QED
      BY <1>0, <2>1, CommitAtSets
  <1>7. CASE UpdateStatus(c)
    <2>1. commit[c].pc = "update" /\ AnswerCommit(c, "completed")
      BY <1>7 DEF UpdateStatus
    <2> QED
      BY <1>0, <1>7, <2>1, AnswerCommitSets
  <1>8. CASE CommitFails(c)
    <2>1. commit[c].pc # "start" /\ AnswerCommit(c, "failed")
      BY <1>8 DEF CommitFails
    <2> QED
      BY <1>0, <2>1, AnswerCommitSets
  <1> QED
    BY <1>1, <1>2, <1>3, <1>4, <1>5, <1>6, <1>7, <1>8 DEF CommitStep

LEMMA CommitTyped ==
    ASSUME Typed, Intents, NEW c \in Commits, FindFile(c) \/ CommitStep(c) \/ CommitFails(c)
    PROVE  Typed'
  <1>0. commit' \in [Commits -> CommitType]
    BY FindFileSets, CommitMoves
  <1> USE DEF Typed
  <1>1. CASE CompleteUpload(c)
    <2>1. UNCHANGED <<upload, object>>
          \/ \E kind \in Kinds : /\ upload' = [upload EXCEPT ![commit[c].file] = "done"]
                                 /\ object' = [object EXCEPT ![commit[c].file] = kind]
      BY <1>1 DEF CompleteUpload
    <2>2. Kinds \subseteq {"none", "good", "short", "fake"}
      BY UploadAssumption
    <2> QED
      BY <1>0, <1>1, <2>1, <2>2 DEF CompleteUpload, OnlyCommit, rows
  <1>2. CASE DropObject(c)
    BY <1>0, <1>2 DEF DropObject, OnlyCommit, rows
  <1>3. CASE UpdateStatus(c)
    BY <1>0, <1>3 DEF UpdateStatus, store
  <1>4. CASE FindFile(c) \/ ListParts(c) \/ Recheck(c) \/ Head(c) \/ ReadMagic(c)
    BY <1>0, <1>4 DEF FindFile, ListParts, Recheck, Head, ReadMagic, OnlyCommit, rows, store
  <1>5. CASE CommitFails(c)
    BY <1>0, <1>5, UploadAssumption DEF CommitFails, OnlyCommit, rows, store, Fault
  <1> QED
    BY <1>1, <1>2, <1>3, <1>4, <1>5 DEF CommitStep

\* The sweep of a step.
LEMMA ClaimSets ==
    ASSUME Typed, NEW s \in Sweepers, ClaimOrphans(s)
    PROVE  \E batch \in SUBSET Sweepable :
             /\ sweep'[s] = [batch |-> batch, left |-> batch, aborted |-> batch \ named]
             /\ lock' = [f \in Files |-> IF f \in batch THEN s ELSE lock[f]]
             /\ \A t \in Sweepers \ {s} : sweep'[t] = sweep[t]
             /\ sweep' \in [Sweepers -> SweepType]
  <1>0. sweep \in [Sweepers -> SweepType] /\ old \subseteq Files
    BY DEF Typed
  <1>1. PICK batch \in SUBSET Sweepable :
          /\ sweep' = [sweep EXCEPT ![s] = [batch |-> batch, left |-> batch,
                                            aborted |-> batch \ named]]
          /\ lock' = [f \in Files |-> IF f \in batch THEN s ELSE lock[f]]
    BY DEF ClaimOrphans
  <1>2. batch \in SUBSET Files
    BY <1>0, <1>1 DEF Sweepable
  <1>3. [batch |-> batch, left |-> batch, aborted |-> batch \ named] \in SweepType
    BY <1>2 DEF SweepType
  <1> QED
    BY <1>0, <1>1, <1>3

LEMMA AbortSets ==
    ASSUME Typed, NEW s \in Sweepers, AbortUpload(s)
    PROVE  \E f \in Files :
             /\ f \in sweep[s].left
             /\ upload' = [upload EXCEPT ![f] = IF upload[f] = "open" THEN "aborted"
                                                ELSE upload[f]]
             /\ sweep'[s].batch = sweep[s].batch /\ sweep'[s].left = sweep[s].left
             /\ sweep'[s].aborted = sweep[s].aborted \union {f}
             /\ \A t \in Sweepers \ {s} : sweep'[t] = sweep[t]
             /\ sweep' \in [Sweepers -> SweepType]
  <1>0. sweep \in [Sweepers -> SweepType]
    BY DEF Typed
  <1>1. PICK f \in sweep[s].left \ sweep[s].aborted :
          /\ upload' = [upload EXCEPT ![f] = IF upload[f] = "open" THEN "aborted"
                                             ELSE upload[f]]
          /\ sweep' = [sweep EXCEPT ![s].aborted = sweep[s].aborted \union {f}]
    BY DEF AbortUpload
  <1>2. f \in Files /\ f \in sweep[s].left
    BY <1>0, <1>1 DEF SweepType
  <1>3. /\ sweep'[s].batch = sweep[s].batch /\ sweep'[s].left = sweep[s].left
        /\ sweep'[s].aborted = sweep[s].aborted \union {f}
        /\ \A t \in Sweepers \ {s} : sweep'[t] = sweep[t]
        /\ sweep' \in [Sweepers -> SweepType]
    BY <1>0, <1>1, <1>2 DEF SweepType
  <1> QED
    BY <1>1, <1>2, <1>3

LEMMA DeleteSets ==
    ASSUME Typed, NEW s \in Sweepers, DeleteObject(s)
    PROVE  \E f \in Files :
             /\ f \in sweep[s].left /\ f \in sweep[s].aborted
             /\ object' = [object EXCEPT ![f] = "none"]
             /\ sweep'[s].batch = sweep[s].batch /\ sweep'[s].left = sweep[s].left \ {f}
             /\ sweep'[s].aborted = sweep[s].aborted
             /\ \A t \in Sweepers \ {s} : sweep'[t] = sweep[t]
             /\ sweep' \in [Sweepers -> SweepType]
  <1>0. sweep \in [Sweepers -> SweepType]
    BY DEF Typed
  <1>1. PICK f \in sweep[s].left \intersect sweep[s].aborted :
          /\ object' = [object EXCEPT ![f] = "none"]
          /\ sweep' = [sweep EXCEPT ![s].left = sweep[s].left \ {f}]
    BY DEF DeleteObject
  <1>2. f \in Files /\ f \in sweep[s].left /\ f \in sweep[s].aborted
    BY <1>0, <1>1 DEF SweepType
  <1>3. /\ sweep'[s].batch = sweep[s].batch /\ sweep'[s].left = sweep[s].left \ {f}
        /\ sweep'[s].aborted = sweep[s].aborted
        /\ \A t \in Sweepers \ {s} : sweep'[t] = sweep[t]
        /\ sweep' \in [Sweepers -> SweepType]
    BY <1>0, <1>1, <1>2 DEF SweepType
  <1> QED
    BY <1>1, <1>2, <1>3

LEMMA EndSets ==
    ASSUME Typed, NEW s \in Sweepers, DeleteRows(s) \/ SweepFails(s)
    PROVE  /\ sweep'[s] = NoBatch /\ NoBatch.batch = {} /\ NoBatch.left = {}
           /\ \A t \in Sweepers \ {s} : sweep'[t] = sweep[t]
           /\ sweep' \in [Sweepers -> SweepType]
           /\ lock' = [f \in Files |-> IF lock[f] = s THEN None ELSE lock[f]]
  <1>1. /\ sweep' = [sweep EXCEPT ![s] = NoBatch]
        /\ lock' = [f \in Files |-> IF lock[f] = s THEN None ELSE lock[f]]
    BY DEF DeleteRows, SweepFails, Unlock
  <1>2. NoBatch \in SweepType /\ NoBatch.batch = {} /\ NoBatch.left = {}
    BY DEF NoBatch, SweepType
  <1>3. sweep \in [Sweepers -> SweepType]
    BY DEF Typed
  <1> QED
    BY <1>1, <1>2, <1>3

LEMMA SweepTyped ==
    ASSUME Typed, NEW s \in Sweepers, SweepStep(s) \/ SweepFails(s)
    PROVE  Typed'
  <1> USE DEF Typed
  <1>1. CASE ClaimOrphans(s)
    BY <1>1, ClaimSets DEF ClaimOrphans, store
  <1>2. CASE AbortUpload(s)
    <2>1. PICK f \in Files :
            upload' = [upload EXCEPT ![f] = IF upload[f] = "open" THEN "aborted"
                                            ELSE upload[f]]
      BY <1>2, AbortSets
    <2>2. upload' \in [Files -> {"none", "open", "done", "aborted"}]
      BY <2>1
    <2>3. sweep' \in [Sweepers -> SweepType]
      BY <1>2, AbortSets
    <2> QED
      BY <1>2, <2>2, <2>3 DEF AbortUpload, rows
  <1>3. CASE DeleteObject(s)
    BY <1>3, DeleteSets DEF DeleteObject, rows
  <1>4. CASE DeleteRows(s)
    BY <1>4, EndSets DEF DeleteRows, store
  <1>5. CASE SweepFails(s)
    <2>1. /\ sweep' \in [Sweepers -> SweepType]
          /\ lock' = [f \in Files |-> IF lock[f] = s THEN None ELSE lock[f]]
      BY <1>5, EndSets
    <2>2. lock' \in [Files -> Sweepers \union {None}]
      BY <2>1
    <2>3. faults' \in 0 .. MaxFaults
      BY <1>5, UploadAssumption DEF SweepFails, Fault
    <2> QED
      BY <1>5, <2>1, <2>2, <2>3 DEF SweepFails, store
  <1> QED
    BY <1>1, <1>2, <1>3, <1>4, <1>5 DEF SweepStep

LEMMA TypePreserved == IInv /\ [Next]_vars => TypeOK' /\ Typed'
  <1> SUFFICES ASSUME IInv, [Next]_vars PROVE Typed'
    BY TypeIsTyped
  <1>1. Typed /\ Intents
    BY TypeIsTyped DEF IInv
  <1>2. CASE UNCHANGED vars
    BY <1>1, <1>2 DEF Typed, vars, rows, store
  <1> QED
    BY <1>1, <1>2, IntentTyped, OthersTyped, CommitTyped, SweepTyped DEF Next

-----------------------------------------------------------------------------
(* What a step may do to a row, an upload and an object.                   *)

LEMMA StatusMoves ==
    ASSUME IInv, [Next]_vars, NEW f \in Files
    PROVE  \/ status'[f] = status[f]
           \/ status[f] = "absent" /\ status'[f] = "pending" /\ InsertRow(f) /\ Holder(f) = {}
           \/ /\ status[f] = "pending" /\ status'[f] = "completed"
              /\ \E c \in Commits : UpdateStatus(c) /\ commit[c].file = f /\ lock[f] = None
           \/ /\ status[f] = "pending" /\ status'[f] = "deleted"
              /\ \E s \in Sweepers : DeleteRows(s) /\ f \in sweep[s].batch
  <1>0. status \in [Files -> {"absent", "pending", "completed", "deleted"}]
    BY TypeIsTyped DEF IInv, Typed
  <1>1. CASE UNCHANGED status
    BY <1>1
  <1>2. ASSUME NEW i \in Files, InsertRow(i), status' # status
        PROVE  /\ status[i] = "absent" /\ Holder(i) = {}
               /\ status' = [status EXCEPT ![i] = "pending"]
    BY <1>2 DEF InsertRow, IInv, Intents
  <1>3. ASSUME NEW c \in Commits, UpdateStatus(c)
        PROVE  status'[f] = status[f] \/ (/\ status[f] = "pending" /\ status'[f] = "completed"
                                          /\ commit[c].file = f /\ lock[f] = None)
    BY <1>0, <1>3 DEF UpdateStatus
  <1>4. ASSUME NEW s \in Sweepers, DeleteRows(s)
        PROVE  \/ status'[f] = status[f]
               \/ /\ status[f] = "pending" /\ status'[f] = "deleted"
                  /\ f \in sweep[s].batch
    BY <1>0, <1>4 DEF DeleteRows, IInv, Sweeping
  <1>5. ASSUME NEW i \in Files, IntentStep(i) \/ IntentFails(i), ~InsertRow(i)
        PROVE  UNCHANGED status
    BY <1>5 DEF IntentStep, IntentFails, FindRow, CreateUpload, SaveUpload, Sign, rows
  <1>6. ASSUME NEW c \in Commits, FindFile(c) \/ CommitStep(c) \/ CommitFails(c),
               ~UpdateStatus(c)
        PROVE  UNCHANGED status
    BY <1>6 DEF FindFile, CommitStep, CommitFails, ListParts, Recheck, CompleteUpload, Head,
                ReadMagic, DropObject, OnlyCommit, rows
  <1>7. ASSUME NEW s \in Sweepers, SweepStep(s) \/ SweepFails(s), ~DeleteRows(s)
        PROVE  UNCHANGED status
    BY <1>7 DEF SweepStep, SweepFails, ClaimOrphans, AbortUpload, DeleteObject, rows
  <1>8. ASSUME NEW g \in Files, Resume(g) \/ PutObject(g) \/ UploadPart(g) \/ Age(g)
        PROVE  UNCHANGED status
    BY <1>8 DEF Resume, PutObject, UploadPart, Age, rows
  <1>9. ASSUME NEW i \in Files, InsertRow(i)
        PROVE  \/ status'[f] = status[f]
               \/ /\ status[f] = "absent" /\ status'[f] = "pending" /\ InsertRow(f)
                  /\ Holder(f) = {}
    <2>1. CASE status' = status
      BY <2>1
    <2>2. CASE status' # status
      <3>1. /\ status[i] = "absent" /\ Holder(i) = {}
            /\ status' = [status EXCEPT ![i] = "pending"]
        BY <1>2, <1>9, <2>2
      <3>2. CASE i = f
        BY <1>0, <1>9, <3>1, <3>2
      <3>3. CASE i # f
        BY <1>0, <3>1, <3>3
      <3> QED
        BY <3>2, <3>3
    <2> QED
      BY <2>1, <2>2
  <1> QED
    BY <1>1, <1>3, <1>4, <1>5, <1>6, <1>7, <1>8, <1>9 DEF Next, vars, rows

LEMMA UploadMoves ==
    ASSUME IInv, [Next]_vars, NEW f \in Files
    PROVE  \/ upload'[f] = upload[f]
           \/ upload[f] = "none" /\ upload'[f] = "open" /\ CreateUpload(f)
           \/ /\ upload[f] = "open" /\ upload'[f] = "done"
              /\ \E c \in Commits : CompleteUpload(c) /\ commit[c].file = f
           \/ upload[f] = "open" /\ upload'[f] = "aborted"
  <1>0. /\ upload \in [Files -> {"none", "open", "done", "aborted"}] /\ Typed
    BY TypeIsTyped DEF IInv, Typed
  <1>1. CASE UNCHANGED upload
    BY <1>1
  <1>2. ASSUME NEW i \in Files, CreateUpload(i)
        PROVE  \/ upload'[f] = upload[f]
               \/ upload[f] = "none" /\ upload'[f] = "open" /\ CreateUpload(f)
    <2>1. upload' = [upload EXCEPT ![i] = "open"] /\ upload[i] = "none"
      BY <1>2 DEF CreateUpload, IInv, Intents
    <2>2. CASE i = f
      BY <1>0, <1>2, <2>1, <2>2
    <2>3. CASE i # f
      BY <1>0, <2>1, <2>3
    <2> QED
      BY <2>2, <2>3
  <1>3. ASSUME NEW c \in Commits, CompleteUpload(c)
        PROVE  \/ upload'[f] = upload[f]
               \/ upload[f] = "open" /\ upload'[f] = "done" /\ commit[c].file = f
    BY <1>0, <1>3 DEF CompleteUpload
  <1>4. ASSUME NEW s \in Sweepers, AbortUpload(s)
        PROVE  \/ upload'[f] = upload[f]
               \/ upload[f] = "open" /\ upload'[f] = "aborted"
    <2>1. PICK g \in Files :
            upload' = [upload EXCEPT ![g] = IF upload[g] = "open" THEN "aborted" ELSE upload[g]]
      BY <1>0, <1>4, AbortSets
    <2> QED
      BY <1>0, <2>1
  <1>5. ASSUME NEW i \in Files, IntentStep(i) \/ IntentFails(i), ~CreateUpload(i)
        PROVE  UNCHANGED upload
    BY <1>5 DEF IntentStep, IntentFails, FindRow, InsertRow, SaveUpload, Sign, store
  <1>6. ASSUME NEW c \in Commits, FindFile(c) \/ CommitStep(c) \/ CommitFails(c),
               ~CompleteUpload(c)
        PROVE  UNCHANGED upload
    BY <1>6 DEF FindFile, CommitStep, CommitFails, ListParts, Recheck, UpdateStatus, Head,
                ReadMagic, DropObject, store
  <1>7. ASSUME NEW s \in Sweepers, SweepStep(s) \/ SweepFails(s), ~AbortUpload(s)
        PROVE  UNCHANGED upload
    BY <1>7 DEF SweepStep, SweepFails, ClaimOrphans, DeleteRows, DeleteObject, store
  <1>8. ASSUME NEW g \in Files, Resume(g) \/ PutObject(g) \/ UploadPart(g) \/ Age(g)
        PROVE  UNCHANGED upload
    BY <1>8 DEF Resume, PutObject, UploadPart, Age, store
  <1> QED
    BY <1>1, <1>2, <1>3, <1>4, <1>5, <1>6, <1>7, <1>8 DEF Next, vars, store

LEMMA PartsMove ==
    ASSUME IInv, [Next]_vars, NEW f \in Files
    PROVE  parts[f] = Parts \/ upload[f] = "done" => parts'[f] = parts[f]
  <1>0. /\ parts \in [Files -> SUBSET Parts]
    BY TypeIsTyped DEF IInv, Typed
  <1>1. CASE UNCHANGED parts
    BY <1>1
  <1>2. ASSUME NEW g \in Files, UploadPart(g)
        PROVE  parts[f] = Parts \/ upload[f] = "done" => parts'[f] = parts[f]
    <2>1. PICK n \in Parts \ parts[g] : parts' = [parts EXCEPT ![g] = parts[g] \union {n}]
      BY <1>2 DEF UploadPart
    <2>2. upload[g] = "open"
      BY <1>2 DEF UploadPart
    <2> QED
      BY <1>0, <2>1, <2>2
  <1>3. ASSUME NEW i \in Files, IntentStep(i) \/ IntentFails(i)
        PROVE  UNCHANGED parts
    BY <1>3 DEF IntentStep, IntentFails, InsertRow, FindRow, CreateUpload, SaveUpload, Sign,
                store
  <1>4. ASSUME NEW c \in Commits, FindFile(c) \/ CommitStep(c) \/ CommitFails(c)
        PROVE  UNCHANGED parts
    BY <1>4 DEF FindFile, CommitStep, CommitFails, ListParts, Recheck, CompleteUpload, Head,
                ReadMagic, DropObject, UpdateStatus, store
  <1>5. ASSUME NEW s \in Sweepers, SweepStep(s) \/ SweepFails(s)
        PROVE  UNCHANGED parts
    BY <1>5 DEF SweepStep, SweepFails, ClaimOrphans, AbortUpload, DeleteObject, DeleteRows,
                store
  <1>6. ASSUME NEW g \in Files, Resume(g) \/ PutObject(g) \/ Age(g)
        PROVE  UNCHANGED parts
    BY <1>6 DEF Resume, PutObject, Age, store
  <1> QED
    BY <1>1, <1>2, <1>3, <1>4, <1>5, <1>6 DEF Next, vars, store

LEMMA ObjectMoves ==
    ASSUME IInv, [Next]_vars, NEW f \in Files, IsBig(f)
    PROVE  \/ object'[f] = object[f]
           \/ object'[f] = "none"
           \/ upload[f] = "open" /\ upload'[f] = "done"
  <1>0. /\ object \in [Files -> {"none", "good", "short", "fake"}] /\ Typed
        /\ upload \in [Files -> {"none", "open", "done", "aborted"}]
    BY TypeIsTyped DEF IInv, Typed
  <1>1. CASE UNCHANGED object
    BY <1>1
  <1>2. ASSUME NEW g \in Files, PutObject(g)
        PROVE  object'[f] = object[f]
    <2>1. g # f
      BY <1>2 DEF PutObject
    <2> QED
      BY <1>0, <1>2, <2>1 DEF PutObject
  <1>3. ASSUME NEW c \in Commits, CompleteUpload(c)
        PROVE  object'[f] = object[f] \/ (upload[f] = "open" /\ upload'[f] = "done")
    BY <1>0, <1>3 DEF CompleteUpload
  <1>4. ASSUME NEW c \in Commits, DropObject(c)
        PROVE  object'[f] = object[f] \/ object'[f] = "none"
    BY <1>0, <1>4 DEF DropObject
  <1>5. ASSUME NEW s \in Sweepers, DeleteObject(s)
        PROVE  object'[f] = object[f] \/ object'[f] = "none"
    BY <1>0, <1>5 DEF DeleteObject
  <1>6. ASSUME NEW i \in Files, IntentStep(i) \/ IntentFails(i)
        PROVE  UNCHANGED object
    BY <1>6 DEF IntentStep, IntentFails, InsertRow, FindRow, CreateUpload, SaveUpload, Sign,
                store
  <1>7. ASSUME NEW c \in Commits, FindFile(c) \/ CommitStep(c) \/ CommitFails(c),
               ~CompleteUpload(c), ~DropObject(c)
        PROVE  UNCHANGED object
    BY <1>7 DEF FindFile, CommitStep, CommitFails, ListParts, Recheck, Head, ReadMagic,
                UpdateStatus, store
  <1>8. ASSUME NEW s \in Sweepers, SweepStep(s) \/ SweepFails(s), ~DeleteObject(s)
        PROVE  UNCHANGED object
    BY <1>8 DEF SweepStep, SweepFails, ClaimOrphans, AbortUpload, DeleteRows, store
  <1>9. ASSUME NEW g \in Files, Resume(g) \/ UploadPart(g) \/ Age(g)
        PROVE  UNCHANGED object
    BY <1>9 DEF Resume, UploadPart, Age, store
  <1> QED
    BY <1>1, <1>2, <1>3, <1>4, <1>5, <1>6, <1>7, <1>8, <1>9 DEF Next, vars, store

LEMMA SetsMove ==
    ASSUME IInv, [Next]_vars
    PROVE  /\ named \subseteq named'
           /\ \A f \in named' \ named : intent[f].pc = "save" /\ lock[f] = None /\ f \in Files
           /\ old \subseteq old'
           /\ \A f \in old' \ old :
                /\ f \in Files /\ status[f] = "pending" /\ UNCHANGED <<status, intent, upload>>
                /\ \A i \in Files : intent[i].file = f => intent[i].pc = "done"
  <1>1. CASE UNCHANGED <<named, old>>
    BY <1>1
  <1>2. ASSUME NEW i \in Files, SaveUpload(i)
        PROVE  /\ named \subseteq named' /\ old' = old
               /\ \A f \in named' \ named : intent[f].pc = "save" /\ lock[f] = None
                                            /\ f \in Files
    BY <1>2 DEF SaveUpload
  <1>3. ASSUME NEW g \in Files, Age(g)
        PROVE  /\ named' = named /\ old \subseteq old'
               /\ \A f \in old' \ old :
                    /\ f \in Files /\ status[f] = "pending"
                    /\ UNCHANGED <<status, intent, upload>>
                    /\ \A i \in Files : intent[i].file = f => intent[i].pc = "done"
    BY <1>3 DEF Age, store
  <1>4. ASSUME NEW i \in Files, IntentStep(i) \/ IntentFails(i), ~SaveUpload(i)
        PROVE  UNCHANGED <<named, old>>
    BY <1>4 DEF IntentStep, IntentFails, InsertRow, FindRow, CreateUpload, Sign, rows
  <1>5. ASSUME NEW c \in Commits, FindFile(c) \/ CommitStep(c) \/ CommitFails(c)
        PROVE  UNCHANGED <<named, old>>
    BY <1>5 DEF FindFile, CommitStep, CommitFails, ListParts, Recheck, CompleteUpload, Head,
                ReadMagic, DropObject, UpdateStatus, OnlyCommit, rows
  <1>6. ASSUME NEW s \in Sweepers, SweepStep(s) \/ SweepFails(s)
        PROVE  UNCHANGED <<named, old>>
    BY <1>6 DEF SweepStep, SweepFails, ClaimOrphans, AbortUpload, DeleteObject, DeleteRows,
                rows
  <1>7. ASSUME NEW g \in Files, Resume(g) \/ PutObject(g) \/ UploadPart(g)
        PROVE  UNCHANGED <<named, old>>
    BY <1>7 DEF Resume, PutObject, UploadPart, rows
  <1> QED
    BY <1>1, <1>2, <1>3, <1>4, <1>5, <1>6, <1>7 DEF Next, vars, rows

\* The intent call of row i, whoever moves.
LEMMA IntentMoves ==
    ASSUME IInv, [Next]_vars, NEW i \in Files
    PROVE  \/ intent'[i] = intent[i] /\ ~InsertRow(i) /\ ~CreateUpload(i)
           \/ /\ intent[i].pc # "done" /\ intent'[i].pc = "done"
              /\ intent'[i].file = intent[i].file
              /\ intent'[i].answer = "urls" => intent[i].pc = "sign"
           \/ /\ intent[i].pc = "insert" /\ intent'[i].pc = "find"
              /\ intent'[i].answer = intent[i].answer
           \/ /\ intent[i].pc = "insert" /\ intent'[i].pc = "create" /\ IsBig(i)
              /\ intent'[i].file = i /\ intent'[i].answer = intent[i].answer
              /\ status'[i] = "pending" /\ UNCHANGED upload
           \/ /\ intent[i].pc = "create" /\ intent'[i].pc = "save"
              /\ intent'[i].file = i /\ intent'[i].answer = intent[i].answer
           \/ /\ intent[i].pc \in {"insert", "find", "save"} /\ intent'[i].pc = "sign"
              /\ intent'[i].answer = intent[i].answer
              /\ intent'[i].file \in Files /\ KeyOf[intent'[i].file] = KeyOf[i]
              /\ status'[intent'[i].file] # "absent"
  <1>0. Typed /\ Intents /\ intent \in [Files -> IntentType]
        /\ status \in [Files -> {"absent", "pending", "completed", "deleted"}]
    BY TypeIsTyped DEF IInv, Typed
  <1>p. \A pc \in {"insert", "find", "create", "save", "sign", "done"} : pc \in IntentPcs
    BY DEF IntentPcs
  <1>a. \A a \in {"none", "urls", "completed", "missing", "mismatch", "conflict", "gone",
                  "failed"} : a \in IntentAnswers
    BY DEF IntentAnswers
  <1>1. CASE InsertRow(i)
    <2>1. intent[i].pc = "insert" /\ UNCHANGED upload
      BY <1>1 DEF InsertRow, store
    <2>2. CASE Holder(i) = {}
      <3>1. status'[i] = "pending"
        BY <1>0, <1>1, <2>2 DEF InsertRow
      <3>2. IntentAt(i, IF IsBig(i) THEN "create" ELSE "sign", i)
        BY <1>1, <2>2 DEF InsertRow
      <3>3. CASE IsBig(i)
        <4>1. IntentAt(i, "create", i)
          BY <3>2, <3>3
        <4> QED
          BY <1>0, <1>p, <2>1, <3>1, <3>3, <4>1, IntentAtSets
      <3>4. CASE ~IsBig(i)
        <4>1. IntentAt(i, "sign", i)
          BY <3>2, <3>4
        <4> QED
          BY <1>0, <1>p, <2>1, <3>1, <3>4, <4>1, IntentAtSets
      <3> QED
        BY <3>3, <3>4
    <2>3. CASE Holder(i) # {}
      <3>1. IntentAt(i, "find", None)
        BY <1>1, <2>3 DEF InsertRow
      <3> QED
        BY <1>0, <1>p, <2>1, <3>1, IntentAtSets
    <2> QED
      BY <2>2, <2>3
  <1>2. CASE FindRow(i)
    <2>1. intent[i].pc = "find" /\ UNCHANGED status
      BY <1>2 DEF FindRow, rows
    <2>2. \/ \E answer \in {"missing", "mismatch", "completed", "conflict"} :
               AnswerIntent(i, answer)
          \/ \E f \in Holder(i) : IntentAt(i, "sign", f)
      BY <1>2 DEF FindRow
    <2>3. CASE \E answer \in {"missing", "mismatch", "completed", "conflict"} :
                 AnswerIntent(i, answer)
      BY <1>0, <1>a, <2>1, <2>3, AnswerIntentSets
    <2>4. ASSUME NEW f \in Holder(i), IntentAt(i, "sign", f)
          PROVE  /\ intent'[i].pc = "sign" /\ intent'[i].answer = intent[i].answer
                 /\ intent'[i].file \in Files /\ KeyOf[intent'[i].file] = KeyOf[i]
                 /\ status'[intent'[i].file] # "absent"
      <3>1. f \in Files /\ KeyOf[f] = KeyOf[i] /\ status[f] # "absent"
        BY DEF Holder, Live
      <3> QED
        BY <1>0, <1>p, <2>1, <2>4, <3>1, IntentAtSets
    <2> QED
      BY <2>1, <2>2, <2>3, <2>4
  <1>3. CASE CreateUpload(i)
    BY <1>0, <1>p, <1>3, IntentAtSets DEF CreateUpload
  <1>4. CASE SaveUpload(i)
    <2>1. intent[i].pc = "save" /\ UNCHANGED status /\ IntentAt(i, "sign", i)
      BY <1>4 DEF SaveUpload
    <2>2. status[i] # "absent"
      BY <1>0, <2>1 DEF Intents
    <2> QED
      BY <1>0, <1>p, <2>1, <2>2, IntentAtSets
  <1>5. CASE Sign(i)
    <2>1. intent[i].pc = "sign" /\ \E answer \in {"urls", "gone"} : AnswerIntent(i, answer)
      BY <1>5 DEF Sign
    <2> QED
      BY <1>0, <1>a, <2>1, AnswerIntentSets
  <1>6. CASE IntentFails(i)
    <2>1. intent[i].pc # "done" /\ AnswerIntent(i, "failed")
      BY <1>6 DEF IntentFails
    <2> QED
      BY <1>0, <1>a, <2>1, AnswerIntentSets
  <1>7. ASSUME NEW j \in Files \ {i}, IntentStep(j) \/ IntentFails(j)
        PROVE  intent'[i] = intent[i]
    BY <1>0, <1>7 DEF IntentStep, IntentFails, InsertRow, FindRow, CreateUpload, SaveUpload,
                      Sign, IntentAt, AnswerIntent
  <1>8. ASSUME NEW c \in Commits, FindFile(c) \/ CommitStep(c) \/ CommitFails(c)
        PROVE  UNCHANGED intent
    BY <1>8 DEF FindFile, CommitStep, CommitFails, ListParts, Recheck, CompleteUpload, Head,
                ReadMagic, DropObject, UpdateStatus, OnlyCommit
  <1>9. ASSUME NEW s \in Sweepers, SweepStep(s) \/ SweepFails(s)
        PROVE  UNCHANGED intent
    BY <1>9 DEF SweepStep, SweepFails, ClaimOrphans, AbortUpload, DeleteObject, DeleteRows
  <1>10. ASSUME NEW g \in Files, Resume(g) \/ PutObject(g) \/ UploadPart(g) \/ Age(g)
         PROVE  UNCHANGED intent
    BY <1>10 DEF Resume, PutObject, UploadPart, Age
  <1>11. UNCHANGED vars => UNCHANGED intent
    BY DEF vars
  <1>12. CASE intent'[i] = intent[i]
    BY <1>1, <1>3, <1>12
  <1> QED
    BY <1>1, <1>2, <1>3, <1>4, <1>5, <1>6, <1>7, <1>8, <1>9, <1>10, <1>11, <1>12
    DEF Next, IntentStep

-----------------------------------------------------------------------------
(* The parts of the invariant.                                             *)

LEMMA IntentsPreserved == IInv /\ [Next]_vars => Intents'
  <1> SUFFICES ASSUME IInv, [Next]_vars PROVE Intents'
    OBVIOUS
  <1>0. Intents /\ Typed
    BY TypeIsTyped DEF IInv
  <1>1. ASSUME NEW i \in Files, intent'[i].pc = "insert"
        PROVE  status'[i] = "absent"
    BY <1>0, <1>1, IntentMoves, StatusMoves DEF Intents
  <1>2. ASSUME NEW i \in Files, intent'[i].pc \in {"insert", "create"}
        PROVE  upload'[i] = "none"
    BY <1>0, <1>2, IntentMoves, UploadMoves DEF Intents
  <1>3. ASSUME NEW i \in Files, intent'[i].pc \in {"create", "save"}
        PROVE  IsBig(i) /\ intent'[i].file = i /\ status'[i] # "absent"
    BY <1>0, <1>3, IntentMoves, StatusMoves DEF Intents
  <1>4. ASSUME NEW i \in Files, intent'[i].answer # "none"
        PROVE  intent'[i].pc = "done"
    BY <1>0, <1>4, IntentMoves DEF Intents
  <1>5. ASSUME NEW i \in Files, intent'[i].pc = "sign" \/ intent'[i].answer = "urls"
        PROVE  /\ intent'[i].file \in Files
               /\ KeyOf[intent'[i].file] = KeyOf[i]
               /\ status'[intent'[i].file] # "absent"
    <2>1. CASE intent'[i].pc = "sign" /\ intent[i].pc # "sign"
      BY <1>0, <2>1, IntentMoves DEF Intents
    <2>2. CASE intent'[i].file = intent[i].file
               /\ (intent[i].pc = "sign" \/ intent[i].answer = "urls")
      <3>1. /\ intent[i].file \in Files
            /\ KeyOf[intent[i].file] = KeyOf[i]
            /\ status[intent[i].file] # "absent"
        BY <1>0, <2>2 DEF Intents
      <3> DEFINE f == intent[i].file
      <3>2. status'[f] # "absent"
        BY <3>1, StatusMoves
      <3> QED
        BY <2>2, <3>1, <3>2
    <2>3. \/ intent'[i].pc = "sign" /\ intent[i].pc # "sign"
          \/ intent'[i].file = intent[i].file
             /\ (intent[i].pc = "sign" \/ intent[i].answer = "urls")
      BY <1>0, <1>5, IntentMoves DEF Intents
    <2> QED
      BY <2>1, <2>2, <2>3
  <1>6. ASSUME NEW f \in old'
        PROVE  intent'[f].pc \notin {"insert", "create", "save"}
    <2>1. CASE f \in old
      <3>1. f \in Files
        BY <1>0, <2>1 DEF Typed
      <3> QED
        BY <1>0, <2>1, <3>1, IntentMoves DEF Intents
    <2>2. CASE f \notin old
      BY <1>0, <2>2, SetsMove DEF Intents
    <2> QED
      BY <2>1, <2>2
  <1> QED
    BY <1>1, <1>2, <1>3, <1>4, <1>5, <1>6 DEF Intents, IsBig

LEMMA TablePreserved == IInv /\ [Next]_vars => Table'
  <1> SUFFICES ASSUME IInv, [Next]_vars PROVE Table'
    OBVIOUS
  <1>0. Intents /\ Table /\ Sweeping /\ Typed
    BY TypeIsTyped DEF IInv
  <1>1. ASSUME NEW f \in Files, NEW g \in Files, Live(f)', Live(g)', KeyOf[f] = KeyOf[g],
               KeyOf[f] # NoKey
        PROVE  f = g
    <2>1. ASSUME NEW h \in Files, Live(h)'
          PROVE  \/ Live(h)
                 \/ Holder(h) = {} /\ InsertRow(h)
      BY <2>1, StatusMoves DEF Live
    <2>2. ASSUME InsertRow(f), InsertRow(g)
          PROVE  f = g
      <3>1. intent'[f].pc # "insert" /\ intent[f].pc = "insert"
        BY <2>2, IntentMoves DEF InsertRow
      <3>2. f # g => intent'[f] = intent[f]
        BY <1>0, <2>2 DEF InsertRow, IntentAt, Typed
      <3> QED
        BY <3>1, <3>2
    <2>3. CASE Live(f) /\ Live(g)
      BY <1>0, <1>1, <2>3 DEF Table
    <2>4. CASE Live(f) /\ Holder(g) = {}
      BY <1>1, <2>4 DEF Holder
    <2>5. CASE Live(g) /\ Holder(f) = {}
      BY <1>1, <2>5 DEF Holder
    <2> QED
      BY <1>1, <2>1, <2>2, <2>3, <2>4, <2>5
  <1>2. ASSUME NEW f \in named'
        PROVE  IsBig(f)
    BY <1>0, SetsMove DEF Table, Intents
  <1>3. ASSUME NEW f \in Files, status'[f] = "deleted"
        PROVE  f \in old'
    BY <1>0, <1>3, StatusMoves, SetsMove DEF Table, Sweeping
  <1> QED
    BY <1>1, <1>2, <1>3 DEF Table, IsBig

LEMMA StoredPreserved == IInv /\ [Next]_vars => Stored'
  <1> SUFFICES ASSUME IInv, [Next]_vars PROVE Stored'
    OBVIOUS
  <1>0. Stored /\ Committing
    BY DEF IInv
  <1>1. ASSUME NEW f \in Files, IsBig(f), object'[f] # "none"
        PROVE  upload'[f] = "done"
    BY <1>0, <1>1, ObjectMoves, UploadMoves DEF Stored
  <1>2. ASSUME NEW f \in Files, upload'[f] = "done"
        PROVE  parts'[f] = Parts
    <2>1. parts[f] = Parts
      BY <1>0, <1>2, UploadMoves DEF Stored, Committing, CompleteUpload
    <2> QED
      BY <2>1, PartsMove
  <1> QED
    BY <1>1, <1>2 DEF Stored, IsBig

\* The commit call of c, whoever moves.
LEMMA CommitTurns ==
    ASSUME IInv, [Next]_vars, NEW c \in Commits
    PROVE  \/ commit'[c] = commit[c]
           \/ FindFile(c)
           \/ CommitStep(c) \/ CommitFails(c)
  <1>0. Typed /\ Intents
    BY TypeIsTyped DEF IInv
  <1>1. ASSUME NEW d \in Commits \ {c}, FindFile(d) \/ CommitStep(d) \/ CommitFails(d)
        PROVE  commit'[c] = commit[c]
    BY <1>0, <1>1, FindFileSets, CommitMoves
  <1>2. ASSUME NEW i \in Files, IntentStep(i) \/ IntentFails(i)
        PROVE  UNCHANGED commit
    BY <1>2 DEF IntentStep, IntentFails, InsertRow, FindRow, CreateUpload, SaveUpload, Sign
  <1>3. ASSUME NEW s \in Sweepers, SweepStep(s) \/ SweepFails(s)
        PROVE  UNCHANGED commit
    BY <1>3 DEF SweepStep, SweepFails, ClaimOrphans, AbortUpload, DeleteObject, DeleteRows
  <1>4. ASSUME NEW g \in Files, Resume(g) \/ PutObject(g) \/ UploadPart(g) \/ Age(g)
        PROVE  UNCHANGED commit
    BY <1>4 DEF Resume, PutObject, UploadPart, Age
  <1>5. UNCHANGED vars => UNCHANGED commit
    BY DEF vars
  <1> QED
    BY <1>1, <1>2, <1>3, <1>4, <1>5 DEF Next

LEMMA CommittingPreserved == IInv /\ [Next]_vars => Committing'
  <1> SUFFICES ASSUME IInv, [Next]_vars PROVE Committing'
    OBVIOUS
  <1>0. Typed /\ Intents /\ Stored /\ Committing
    BY TypeIsTyped DEF IInv
  <1>k. ASSUME NEW f \in Files, status[f] # "absent"
        PROVE  status'[f] # "absent"
    BY <1>k, StatusMoves
  <1>1. ASSUME NEW c \in Commits, commit'[c].pc # "start"
        PROVE  commit'[c].file \in Files /\ status'[commit'[c].file] # "absent"
    <2>1. CASE FindFile(c)
      BY <1>0, <1>k, <2>1, FindFileSets
    <2>2. CASE commit[c].pc # "start" /\ commit'[c].file = commit[c].file
      BY <1>0, <1>k, <2>2 DEF Committing
    <2> QED
      BY <1>0, <1>1, <2>1, <2>2, CommitTurns, CommitMoves
  <1>2. ASSUME NEW c \in Commits, commit'[c].pc = "complete"
        PROVE  parts'[commit'[c].file] = Parts
    <2>1. CASE commit'[c] = commit[c]
      BY <1>0, <1>2, <2>1, PartsMove DEF Committing
    <2>2. CASE CommitStep(c) \/ CommitFails(c)
      BY <1>0, <1>2, <2>2, CommitMoves
    <2> QED
      BY <1>0, <1>2, <2>1, <2>2, CommitTurns, FindFileSets
  <1>3. ASSUME NEW c \in Commits, commit'[c].pc \in {"magic", "update"},
               IsBig(commit'[c].file)
        PROVE  upload'[commit'[c].file] = "done"
    <2> DEFINE f == commit[c].file
    <2>1. f \in Files /\ commit'[c].file = f /\ upload[f] = "done"
      <3>1. CASE commit'[c] = commit[c]
        BY <1>0, <1>3, <3>1 DEF Committing
      <3>2. CASE CommitStep(c) \/ CommitFails(c)
        <4>1. /\ commit[c].pc # "start" /\ commit'[c].file = f
              /\ \/ Head(c) /\ object[f] # "none"
                 \/ ReadMagic(c)
          BY <1>0, <1>3, <3>2, CommitMoves
        <4> QED
          BY <1>0, <1>3, <4>1 DEF Committing, Stored, ReadMagic
      <3> QED
        BY <1>0, <1>3, <3>1, <3>2, CommitTurns, FindFileSets
    <2> QED
      BY <2>1, UploadMoves
  <1>4. ASSUME NEW c \in Commits, commit'[c].pc = "update", IsBig(commit'[c].file)
        PROVE  object'[commit'[c].file] # "fake"
    <2> DEFINE f == commit[c].file
    <2>1. CASE commit'[c] = commit[c]
      <3>1. f \in Files /\ IsBig(f) /\ object[f] # "fake" /\ upload[f] = "done"
        BY <1>0, <1>4, <2>1 DEF Committing
      <3> QED
        BY <2>1, <3>1, ObjectMoves
    <2>2. CASE CommitStep(c) \/ CommitFails(c)
      <3>1. commit'[c].file = f /\ ReadMagic(c) /\ object[f] # "fake"
        BY <1>0, <1>4, <2>2, CommitMoves
      <3>2. UNCHANGED object
        BY <3>1 DEF ReadMagic, store
      <3> QED
        BY <3>1, <3>2
    <2> QED
      BY <1>0, <1>4, <2>1, <2>2, CommitTurns, FindFileSets
  <1>5. ASSUME NEW c \in Commits, commit'[c].pc = "start"
        PROVE  commit'[c].answer = "none"
    BY <1>0, <1>5, CommitTurns, FindFileSets, CommitMoves DEF Committing
  <1> QED
    BY <1>1, <1>2, <1>3, <1>4, <1>5 DEF Committing, IsBig

LEMMA AnswerPreserved == IInv /\ [Next]_vars => CompletedAnswer'
  <1> SUFFICES ASSUME IInv, [Next]_vars, NEW c \in Commits, commit'[c].answer = "completed"
               PROVE  status'[commit'[c].file] \in {"completed", "deleted"}
    BY DEF CompletedAnswer
  <1>0. Typed /\ Intents /\ Committing /\ CompletedAnswer
        /\ status \in [Files -> {"absent", "pending", "completed", "deleted"}]
    BY TypeIsTyped DEF IInv, Typed
  <1>k. ASSUME NEW f \in Files, status[f] \in {"completed", "deleted"}
        PROVE  status'[f] \in {"completed", "deleted"}
    BY <1>k, StatusMoves
  <1>1. CASE commit[c].answer = "completed" /\ commit'[c].file = commit[c].file
    BY <1>0, <1>1, <1>k DEF Committing, CompletedAnswer
  <1>2. CASE UpdateStatus(c)
    <2>1. commit'[c].file = commit[c].file /\ commit[c].pc # "start"
      BY <1>0, <1>2, CommitMoves DEF CommitStep
    <2>2. commit[c].file \in Files /\ status[commit[c].file] # "absent"
      BY <1>0, <2>1 DEF Committing
    <2> QED
      BY <1>0, <1>2, <2>1, <2>2 DEF UpdateStatus
  <1>3. CASE FindFile(c)
    BY <1>0, <1>3, <1>k, FindFileSets
  <1> QED
    BY <1>0, <1>1, <1>2, <1>3, CommitTurns, CommitMoves

LEMMA WholePreserved == IInv /\ [Next]_vars => CompletedIsWhole'
  <1> SUFFICES ASSUME IInv, [Next]_vars, NEW f \in Files, status'[f] = "completed", IsBig(f)
               PROVE  upload'[f] = "done" /\ parts'[f] = Parts /\ object'[f] # "fake"
    BY DEF CompletedIsWhole, IsBig
  <1>0. Stored /\ Committing /\ CompletedIsWhole
    BY DEF IInv
  <1>1. upload[f] = "done" /\ parts[f] = Parts /\ object[f] # "fake"
    <2>1. CASE status[f] = "completed"
      BY <1>0, <2>1 DEF CompletedIsWhole
    <2>2. CASE \E c \in Commits : UpdateStatus(c) /\ commit[c].file = f
      BY <1>0, <2>2 DEF UpdateStatus, Committing, Stored
    <2> QED
      BY <2>1, <2>2, StatusMoves
  <1> QED
    BY <1>1, UploadMoves, PartsMove, ObjectMoves

\* The sweep of s, whoever moves.
LEMMA SweepTurns ==
    ASSUME IInv, [Next]_vars, NEW s \in Sweepers
    PROVE  \/ sweep'[s] = sweep[s]
           \/ SweepStep(s) \/ SweepFails(s)
  <1>0. Typed
    BY TypeIsTyped DEF IInv
  <1>1. ASSUME NEW t \in Sweepers \ {s}, SweepStep(t) \/ SweepFails(t)
        PROVE  sweep'[s] = sweep[s]
    <2>1. CASE ClaimOrphans(t)
      BY <1>0, <2>1, ClaimSets
    <2>2. CASE AbortUpload(t)
      BY <1>0, <2>2, AbortSets
    <2>3. CASE DeleteObject(t)
      BY <1>0, <2>3, DeleteSets
    <2>4. CASE DeleteRows(t) \/ SweepFails(t)
      BY <1>0, <2>4, EndSets
    <2> QED
      BY <1>1, <2>1, <2>2, <2>3, <2>4 DEF SweepStep
  <1>2. ASSUME NEW i \in Files, IntentStep(i) \/ IntentFails(i)
        PROVE  UNCHANGED sweep
    BY <1>2 DEF IntentStep, IntentFails, InsertRow, FindRow, CreateUpload, SaveUpload, Sign
  <1>3. ASSUME NEW c \in Commits, FindFile(c) \/ CommitStep(c) \/ CommitFails(c)
        PROVE  UNCHANGED sweep
    BY <1>3 DEF FindFile, CommitStep, CommitFails, ListParts, Recheck, CompleteUpload, Head,
                ReadMagic, DropObject, UpdateStatus, OnlyCommit
  <1>4. ASSUME NEW g \in Files, Resume(g) \/ PutObject(g) \/ UploadPart(g) \/ Age(g)
        PROVE  UNCHANGED sweep
    BY <1>4 DEF Resume, PutObject, UploadPart, Age
  <1>5. UNCHANGED vars => UNCHANGED sweep
    BY DEF vars
  <1> QED
    BY <1>1, <1>2, <1>3, <1>4, <1>5 DEF Next

\* A lock is held until its own sweep ends.
LEMMA LockKept ==
    ASSUME IInv, [Next]_vars, NEW f \in Files, NEW s \in Sweepers, lock[f] = s
    PROVE  lock'[f] = s \/ DeleteRows(s) \/ SweepFails(s)
  <1>0. Typed /\ s # None /\ lock \in [Files -> Sweepers \union {None}]
    BY TypeIsTyped, UploadAssumption DEF IInv, Typed
  <1>1. ASSUME NEW t \in Sweepers, ClaimOrphans(t)
        PROVE  lock'[f] = s
    <2>1. PICK batch \in SUBSET Sweepable :
            lock' = [g \in Files |-> IF g \in batch THEN t ELSE lock[g]]
      BY <1>0, <1>1, ClaimSets
    <2>2. f \notin batch
      BY <1>0, <2>1 DEF Sweepable
    <2> QED
      BY <2>1, <2>2
  <1>2. ASSUME NEW t \in Sweepers \ {s}, DeleteRows(t) \/ SweepFails(t)
        PROVE  lock'[f] = s
    BY <1>0, <1>2, EndSets
  <1>3. ASSUME NEW t \in Sweepers, AbortUpload(t) \/ DeleteObject(t)
        PROVE  UNCHANGED lock
    BY <1>3 DEF AbortUpload, DeleteObject, rows
  <1>4. ASSUME NEW i \in Files, IntentStep(i) \/ IntentFails(i)
        PROVE  UNCHANGED lock
    BY <1>4 DEF IntentStep, IntentFails, InsertRow, FindRow, CreateUpload, SaveUpload, Sign,
                rows
  <1>5. ASSUME NEW c \in Commits, FindFile(c) \/ CommitStep(c) \/ CommitFails(c)
        PROVE  UNCHANGED lock
    BY <1>5 DEF FindFile, CommitStep, CommitFails, ListParts, Recheck, CompleteUpload, Head,
                ReadMagic, DropObject, UpdateStatus, OnlyCommit, rows
  <1>6. ASSUME NEW g \in Files, Resume(g) \/ PutObject(g) \/ UploadPart(g) \/ Age(g)
        PROVE  UNCHANGED lock
    BY <1>6 DEF Resume, PutObject, UploadPart, Age, rows
  <1>7. UNCHANGED vars => UNCHANGED lock
    BY DEF vars, rows
  <1> QED
    BY <1>1, <1>2, <1>3, <1>4, <1>5, <1>6, <1>7 DEF Next, SweepStep

\* A row in a batch stays as it was read: old, pending, locked, and neither
\* given an upload nor the name of one.
LEMMA BatchKept ==
    ASSUME IInv, [Next]_vars, NEW s \in Sweepers, NEW f \in sweep'[s].batch
    PROVE  /\ f \in Files /\ f \in old /\ f \in old'
           /\ f \in named' => f \in named /\ IsBig(f)
           /\ status'[f] = "pending" /\ lock'[f] = s
           /\ upload'[f] = "open" => upload[f] = "open"
  <1>0. Typed /\ Sweeping /\ Intents /\ Table /\ s # None /\ old \subseteq Files
    BY TypeIsTyped, UploadAssumption DEF IInv, Typed
  <1>1. ~DeleteRows(s) /\ ~SweepFails(s)
    BY <1>0, EndSets
  <1>2. /\ f \in old /\ status'[f] = "pending" /\ lock'[f] = s
    <2>1. CASE f \in sweep[s].batch
      <3>1. f \in Files /\ f \in old /\ status[f] = "pending" /\ lock[f] = s
        BY <1>0, <2>1 DEF Sweeping
      <3>2. lock'[f] = s
        BY <1>1, <3>1, LockKept
      <3>3. ASSUME NEW t \in Sweepers, DeleteRows(t), f \in sweep[t].batch
            PROVE  FALSE
        BY <1>0, <1>1, <3>1, <3>3 DEF Sweeping
      <3>4. status'[f] = "pending"
        BY <1>0, <3>1, <3>3, StatusMoves
      <3> QED
        BY <3>1, <3>2, <3>4
    <2>2. CASE ClaimOrphans(s)
      <3>1. UNCHANGED status
        BY <2>2 DEF ClaimOrphans
      <3>2. PICK batch \in SUBSET Sweepable :
              /\ sweep'[s] = [batch |-> batch, left |-> batch, aborted |-> batch \ named]
              /\ lock' = [g \in Files |-> IF g \in batch THEN s ELSE lock[g]]
        BY <1>0, <2>2, ClaimSets
      <3>3. f \in batch /\ f \in old /\ f \in Files /\ status[f] = "pending"
        BY <1>0, <3>2 DEF Sweepable
      <3> QED
        BY <3>1, <3>2, <3>3
    <2> QED
      BY <1>0, <1>1, <2>1, <2>2, SweepTurns, AbortSets, DeleteSets DEF SweepStep
  <1>3. f \in Files /\ f \in old' /\ (f \in named' => f \in named)
    BY <1>0, <1>2, SetsMove DEF Intents
  <1>4. upload'[f] = "open" => upload[f] = "open"
    BY <1>0, <1>2, <1>3, UploadMoves DEF Intents, CreateUpload
  <1> QED
    BY <1>0, <1>2, <1>3, <1>4 DEF Table

LEMMA SweepingPreserved == IInv /\ [Next]_vars => Sweeping'
  <1> SUFFICES ASSUME IInv, [Next]_vars, NEW s \in Sweepers
               PROVE  /\ sweep'[s].left \subseteq sweep'[s].batch
                      /\ \A f \in sweep'[s].batch :
                           /\ f \in old' /\ status'[f] = "pending" /\ lock'[f] = s
                           /\ f \notin sweep'[s].left => f \in sweep'[s].aborted
                           /\ f \in named' /\ f \in sweep'[s].aborted => upload'[f] # "open"
                           /\ f \in named' /\ f \notin sweep'[s].left => object'[f] = "none"
    BY DEF Sweeping
  <1>0. Typed /\ Sweeping
        /\ upload \in [Files -> {"none", "open", "done", "aborted"}]
        /\ object \in [Files -> {"none", "good", "short", "fake"}]
    BY TypeIsTyped DEF IInv, Typed
  <1>k. ASSUME NEW f \in sweep'[s].batch, f \in sweep[s].batch, f \in named',
               f \notin sweep[s].left
        PROVE  object'[f] = "none"
    <2>1. f \in Files /\ f \in named /\ IsBig(f)
      BY <1>k, BatchKept
    <2>2. object[f] = "none" /\ upload[f] # "open"
      BY <1>0, <1>k, <2>1 DEF Sweeping
    <2> QED
      BY <2>1, <2>2, ObjectMoves
  <1>1. CASE sweep'[s] = sweep[s]
    BY <1>0, <1>1, <1>k, BatchKept DEF Sweeping
  <1>2. CASE ClaimOrphans(s)
    <2>1. PICK batch \in SUBSET Sweepable :
            sweep'[s] = [batch |-> batch, left |-> batch, aborted |-> batch \ named]
      BY <1>0, <1>2, ClaimSets
    <2>2. UNCHANGED named
      BY <1>2 DEF ClaimOrphans
    <2> QED
      BY <2>1, <2>2, BatchKept
  <1>3. CASE AbortUpload(s)
    <2>1. PICK g \in Files :
            /\ g \in sweep[s].left
            /\ upload' = [upload EXCEPT ![g] = IF upload[g] = "open" THEN "aborted"
                                               ELSE upload[g]]
            /\ sweep'[s].batch = sweep[s].batch /\ sweep'[s].left = sweep[s].left
            /\ sweep'[s].aborted = sweep[s].aborted \union {g}
      BY <1>0, <1>3, AbortSets
    <2>2. upload'[g] # "open"
      BY <1>0, <2>1
    <2> QED
      BY <1>0, <1>k, <2>1, <2>2, BatchKept DEF Sweeping
  <1>4. CASE DeleteObject(s)
    <2>1. PICK g \in Files :
            /\ g \in sweep[s].left /\ g \in sweep[s].aborted
            /\ object' = [object EXCEPT ![g] = "none"]
            /\ sweep'[s].batch = sweep[s].batch /\ sweep'[s].left = sweep[s].left \ {g}
            /\ sweep'[s].aborted = sweep[s].aborted
      BY <1>0, <1>4, DeleteSets
    <2>2. object'[g] = "none"
      BY <1>0, <2>1
    <2> QED
      BY <1>0, <1>k, <2>1, <2>2, BatchKept DEF Sweeping
  <1>5. CASE DeleteRows(s) \/ SweepFails(s)
    BY <1>0, <1>5, EndSets
  <1> QED
    BY <1>1, <1>2, <1>3, <1>4, <1>5, SweepTurns DEF SweepStep

LEMMA SweptPreserved == IInv /\ [Next]_vars => SweptLeavesNothing'
  <1> SUFFICES ASSUME IInv, [Next]_vars, NEW f \in named', status'[f] = "deleted"
               PROVE  upload'[f] # "open" /\ object'[f] = "none"
    BY DEF SweptLeavesNothing
  <1>0. Typed /\ Sweeping /\ Intents /\ Table /\ SweptLeavesNothing /\ named' \subseteq Files
        /\ old \subseteq Files
    BY TypeIsTyped, TypePreserved DEF IInv, Typed
  <1>1. f \in Files /\ f \in old
    <2>1. CASE status[f] = "deleted"
      BY <1>0, <2>1 DEF Table
    <2>2. CASE \E s \in Sweepers : DeleteRows(s) /\ f \in sweep[s].batch
      BY <1>0, <2>2 DEF Sweeping
    <2> QED
      BY <1>0, <2>1, <2>2, StatusMoves
  <1>2. f \in named /\ IsBig(f) /\ intent[f].pc # "create"
    BY <1>0, <1>1, SetsMove DEF Intents, Table
  <1>3. upload[f] # "open" /\ object[f] = "none"
    <2>1. CASE status[f] = "deleted"
      BY <1>0, <1>2, <2>1 DEF SweptLeavesNothing
    <2>2. ASSUME NEW s \in Sweepers, DeleteRows(s), f \in sweep[s].batch
          PROVE  upload[f] # "open" /\ object[f] = "none"
      <3>1. f \notin sweep[s].left
        BY <2>2 DEF DeleteRows
      <3> QED
        BY <1>0, <1>2, <2>2, <3>1 DEF Sweeping
    <2> QED
      BY <1>1, <2>1, <2>2, StatusMoves
  <1> QED
    BY <1>1, <1>2, <1>3, UploadMoves, ObjectMoves DEF CreateUpload

LEMMA Initially == Init => IInv
  <1> SUFFICES ASSUME Init PROVE IInv
    OBVIOUS
  <1>1. Typed
    BY UploadAssumption DEF Init, Typed, IntentType, IntentPcs, IntentAnswers, CommitType,
                            CommitPcs, CommitAnswers, SweepType, NoBatch
  <1>2. Intents /\ Table /\ Stored
    BY DEF Init, Intents, Table, Stored, Live
  <1>3. Committing /\ Sweeping
    BY DEF Init, Committing, Sweeping, NoBatch
  <1>4. CompletedAnswer /\ CompletedIsWhole /\ SweptLeavesNothing
    BY DEF Init, CompletedAnswer, CompletedIsWhole, SweptLeavesNothing
  <1> QED
    BY <1>1, <1>2, <1>3, <1>4, TypeIsTyped DEF IInv

-----------------------------------------------------------------------------
(* The theorems.                                                           *)

\* The inductive invariant.
THEOREM Invariance == Spec => []IInv
  <1>1. IInv /\ [Next]_vars => IInv'
    BY TypePreserved, IntentsPreserved, TablePreserved, StoredPreserved, CommittingPreserved,
       SweepingPreserved, AnswerPreserved, WholePreserved, SweptPreserved DEF IInv
  <1> QED
    BY <1>1, Initially, PTL DEF Spec

\* Rows, store and calls stay in their types: no statement of intent(),
\* commit() or sweepOrphanFiles() works on a row that was never chosen.
THEOREM TypeCorrect == Spec => []TypeOK
  <1>1. IInv => TypeOK
    BY DEF IInv
  <1> QED
    BY <1>1, Invariance, PTL

\* The double tap of intent(): two calls with one Idempotency-Key are answered
\* with URLs of one row, unless the sweep deleted one in between.
THEOREM OneFilePerKey == Spec => []SameFilePerKey
  <1>1. IInv => SameFilePerKey
    <2> SUFFICES ASSUME IInv, NEW i \in Files, NEW j \in Files, KeyOf[i] = KeyOf[j],
                        KeyOf[i] # NoKey, intent[i].answer = "urls",
                        intent[j].answer = "urls"
                 PROVE  \/ intent[i].file = intent[j].file
                        \/ status[intent[i].file] = "deleted"
                        \/ status[intent[j].file] = "deleted"
      BY DEF SameFilePerKey
    <2> DEFINE f == intent[i].file
               g == intent[j].file
    <2>1. f \in Files /\ g \in Files /\ KeyOf[f] = KeyOf[i] /\ KeyOf[g] = KeyOf[i]
          /\ status[f] # "absent" /\ status[g] # "absent"
      BY DEF IInv, Intents
    <2>2. Typed
      BY TypeIsTyped DEF IInv
    <2>3. status[f] = "deleted" \/ Live(f)
      BY <2>1, <2>2 DEF Typed, Live
    <2>4. status[g] = "deleted" \/ Live(g)
      BY <2>1, <2>2 DEF Typed, Live
    <2>5. Live(f) /\ Live(g) => f = g
      BY <2>1 DEF IInv, Table
    <2> QED
      BY <2>3, <2>4, <2>5
  <1> QED
    BY <1>1, Invariance, PTL

\* commit() answers COMPLETED only for a row that is, or that a sweep deleted.
THEOREM AnswerIsTrue == Spec => []CompletedAnswer
  <1>1. IInv => CompletedAnswer
    BY DEF IInv
  <1> QED
    BY <1>1, Invariance, PTL

\* A COMPLETED multipart file was assembled from all its parts and its first
\* bytes were checked, whichever of several commits completed the upload.
THEOREM Whole == Spec => []CompletedIsWhole
  <1>1. IInv => CompletedIsWhole
    BY DEF IInv
  <1> QED
    BY <1>1, Invariance, PTL

\* sweepOrphanFiles(): no row is in two batches (FOR UPDATE SKIP LOCKED), and
\* nothing is left in the store of a deleted multipart file.
THEOREM SweepIsClean == Spec => []SweepsClean
  <1>1. IInv => SweepsClean
    <2> SUFFICES ASSUME IInv, NEW s \in Sweepers, NEW t \in Sweepers, s # t,
                        NEW f \in sweep[s].batch \intersect sweep[t].batch
                 PROVE  FALSE
      BY DEF SweepsClean, SweepsDisjoint, IInv
    <2> QED
      BY DEF IInv, Sweeping
  <1> QED
    BY <1>1, Invariance, PTL

\* No step takes a committed file away, however commit and sweep interleave.
THEOREM CommittedStays == Spec => CompletedStays
  <1>1. IInv /\ [Next]_vars =>
          [\A f \in Files : status[f] = "completed" => status'[f] = "completed"]_vars
    BY StatusMoves
  <1> QED
    BY <1>1, Invariance, PTL DEF Spec, CompletedStays

\* What calls are answered with, of both kinds.
THEOREM AnswersTrue == Spec => []AnswersHold
  BY OneFilePerKey, AnswerIsTrue, PTL DEF AnswersHold

-----------------------------------------------------------------------------
(* The part arithmetic.  Division rounds up, so a part is large enough; it *)
(* is a whole number of MiB, as the largest part is, so it is not too      *)
(* large.                                                                  *)

\* Euclid's equation for \div and %.
LEMMA Division ==
    ASSUME NEW a \in Nat, NEW b \in Nat \ {0}
    PROVE  /\ a \div b \in Nat
           /\ a % b \in 0 .. b - 1
           /\ a = b * (a \div b) + (a % b)
  OBVIOUS

\* Math.ceil of a quotient: the least number of bs that cover a.
LEMMA CeilDivCovers ==
    ASSUME NEW a \in Nat, NEW b \in Nat \ {0}
    PROVE  /\ CeilDiv(a, b) \in Nat
           /\ a <= CeilDiv(a, b) * b
           /\ (CeilDiv(a, b) - 1) * b < a
<1> DEFINE c == a + b - 1
           q == c \div b
           r == c % b
<1>1. c \in Nat
  OBVIOUS
<1>2. q \in Nat /\ r \in 0 .. b - 1 /\ c = b * q + r
  BY <1>1, Division
<1>3. CeilDiv(a, b) = q
  BY DEF CeilDiv
<1> HIDE DEF q, r
<1>4. b * q = q * b /\ (q - 1) * b = q * b - b
  BY <1>2
<1>5. QED
  BY <1>2, <1>3, <1>4

\* A positive factor keeps the order.
LEMMA TimesKeepsOrder ==
    ASSUME NEW a \in Int, NEW b \in Int, NEW n \in Nat \ {0}
    PROVE  /\ a * n < b * n => a < b
           /\ a <= b => a * n <= b * n
<1>1. CASE a <= b
  <2>1. PICK d \in Nat : b = a + d
    BY <1>1
  <2>2. b * n = a * n + d * n /\ d * n \in Nat
    BY <2>1
  <2>3. d = 0 => d * n = 0
    OBVIOUS
  <2>4. a * n \in Int /\ b * n \in Int
    OBVIOUS
  <2>5. a * n <= b * n
    BY <2>2, <2>4
  <2>6. a * n < b * n => a # b
    BY <2>4
  <2>7. QED
    BY <1>1, <2>5, <2>6
<1>2. CASE b < a
  <2>1. PICK d \in Nat : a = b + d
    BY <1>2
  <2>2. a * n = b * n + d * n /\ d * n \in Nat /\ b * n \in Int
    BY <2>1
  <2>3. ~(a * n < b * n)
    BY <2>2
  <2>4. QED
    BY <1>2, <2>3
<1>3. QED
  BY <1>1, <1>2

\* The part size is within the limits and MAX_PARTS parts of it cover the file.
LEMMA PartSizeFits ==
    ASSUME NEW size \in Sizes
    PROVE  /\ PartSize(size) \in Nat \ {0}
           /\ MIN_PART_BYTES <= PartSize(size) /\ PartSize(size) <= MAX_PART_BYTES
           /\ size <= MAX_PARTS * PartSize(size)
<1> USE PartPlanAssumption
<1> DEFINE c == CeilDiv(size, MAX_PARTS)
           w == CeilDiv(c, MiB)
           P == PartSize(size)
<1>1. size \in Nat /\ size # 0 /\ size <= MAX_OBJECT_BYTES
  BY DEF Sizes
<1>2. /\ c \in Nat /\ size <= c * MAX_PARTS /\ (c - 1) * MAX_PARTS < size
  BY <1>1, CeilDivCovers
<1>3. /\ w \in Nat /\ c <= w * MiB /\ (w - 1) * MiB < c
  BY <1>2, CeilDivCovers
<1>4. P = Larger(MIN_PART_BYTES, w * MiB)
  BY DEF PartSize, WholeMiB
<1> HIDE DEF c, w, P
<1>5. w * MiB <= MAX_PART_BYTES
  <2>1. PICK k \in Nat : MAX_PART_BYTES = k * MiB
    <3>1. /\ MAX_PART_BYTES \div MiB \in Nat
          /\ MAX_PART_BYTES = MiB * (MAX_PART_BYTES \div MiB) + 0
      BY Division
    <3>2. QED
      BY <3>1
  <2>2. (c - 1) * MAX_PARTS < MAX_PART_BYTES * MAX_PARTS
    <3>1. /\ (c - 1) * MAX_PARTS \in Int
          /\ MAX_PART_BYTES * MAX_PARTS = MAX_PARTS * MAX_PART_BYTES
          /\ MAX_PARTS * MAX_PART_BYTES \in Int
      BY <1>2
    <3>2. QED
      BY <1>1, <1>2, <3>1
  <2>3. c <= MAX_PART_BYTES
    BY <1>2, <2>2, TimesKeepsOrder
  <2>4. (w - 1) * MiB < k * MiB
    <3>1. (w - 1) * MiB \in Int /\ k * MiB \in Int
      BY <1>3
    <3>2. QED
      BY <1>2, <1>3, <2>1, <2>3, <3>1
  <2>5. w <= k
    BY <1>3, <2>4, TimesKeepsOrder
  <2>6. QED
    BY <1>3, <2>1, <2>5, TimesKeepsOrder
<1>6. w * MiB \in Nat
  BY <1>3
<1>7. /\ P \in Nat \ {0} /\ MIN_PART_BYTES <= P /\ P <= MAX_PART_BYTES /\ c <= P
  BY <1>2, <1>3, <1>4, <1>5, <1>6 DEF Larger
<1>8. size <= MAX_PARTS * P
  <2>1. c * MAX_PARTS <= P * MAX_PARTS
    BY <1>2, <1>7, TimesKeepsOrder
  <2>2. /\ c * MAX_PARTS \in Nat /\ P * MAX_PARTS \in Nat
        /\ P * MAX_PARTS = MAX_PARTS * P
    BY <1>2, <1>7
  <2>3. QED
    BY <1>1, <1>2, <2>1, <2>2
<1>9. QED
  BY <1>7, <1>8 DEF P

\* The parts before the last are full, and the last one is what they leave.
LEMMA PartCountFits ==
    ASSUME NEW size \in Sizes
    PROVE  /\ PartCount(size) \in 1 .. MAX_PARTS
           /\ size <= PartSize(size) * PartCount(size)
           /\ PartSize(size) * (PartCount(size) - 1) < size
<1> USE PartPlanAssumption
<1> DEFINE P == PartSize(size)
           k == PartCount(size)
<1>1. size \in Nat /\ 1 <= size
  BY DEF Sizes
<1>2. P \in Nat \ {0} /\ size <= MAX_PARTS * P
  BY PartSizeFits
<1>3. k \in Nat /\ size <= k * P /\ (k - 1) * P < size
  BY <1>1, <1>2, CeilDivCovers DEF PartCount
<1> HIDE DEF P, k
<1>4. /\ k * P = P * k /\ (k - 1) * P = P * (k - 1)
      /\ MAX_PARTS * P \in Int /\ (k - 1) * P \in Int /\ k * P \in Int
  BY <1>2, <1>3
<1>5. k # 0
  BY <1>1, <1>2, <1>3
<1>6. (k - 1) * P < MAX_PARTS * P
  BY <1>1, <1>2, <1>3, <1>4
<1>7. k <= MAX_PARTS
  BY <1>2, <1>3, <1>6, TimesKeepsOrder
<1>8. QED
  BY <1>3, <1>4, <1>5, <1>7 DEF P, k

-----------------------------------------------------------------------------
\* planParts refuses no size S3 accepts, and plans no part S3 refuses.
THEOREM PlansFit == PlanWithinLimits
<1> USE PartPlanAssumption
<1> SUFFICES ASSUME NEW size \in Sizes
             PROVE  /\ ~Refused(size)
                    /\ PartCount(size) \in 1 .. MAX_PARTS
                    /\ \A n \in 1 .. PartCount(size) :
                         /\ PartLength(size, n) \in 1 .. MAX_PART_BYTES
                         /\ n < PartCount(size) => PartLength(size, n) >= MIN_PART_BYTES
  BY DEF PlanWithinLimits
<1> DEFINE P == PartSize(size)
           k == PartCount(size)
<1>1. size \in Nat /\ 1 <= size /\ size <= MAX_OBJECT_BYTES
  BY DEF Sizes
<1>2. P \in Nat \ {0} /\ MIN_PART_BYTES <= P /\ P <= MAX_PART_BYTES
  BY PartSizeFits
<1>3. k \in 1 .. MAX_PARTS /\ size <= P * k /\ P * (k - 1) < size
  BY PartCountFits
<1>4. ~Refused(size)
  BY <1>1, <1>2 DEF Refused
<1>5. ASSUME NEW n \in 1 .. k
      PROVE  /\ PartLength(size, n) \in 1 .. MAX_PART_BYTES
             /\ n < k => PartLength(size, n) >= MIN_PART_BYTES
  <2>1. PartLength(size, n) = IF n < k THEN P ELSE size - P * (k - 1)
    BY DEF PartLength
  <2> HIDE DEF P, k
  <2>2. P * (k - 1) \in Int /\ P * k = P * (k - 1) + P
    BY <1>2, <1>3
  <2>3. size - P * (k - 1) \in 1 .. P
    BY <1>1, <1>2, <1>3, <2>2
  <2>4. QED
    BY <1>2, <2>1, <2>3
<1>6. QED
  BY <1>3, <1>4, <1>5

\* Parts of the lengths they are signed for, put end to end, are the file.
THEOREM PartsTile == PartsMakeTheFile
<1> USE PartPlanAssumption
<1> SUFFICES ASSUME NEW size \in Sizes
             PROVE  UNION {Piece(size, n) : n \in 1 .. PartCount(size)} = 0 .. size - 1
  BY DEF PartsMakeTheFile
<1> DEFINE P == PartSize(size)
           k == PartCount(size)
<1>1. size \in Nat /\ 1 <= size
  BY DEF Sizes
<1>2. P \in Nat \ {0}
  BY PartSizeFits
<1>3. k \in Nat \ {0} /\ size <= P * k /\ P * (k - 1) < size
  BY PartCountFits
<1>4. ASSUME NEW n \in 1 .. k
      PROVE  Piece(size, n) = IF n < k THEN P * (n - 1) .. P * n - 1
                              ELSE P * (k - 1) .. size - 1
  <2>1. PartLength(size, n) = IF n < k THEN P ELSE size - P * (k - 1)
    BY DEF PartLength
  <2>2. Piece(size, n) = P * (n - 1) .. P * (n - 1) + PartLength(size, n) - 1
    BY DEF Piece
  <2> HIDE DEF P, k
  <2>3. /\ P * (n - 1) \in Int /\ P * (k - 1) \in Int
        /\ P * (n - 1) + P - 1 = P * n - 1
        /\ P * (k - 1) + (size - P * (k - 1)) - 1 = size - 1
    BY <1>1, <1>2, <1>3
  <2>4. CASE n < k
    BY <2>1, <2>2, <2>3, <2>4
  <2>5. CASE n = k
    BY <2>1, <2>2, <2>3, <2>5
  <2>6. QED
    BY <1>3, <2>4, <2>5
<1> HIDE DEF P, k
<1>5. ASSUME NEW n \in 1 .. k, NEW b \in Piece(size, n)
      PROVE  b \in 0 .. size - 1
  <2>1. /\ P * (n - 1) \in Nat /\ P * (k - 1) \in Nat /\ P * n \in Nat
        /\ P * n = n * P /\ P * (k - 1) = (k - 1) * P
    BY <1>2, <1>3
  <2>2. CASE n < k
    <3>1. n * P <= (k - 1) * P
      BY <1>2, <1>3, <2>2, TimesKeepsOrder
    <3>2. b \in P * (n - 1) .. P * n - 1
      BY <1>4, <2>2
    <3>3. QED
      BY <1>1, <1>3, <2>1, <3>1, <3>2
  <2>3. CASE ~(n < k)
    BY <1>1, <1>4, <2>1, <2>3
  <2>4. QED
    BY <2>2, <2>3
<1>6. ASSUME NEW b \in 0 .. size - 1
      PROVE  \E n \in 1 .. k : b \in Piece(size, n)
  <2> DEFINE q == b \div P
             r == b % P
  <2>1. q \in Nat /\ r \in 0 .. P - 1 /\ b = P * q + r
    <3>1. b \in Nat
      BY <1>1
    <3>2. QED
      BY <1>2, <3>1, Division
  <2> HIDE DEF q, r
  <2>2. P * q \in Nat /\ P * q = q * P /\ P * k = k * P /\ k * P \in Nat
    BY <1>2, <1>3, <2>1
  <2>3. q * P < k * P
    BY <1>1, <1>3, <2>1, <2>2
  <2>4. PICK n \in 1 .. k : q = n - 1
    <3>1. q < k
      BY <1>2, <1>3, <2>1, <2>3, TimesKeepsOrder
    <3>2. q + 1 \in 1 .. k /\ q = (q + 1) - 1
      BY <1>3, <2>1, <3>1
    <3>3. QED
      BY <3>2
  <2>5. P * (n - 1) = P * q /\ P * n - 1 = P * q + P - 1
    BY <1>2, <2>1, <2>4
  <2>6. b \in Piece(size, n)
    <3>1. CASE n < k
      BY <1>2, <1>4, <2>1, <2>2, <2>5, <3>1
    <3>2. CASE n = k
      BY <1>1, <1>4, <2>1, <2>2, <2>5, <3>2
    <3>3. QED
      BY <1>3, <3>1, <3>2
  <2>7. QED
    BY <2>6
<1>7. QED
  BY <1>5, <1>6 DEF k

\* An upload above the threshold has at least two parts.
THEOREM ThresholdLeavesTwo == MultipartCanResume
<1> USE PartPlanAssumption
<1> SUFFICES ASSUME NEW size \in Sizes, size > MultipartThreshold
             PROVE  PartCount(size) >= 2
  BY DEF MultipartCanResume
<1> DEFINE P == PartSize(size)
           k == PartCount(size)
           c == CeilDiv(size, MAX_PARTS)
           w == CeilDiv(c, MiB)
<1>1. size \in Nat /\ 1 <= size
  BY DEF Sizes
<1>2. P \in Nat \ {0}
  BY PartSizeFits
<1>3. k \in 1 .. MAX_PARTS /\ size <= P * k
  BY PartCountFits
<1>4. /\ c \in Nat /\ size <= c * MAX_PARTS /\ (c - 1) * MAX_PARTS < size
  BY <1>1, CeilDivCovers
<1>5. /\ w \in Nat /\ c <= w * MiB /\ (w - 1) * MiB < c
  BY <1>4, CeilDivCovers
<1>6. P = Larger(MIN_PART_BYTES, w * MiB)
  BY DEF PartSize, WholeMiB
<1>7. MIN_PART_BYTES + MiB < size
  <2>1. CeilDiv(BUDGET_BYTES, MiB) \in Nat
    BY CeilDivCovers
  <2>2. WholeMiB(BUDGET_BYTES) \in Nat
    BY <2>1 DEF WholeMiB
  <2>3. QED
    BY <1>1, <2>2 DEF MultipartThreshold, Larger
<1> HIDE DEF P, k, c, w
<1>8. w * MiB < size
  <2>1. c # 0
    BY <1>1, <1>4
  <2>2. (c - 1) * MAX_PARTS = (c - 1) * 2 + (c - 1) * (MAX_PARTS - 2)
    BY <1>4
  <2>3. (c - 1) * (MAX_PARTS - 2) \in Nat
    BY <1>4, <2>1
  <2>4. (c - 1) * 2 < size
    BY <1>1, <1>4, <2>1, <2>2, <2>3
  <2>5. w * MiB = (w - 1) * MiB + MiB /\ (w - 1) * MiB \in Int
    BY <1>5
  <2>6. QED
    BY <1>1, <1>4, <1>5, <1>7, <2>1, <2>4, <2>5
<1>9. P < size
  BY <1>1, <1>6, <1>7, <1>8 DEF Larger
<1>10. k # 1
  BY <1>1, <1>2, <1>3, <1>9
<1>11. QED
  BY <1>3, <1>10 DEF k

\* Whatever the size, the limits and the budget, the plan of an upload is sound.
THEOREM PlansSound == PlanSound
  BY PlansFit, PartsTile, ThresholdLeavesTwo DEF PlanSound

\* Whenever an upload is open it was planned for a size that planParts accepts,
\* its parts are the file, and there are two to resume between.
THEOREM OpenUploadsArePlanned == Spec => []OpenUploadsPlanned
  <1>1. IInv => OpenUploadsPlanned
    BY PlansSound DEF OpenUploadsPlanned
  <1> QED
    BY <1>1, Invariance, PTL

=============================================================================
