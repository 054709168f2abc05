---------------------------- MODULE Attachments ----------------------------
(***************************************************************************)
(* Attachments of one session: the upload through quarantine, scanning and *)
(* promotion, release and linking to a message, removal by the owner,      *)
(* cleanup by concurrent workers, and the requests of session retention.   *)
(* A row of the attachment table, the objects of the blob store and the    *)
(* provider's copies are separate: every step between them may be the last *)
(* of its task.                                                            *)
(*                                                                         *)
(* All row writes but the one of send_message compare and swap the row     *)
(* version the task read.  The version itself is not kept: a task is       *)
(* "fresh" as long as nobody else has written the row it read.  A deadline *)
(* (of the ticket, of the upload, of a cleanup lease, of a retry) is not a *)
(* number either: the one that counts in the row's state has passed ("due")*)
(* or has not.  scan_state follows quarantine_state and is left out.       *)
(*                                                                         *)
(* No name is one of Retention: RetentionProofs proves about both.         *)
(***************************************************************************)
EXTENDS Naturals, Sequences, FiniteSets

CONSTANTS
  Files,      \* the attachments the session may have, in creation order
  Callers,    \* concurrent callers of cleanup_once
  Batch,      \* maximum_batch_size of a cleanup pass
  MaxFaults,  \* bound: crashes, storage errors and overrun leases of a behaviour
  Artifacts,  \* files a derived object and a provider copy may exist of
  Regimes,    \* retention policies the scope may have
  Null

ASSUME FilesAssumption == Files \in SUBSET Nat /\ IsFiniteSet(Files)
ASSUME BatchAssumption == Batch \in Nat \ {0} /\ MaxFaults \in Nat
ASSUME ArtifactsAssumption == Artifacts \subseteq Files
ASSUME RegimesAssumption == Regimes \subseteq {"missing", "lenient", "strict"}

QuarantineState ==
  {"pending_upload", "uploading", "ready", "released", "rejected", "failed",
   "expired", "deleting", "deleted"}
ProcessingState ==
  {"pending", "scanning", "ready", "complete", "deleting", "cleanup_required",
   "retention_cleanup_required", "cleanup_in_progress", "cleanup_backoff"}
\* AiAttachmentRecord: quarantine and processing state, message_id,
\* quarantine_blob_reference, blob_reference, upload_token_hash, the deadline,
\* cleanup_generation, deleted_at.
Row ==
  [q : QuarantineState, p : ProcessingState, linked : BOOLEAN, quar : BOOLEAN,
   final : BOOLEAN, token : BOOLEAN, due : BOOLEAN, gen : BOOLEAN, gone : BOOLEAN]
\* AiAttachmentArtifactRecord: cleanup_state ("none" while it is in use).
ArtifactState ==
  {"none", "cleanup_required", "cleanup_in_progress", "cleanup_backoff", "complete"}
Artifact == [c : ArtifactState, due : BOOLEAN]
Object == {"quarantine", "final", "derived", "provider"}
ASSUME NullAssumption == Null \notin Row \cup Artifact

VARIABLES
  chatRow,   \* state of the session and whether its deletion cutoff has passed
  regime,    \* retention policy: none, or with or without provider deletion
  row,       \* attachment table
  artifact,  \* artifact table, at most one row for a file
  blob,      \* objects that exist for a file
  upload,    \* the upload task of a file: its ticket is good for one
  remove,    \* the removal of a file by its owner
  worker,    \* cleanup passes
  faults,    \* how many of the faults have happened
  spoiled    \* history: files whose upload task met a crash or storage error

fileVars == <<chatRow, regime, row, artifact, blob, upload, remove, worker, faults, spoiled>>

Items == {"file", "artifact"} \X Files
UploadStep ==
  {"idle", "put", "judge", "drop", "finish", "clear", "close", "done"}
Upload ==
  [at : UploadStep, fresh : BOOLEAN, out : {"rejected", "failed"},
   quar : BOOLEAN, final : BOOLEAN]
Remove ==
  [at : {"idle", "read", "marked", "cleared"}, fresh : BOOLEAN, refs : SUBSET Object]
Worker ==
  [at : {"idle", "next", "claimed", "deleted"}, phase : {"artifact", "file"},
   queue : UNION {[1 .. n -> Items] : n \in 0 .. Cardinality(Files)},
   left : 0 .. Batch, fresh : BOOLEAN, refs : SUBSET Object, ok : BOOLEAN]

\* Types of all variables.
RowsOK ==
  /\ chatRow \in [state : {"active", "deleting"}, cutoff : BOOLEAN]
  /\ regime \in {"missing", "lenient", "strict"}
  /\ row \in [Files -> Row \cup {Null}]
  /\ artifact \in [Files -> Artifact \cup {Null}]
  /\ blob \in [Files -> SUBSET Object]
  /\ upload \in [Files -> Upload]
  /\ remove \in [Files -> Remove]
  /\ worker \in [Callers -> Worker]
  /\ faults \in 0 .. MaxFaults
  /\ spoiled \subseteq Files

NewUpload == [at |-> "idle", fresh |-> FALSE, out |-> "failed", quar |-> TRUE, final |-> FALSE]
NewRemove == [at |-> "idle", fresh |-> FALSE, refs |-> {}]
NewWorker ==
  [at |-> "idle", phase |-> "artifact", queue |-> <<>>, left |-> Batch,
   fresh |-> FALSE, refs |-> {}, ok |-> FALSE]

FileInit ==
  /\ chatRow = [state |-> "active", cutoff |-> FALSE]
  /\ regime \in Regimes
  /\ row = [f \in Files |-> Null]
  /\ artifact = [f \in Files |-> Null]
  /\ blob = [f \in Files |-> {}]
  /\ upload = [f \in Files |-> NewUpload]
  /\ remove = [f \in Files |-> NewRemove]
  /\ worker = [w \in Callers |-> NewWorker]
  /\ faults = 0
  /\ spoiled = {}

-----------------------------------------------------------------------------
(* Row writes.  Whoever writes a row makes the copies of all others stale. *)

Exists(f) == row[f] # Null
Holds(w, item) ==
  worker[w].at \in {"claimed", "deleted"} /\ Head(worker[w].queue) = item

\* The row of a file is written by the task that is now `up', `rm' or `wk'.
WriteRow(f, new) == row' = [row EXCEPT ![f] = new]
UploadAfter(f, up) == upload' = [upload EXCEPT ![f] = up]
RemoveAfter(f, rm) == remove' = [remove EXCEPT ![f] = rm]
StaleUpload(f) == [upload[f] EXCEPT !.fresh = FALSE]
StaleRemove(f) == [remove[f] EXCEPT !.fresh = FALSE]
StaleWorkers(item) ==
  [w \in Callers |-> IF Holds(w, item) THEN [worker[w] EXCEPT !.fresh = FALSE] ELSE worker[w]]

\* A fault is spent; there are MaxFaults of them.
Fault == faults < MaxFaults /\ faults' = faults + 1
NoFault == UNCHANGED faults

\* delete_blob of the store: done, or an error that may come before or after.
Deleted(f, objects, ok) ==
  \/ ok /\ NoFault /\ blob' = [blob EXCEPT ![f] = @ \ objects]
  \/ ~ok /\ Fault /\ \E gone \in SUBSET objects : blob' = [blob EXCEPT ![f] = @ \ gone]

-----------------------------------------------------------------------------
(* Session and policy.  An archived session only refuses what its users need *)
(* not do anyway (create, release, link): it is not told from an active one. *)

Rest == <<row, artifact, blob, upload, remove, worker, faults, spoiled>>

DeleteSession ==
  /\ chatRow.state = "active"
  /\ chatRow' = [chatRow EXCEPT !.state = "deleting"]
  /\ UNCHANGED <<regime, Rest>>

PassCutoff ==
  /\ chatRow.state = "deleting" /\ ~chatRow.cutoff
  /\ chatRow' = [chatRow EXCEPT !.cutoff = TRUE]
  /\ UNCHANGED <<regime, Rest>>

ChangeRegime ==
  /\ regime' \in Regimes \ {regime, "missing"}
  /\ UNCHANGED <<chatRow, Rest>>

\* A lease that runs out under a worker that is still at work is a fault.
Overrun(item) ==
  IF \E w \in Callers : Holds(w, item) /\ worker[w].fresh THEN Fault ELSE NoFault

Elapse(f) ==
  /\ \/ /\ Exists(f) /\ ~row[f].due
        /\ row[f].q \in {"pending_upload", "uploading", "deleting"}
             \/ row[f].p \in {"cleanup_in_progress", "cleanup_backoff"}
        /\ row' = [row EXCEPT ![f].due = TRUE]
        /\ Overrun(<<"file", f>>)
        /\ UNCHANGED artifact
     \/ /\ artifact[f] # Null /\ ~artifact[f].due
        /\ artifact[f].c \in {"cleanup_in_progress", "cleanup_backoff"}
        /\ artifact' = [artifact EXCEPT ![f].due = TRUE]
        /\ Overrun(<<"artifact", f>>)
        /\ UNCHANGED row
  /\ UNCHANGED <<chatRow, regime, blob, upload, remove, worker, spoiled>>

-----------------------------------------------------------------------------
(* Upload: ticket, claim, quarantine, scan, promotion. *)

NewRow ==
  [q |-> "pending_upload", p |-> "pending", linked |-> FALSE, quar |-> TRUE,
   final |-> FALSE, token |-> TRUE, due |-> FALSE, gen |-> FALSE, gone |-> FALSE]

CreateUpload(f) ==
  /\ chatRow.state = "active"
  /\ ~Exists(f) /\ upload[f].at = "idle"
  /\ \A g \in Files : g < f => Exists(g)
  /\ WriteRow(f, NewRow)
  /\ UNCHANGED <<chatRow, regime, artifact, blob, upload, remove, worker, faults, spoiled>>

MayUpload(f) ==
  /\ Exists(f)
  /\ row[f].token /\ row[f].q = "pending_upload" /\ ~row[f].gone /\ ~row[f].due

\* The caller's access is checked before the transaction: the session may be
\* deleting by then.
ClaimUpload(f) ==
  /\ upload[f].at = "idle" /\ MayUpload(f)
  /\ WriteRow(f, [row[f] EXCEPT !.token = FALSE, !.q = "uploading", !.p = "scanning",
                                !.due = FALSE])
  /\ \E hint \in BOOLEAN :   \* the size the body announces is the ticket's
       UploadAfter(f, [NewUpload EXCEPT
         !.at = IF hint THEN "put" ELSE "clear", !.out = "rejected", !.fresh = TRUE])
  /\ RemoveAfter(f, StaleRemove(f))
  /\ worker' = StaleWorkers(<<"file", f>>)
  /\ UNCHANGED <<chatRow, regime, artifact, blob, faults, spoiled>>

\* put_blob_if_not_exists under the key of the ticket, which is used once; an
\* error may come before or after the write.
PutBlob(f) ==
  /\ upload[f].at = "put"
  /\ \/ /\ NoFault
        /\ blob' = [blob EXCEPT ![f] = @ \cup {"quarantine"}]
        /\ upload' = [upload EXCEPT ![f].at = "judge"]
        /\ UNCHANGED spoiled
     \/ /\ Fault
        /\ blob' \in {blob, [blob EXCEPT ![f] = @ \cup {"quarantine"}]}
        /\ upload' = [upload EXCEPT ![f].at = "clear", ![f].out = "failed"]
        /\ spoiled' = spoiled \cup {f}
  /\ UNCHANGED <<chatRow, regime, row, artifact, remove, worker>>

\* Size and hash, the scanner's report and the acceptance policy: accepted,
\* rejected, or one of them could not answer.
Refuse(f, out) ==
  /\ upload' = [upload EXCEPT ![f].at = "clear", ![f].out = out]
  /\ NoFault /\ UNCHANGED <<blob, spoiled>>

\* copy_blob to a fresh final key, which nobody else knows.  A copy that meets
\* a storage error may leave its object.
CopyBlob(f) ==
  \/ /\ NoFault
     /\ blob' = [blob EXCEPT ![f] = @ \cup {"final"}]
     /\ upload' = [upload EXCEPT ![f].at = "drop"]
     /\ UNCHANGED spoiled
  \/ /\ Fault
     /\ blob' \in {blob, [blob EXCEPT ![f] = @ \cup {"final"}]}
     /\ upload' = [upload EXCEPT ![f].at = "clear", ![f].out = "failed"]
     /\ spoiled' = spoiled \cup {f}

\* An object that cleanup has deleted meanwhile can be neither read nor copied.
JudgeBlob(f) ==
  /\ upload[f].at = "judge"
  /\ \/ "quarantine" \in blob[f] /\ CopyBlob(f)
     \/ "quarantine" \in blob[f] /\ Refuse(f, "rejected")
     \/ Refuse(f, "failed")
  /\ UNCHANGED <<chatRow, regime, row, artifact, remove, worker>>

\* The quarantine object goes before the row is ready; when that fails, the
\* final object goes instead and the row keeps the references of what is left.
DropQuarantine(f) ==
  /\ upload[f].at = "drop"
  /\ \/ /\ Deleted(f, {"quarantine"}, TRUE)
        /\ upload' = [upload EXCEPT ![f].at = "finish"]
        /\ UNCHANGED spoiled
     \/ /\ Fault
        /\ \E gone \in SUBSET {"quarantine", "final"} : \E kept \in BOOLEAN :
             /\ ~kept => "final" \in gone
             /\ blob' = [blob EXCEPT ![f] = @ \ gone]
             /\ upload' = [upload EXCEPT ![f].at = "close", ![f].out = "failed",
                                         ![f].quar = TRUE, ![f].final = kept]
        /\ spoiled' = spoiled \cup {f}
  /\ UNCHANGED <<chatRow, regime, row, artifact, remove, worker>>

\* reject_upload and fail_upload: delete the quarantine object, then close.
ClearUpload(f) ==
  /\ upload[f].at = "clear"
  /\ \E ok \in BOOLEAN :
       /\ Deleted(f, {"quarantine"}, ok)
       /\ upload' = [upload EXCEPT ![f].at = "close", ![f].quar = ~ok]
       /\ spoiled' = IF ok THEN spoiled ELSE spoiled \cup {f}
  /\ UNCHANGED <<chatRow, regime, row, artifact, remove, worker>>

\* finish_external_phase: only on the row as it was claimed.
CloseUpload(f) ==
  /\ upload[f].at = "close"
  /\ UploadAfter(f, [NewUpload EXCEPT !.at = "done"])
  /\ IF upload[f].fresh
     THEN /\ WriteRow(f, [row[f] EXCEPT
               !.q = upload[f].out, !.due = FALSE,
               !.quar = upload[f].quar, !.final = upload[f].final,
               !.p = IF upload[f].quar THEN "cleanup_required" ELSE "complete"])
          /\ RemoveAfter(f, StaleRemove(f))
          /\ worker' = StaleWorkers(<<"file", f>>)
     ELSE UNCHANGED <<row, remove, worker>>
  /\ UNCHANGED <<chatRow, regime, artifact, blob, faults, spoiled>>

\* Mutant: the copy stays when the row was taken away.
FinishKeepsCopy(f) ==
  /\ upload[f].at = "finish" /\ ~upload[f].fresh
  /\ UploadAfter(f, [NewUpload EXCEPT !.at = "done"])
  /\ UNCHANGED <<chatRow, regime, row, artifact, blob, remove, worker, faults, spoiled>>

\* The row was taken away by cleanup or retention: the copy is deleted.
FinishRefused(f) ==
  /\ upload[f].at = "finish" /\ ~upload[f].fresh
  /\ UploadAfter(f, [NewUpload EXCEPT !.at = "done"])
  /\ \E ok \in BOOLEAN :
       /\ Deleted(f, {"final"}, ok)
       /\ spoiled' = IF ok THEN spoiled ELSE spoiled \cup {f}
  /\ UNCHANGED <<chatRow, regime, row, artifact, remove, worker>>

FinishUpload(f) ==
  /\ upload[f].at = "finish" /\ upload[f].fresh
  /\ UploadAfter(f, [NewUpload EXCEPT !.at = "done"])
  /\ WriteRow(f, [row[f] EXCEPT !.q = "ready", !.p = "ready", !.due = FALSE,
                                !.quar = FALSE, !.final = TRUE])
  /\ RemoveAfter(f, StaleRemove(f))
  /\ worker' = StaleWorkers(<<"file", f>>)
  /\ UNCHANGED <<chatRow, regime, artifact, blob, faults, spoiled>>

\* The commit of FinishUpload happens but its answer is lost: the task takes
\* it for a refusal and deletes the copy the row now names.
FinishUnclear(f) ==
  /\ upload[f].at = "finish" /\ upload[f].fresh /\ Fault
  /\ UploadAfter(f, [NewUpload EXCEPT !.at = "done"])
  /\ WriteRow(f, [row[f] EXCEPT !.q = "ready", !.p = "ready", !.due = FALSE,
                                !.quar = FALSE, !.final = TRUE])
  /\ RemoveAfter(f, StaleRemove(f))
  /\ worker' = StaleWorkers(<<"file", f>>)
  /\ blob' = [blob EXCEPT ![f] = @ \ {"final"}]
  /\ spoiled' = spoiled \cup {f}
  /\ UNCHANGED <<chatRow, regime, artifact>>

UploadCrash(f) ==
  /\ upload[f].at \notin {"idle", "done"} /\ Fault
  /\ UploadAfter(f, [NewUpload EXCEPT !.at = "done"])
  /\ spoiled' = spoiled \cup {f}
  /\ UNCHANGED <<chatRow, regime, row, artifact, blob, remove, worker>>

-----------------------------------------------------------------------------
(* Release, link to a message, removal. *)

FinalizeUpload(f) ==
  /\ chatRow.state = "active"
  /\ Exists(f) /\ row[f].q = "ready" /\ row[f].final /\ ~row[f].quar /\ ~row[f].gone
  /\ WriteRow(f, [row[f] EXCEPT !.q = "released", !.p = "complete", !.due = FALSE])
  /\ RemoveAfter(f, StaleRemove(f))
  /\ UNCHANGED <<chatRow, regime, artifact, blob, upload, worker, faults, spoiled>>

\* A derived object with a provider copy, recorded by the host.
Derive(f) ==
  /\ f \in Artifacts /\ artifact[f] = Null /\ "derived" \notin blob[f]
  /\ Exists(f) /\ row[f].q = "released" /\ chatRow.state = "active"
  /\ artifact' = [artifact EXCEPT ![f] = [c |-> "none", due |-> FALSE]]
  /\ blob' = [blob EXCEPT ![f] = @ \cup {"derived", "provider"}]
  /\ UNCHANGED <<chatRow, regime, row, upload, remove, worker, faults, spoiled>>

\* Mutant: the version of the row is not changed by the link.
SendMessageUnnoticed(f) ==
  /\ chatRow.state = "active"
  /\ Exists(f) /\ row[f].q = "released" /\ ~row[f].gone
  /\ row' = [row EXCEPT ![f].linked = TRUE]
  /\ UNCHANGED <<chatRow, regime, artifact, blob, upload, remove, worker, faults, spoiled>>

\* send_message links the file; it writes the row without comparing versions.
SendMessageWith(f) ==
  /\ chatRow.state = "active"
  /\ Exists(f) /\ row[f].q = "released" /\ ~row[f].gone
  /\ row' = [row EXCEPT ![f].linked = TRUE]
  /\ RemoveAfter(f, StaleRemove(f))
  /\ UNCHANGED <<chatRow, regime, artifact, blob, upload, worker, faults, spoiled>>

\* The objects a row names.
Named(f) ==
  IF Exists(f)
  THEN {o \in {"quarantine", "final"} : IF o = "final" THEN row[f].final ELSE row[f].quar}
  ELSE {}

RemoveRead(f) ==
  /\ remove[f].at = "idle"
  /\ chatRow.state # "deleting"
  /\ Exists(f) /\ ~row[f].linked /\ row[f].q # "uploading" /\ ~row[f].gone
  /\ RemoveAfter(f, [NewRemove EXCEPT !.at = "read", !.fresh = TRUE])
  /\ UNCHANGED <<chatRow, regime, row, artifact, blob, upload, worker, faults, spoiled>>

RemoveMark(f) ==
  /\ remove[f].at = "read"
  /\ IF remove[f].fresh
     THEN /\ WriteRow(f, [row[f] EXCEPT !.token = FALSE, !.q = "deleting", !.p = "deleting",
                                        !.due = FALSE])
          /\ RemoveAfter(f, [at |-> "marked", fresh |-> TRUE, refs |-> Named(f)])
          /\ worker' = StaleWorkers(<<"file", f>>)
     ELSE RemoveAfter(f, NewRemove) /\ UNCHANGED <<row, worker>>
  /\ UNCHANGED <<chatRow, regime, artifact, blob, upload, faults, spoiled>>

\* An error ends the removal and leaves the row deleting.
RemoveClear(f) ==
  /\ remove[f].at = "marked"
  /\ \E ok \in BOOLEAN :
       /\ Deleted(f, remove[f].refs, ok)
       /\ RemoveAfter(f, IF ok THEN [remove[f] EXCEPT !.at = "cleared"] ELSE NewRemove)
  /\ UNCHANGED <<chatRow, regime, row, artifact, upload, worker, spoiled>>

RemoveFinish(f) ==
  /\ remove[f].at = "cleared"
  /\ RemoveAfter(f, NewRemove)
  /\ IF remove[f].fresh /\ chatRow.state # "deleting"
     THEN /\ WriteRow(f, [row[f] EXCEPT !.q = "deleted", !.p = "complete", !.due = FALSE,
                                        !.quar = FALSE, !.final = FALSE, !.gone = TRUE])
          /\ worker' = StaleWorkers(<<"file", f>>)
     ELSE UNCHANGED <<row, worker>>
  /\ UNCHANGED <<chatRow, regime, artifact, blob, upload, faults, spoiled>>

RemoveCrash(f) ==
  /\ remove[f].at \in {"marked", "cleared"} /\ Fault
  /\ RemoveAfter(f, NewRemove)
  /\ UNCHANGED <<chatRow, regime, row, artifact, blob, upload, worker, spoiled>>

-----------------------------------------------------------------------------
(* cleanup_once: artifacts first, then attachments with what is left of the *)
(* batch.                                                                   *)

\* attachment_retention_cleanup_pending: not only retention brings a row here.
RetentionPending(f) ==
  row[f].q = "deleting"
    /\ row[f].p \in {"retention_cleanup_required", "cleanup_in_progress", "cleanup_backoff"}

\* Mutant: an upload whose processing lease ran out is forgotten.
EligibleButUploading(f) ==
  /\ Exists(f)
  /\ row[f].linked \/ row[f].gone => RetentionPending(f)
  /\ CASE row[f].p \in {"cleanup_required", "retention_cleanup_required"} -> TRUE
       [] row[f].p \in {"cleanup_in_progress", "cleanup_backoff"} -> row[f].due
       [] OTHER -> row[f].q \in {"pending_upload", "deleting"} /\ row[f].due

\* is_cleanup_eligible
Eligible(f) ==
  /\ Exists(f)
  /\ row[f].linked \/ row[f].gone => RetentionPending(f)
  /\ CASE row[f].p \in {"cleanup_required", "retention_cleanup_required"} -> TRUE
       [] row[f].p \in {"cleanup_in_progress", "cleanup_backoff"} -> row[f].due
       [] OTHER -> row[f].q \in {"pending_upload", "uploading", "deleting"} /\ row[f].due

ArtifactEligible(f) ==
  /\ artifact[f] # Null
  /\ \/ artifact[f].c = "cleanup_required"
     \/ artifact[f].c \in {"cleanup_in_progress", "cleanup_backoff"} /\ artifact[f].due

\* The oldest n files of a set.
Oldest(files, n) == {f \in files : Cardinality({g \in files : g < f}) < n}
InOrder(files) ==
  [i \in 1 .. Cardinality(files) |->
     CHOOSE f \in files : Cardinality({g \in files : g < f}) = i - 1]

\* Each query sees the oldest rows of its class, eligible or not.
Windows(n) ==
  LET Class(k) == {f \in Files : Exists(f) /\
        CASE k = 1 -> row[f].q = "pending_upload"
          [] k = 2 -> row[f].q = "uploading"
          [] k = 3 -> row[f].q = "deleting"
          [] k = 4 -> row[f].p \in {"cleanup_required", "cleanup_backoff", "cleanup_in_progress"}}
      Found(k) == {f \in Oldest(Class(k), n) : Eligible(f)}
      Asked(k) == Cardinality(UNION {Found(j) : j \in 1 .. k - 1}) < n
  IN UNION {Found(k) : k \in {j \in 1 .. 4 : Asked(j)}}
Candidates(n) == InOrder(Oldest(Windows(n), n))
ArtifactCandidates ==
  LET Class(k) == {f \in Files : artifact[f] # Null /\ artifact[f].c =
        <<"cleanup_required", "cleanup_backoff", "cleanup_in_progress">>[k]}
      Found(k) == {f \in Oldest(Class(k), Batch) : ArtifactEligible(f)}
      Asked(k) == Cardinality(UNION {Found(j) : j \in 1 .. k - 1}) < Batch
  IN InOrder(Oldest(UNION {Found(k) : k \in {j \in 1 .. 3 : Asked(j)}}, Batch))

Queue(kind, files) == [i \in DOMAIN files |-> <<kind, files[i]>>]

BeginPass(w) ==
  /\ worker[w].at = "idle"
  /\ LET found == ArtifactCandidates
     IN worker' = [worker EXCEPT ![w] = [NewWorker EXCEPT
          !.at = "next", !.queue = Queue("artifact", found), !.left = Batch - Len(found)]]
  /\ UNCHANGED <<chatRow, regime, row, artifact, blob, upload, remove, faults, spoiled>>

\* After the artifacts the attachments; after those the pass is over.
NextPhase(w) ==
  /\ worker[w].at = "next" /\ worker[w].queue = <<>>
  /\ worker' = [worker EXCEPT ![w] =
       IF worker[w].phase = "artifact" /\ worker[w].left > 0
       THEN [@ EXCEPT !.phase = "file", !.queue = Queue("file", Candidates(worker[w].left))]
       ELSE NewWorker]
  /\ UNCHANGED <<chatRow, regime, row, artifact, blob, upload, remove, faults, spoiled>>

\* The session's deletion is due and the policy allows it.
DeletionDue == chatRow.state = "deleting" /\ chatRow.cutoff /\ regime # "missing"

\* claim_artifact_cleanup: only for a due deletion, and a provider copy only if
\* the policy asks for its deletion.
ArtifactClaimable(f) == ArtifactEligible(f) /\ DeletionDue /\ regime = "strict"
\* claim_cleanup
FileClaimable(f) == Eligible(f) /\ (RetentionPending(f) => DeletionDue)
Claimable(item) ==
  IF item[1] = "artifact" THEN ArtifactClaimable(item[2]) ELSE FileClaimable(item[2])

\* The pass goes on to its next candidate.
Advanced(w) ==
  [NewWorker EXCEPT !.at = "next", !.phase = worker[w].phase, !.left = worker[w].left,
                    !.queue = Tail(worker[w].queue)]
Skip(w) == worker' = [worker EXCEPT ![w] = Advanced(w)]

\* What the claimed row names: the objects to delete.
ExternalObjects(item) ==
  IF item[1] = "artifact" THEN {"derived", "provider"} ELSE Named(item[2])

\* The row is read again, and claimed with a new generation and lease.
ClaimCleanup(w) ==
  /\ worker[w].at = "next" /\ worker[w].queue # <<>>
  /\ LET item == Head(worker[w].queue)
         f == item[2]
         claimed == [worker[w] EXCEPT
           !.at = "claimed", !.fresh = TRUE, !.refs = ExternalObjects(item)]
     IN \/ /\ Claimable(item)
           /\ worker' = [StaleWorkers(item) EXCEPT ![w] = claimed]
           /\ IF item[1] = "artifact"
              THEN /\ artifact' = [artifact EXCEPT ![f] =
                        [c |-> "cleanup_in_progress", due |-> FALSE]]
                   /\ UNCHANGED <<row, upload, remove>>
              ELSE /\ WriteRow(f, [row[f] EXCEPT !.token = FALSE, !.due = FALSE, !.gen = TRUE,
                                                 !.p = "cleanup_in_progress"])
                   /\ UploadAfter(f, StaleUpload(f))
                   /\ RemoveAfter(f, StaleRemove(f))
                   /\ UNCHANGED artifact
        \/ /\ ~Claimable(item)
           /\ Skip(w)
           /\ UNCHANGED <<row, artifact, upload, remove>>
  /\ UNCHANGED <<chatRow, regime, blob, faults, spoiled>>

\* The objects the claimed row names; success is confirmed absence.
DeleteObjects(w) ==
  /\ worker[w].at = "claimed"
  /\ \E ok \in BOOLEAN :
       /\ Deleted(Head(worker[w].queue)[2], worker[w].refs, ok)
       /\ worker' = [worker EXCEPT ![w].at = "deleted", ![w].ok = ok]
  /\ UNCHANGED <<chatRow, regime, row, artifact, upload, remove, spoiled>>

\* finish_cleanup: the state the row was claimed in decides how it ends.
Cleaned(f, ok) ==
  IF ok
  THEN [row[f] EXCEPT !.quar = FALSE, !.final = FALSE, !.p = "complete", !.due = FALSE,
          !.q = CASE @ = "pending_upload" -> "expired" [] @ = "uploading" -> "failed"
                  [] @ = "deleting" -> "deleted" [] OTHER -> @,
          !.gone = @ \/ row[f].q \in {"pending_upload", "deleting"}]
  ELSE [row[f] EXCEPT !.p = "cleanup_backoff", !.due = FALSE]

\* finish_artifact_cleanup
CleanedArtifact(ok) == [c |-> IF ok THEN "complete" ELSE "cleanup_backoff", due |-> FALSE]

FinishCleanup(w) ==
  /\ worker[w].at = "deleted"
  /\ LET item == Head(worker[w].queue)
         f == item[2]
         ok == worker[w].ok
     IN IF ~worker[w].fresh
        THEN Skip(w) /\ UNCHANGED <<row, artifact, remove>>
        ELSE /\ worker' = [StaleWorkers(item) EXCEPT ![w] = Advanced(w)]
             /\ IF item[1] = "artifact"
                THEN /\ artifact' = [artifact EXCEPT ![f] = CleanedArtifact(ok)]
                     /\ UNCHANGED <<row, remove>>
                ELSE /\ WriteRow(f, Cleaned(f, ok))
                     /\ RemoveAfter(f, StaleRemove(f))
                     /\ UNCHANGED artifact
  /\ UNCHANGED <<chatRow, regime, blob, upload, faults, spoiled>>

WorkerCrash(w) ==
  /\ worker[w].at \in {"claimed", "deleted"} /\ Fault
  /\ worker' = [worker EXCEPT ![w] = NewWorker]
  /\ UNCHANGED <<chatRow, regime, row, artifact, blob, upload, remove, spoiled>>

-----------------------------------------------------------------------------
(* The attachment phase of session retention (see Retention for the rest). *)

\* An artifact that is not yet cleaned up holds its attachment back.
DependencyRemains(f) == artifact[f] # Null /\ artifact[f].c # "complete"

MetadataDeletable(f) ==
  /\ row[f].gone /\ row[f].gen /\ row[f].p = "complete" /\ ~row[f].token
  /\ ~row[f].quar /\ ~row[f].final /\ row[f].q \in {"deleted", "expired", "failed"}
CleanupPending(f) ==
  \/ row[f].q = "deleting"
  \/ row[f].p \in {"cleanup_required", "cleanup_in_progress", "cleanup_backoff", "deleting"}

Requested(f) ==
  IF ~Exists(f) \/ DependencyRemains(f) THEN row[f]
  ELSE IF MetadataDeletable(f) THEN Null
  ELSE IF CleanupPending(f) THEN row[f]
  ELSE [row[f] EXCEPT !.q = "deleting", !.p = "retention_cleanup_required",
                      !.token = FALSE, !.due = FALSE]

RequestedArtifact(f) ==
  IF artifact[f] = Null \/ artifact[f].c = "complete" THEN Null
  ELSE IF artifact[f].c = "none" THEN [c |-> "cleanup_required", due |-> FALSE]
  ELSE artifact[f]

RetentionPhase ==
  /\ DeletionDue
  /\ row' = [f \in Files |-> Requested(f)]
  /\ artifact' = [f \in Files |-> RequestedArtifact(f)]
  /\ <<row', artifact'>> # <<row, artifact>>
  /\ upload' = [f \in Files |-> IF row'[f] # row[f] THEN StaleUpload(f) ELSE upload[f]]
  /\ remove' = [f \in Files |-> IF row'[f] # row[f] THEN StaleRemove(f) ELSE remove[f]]
  /\ worker' = [w \in Callers |->
       IF \E f \in Files : \/ row'[f] # row[f] /\ Holds(w, <<"file", f>>)
                           \/ artifact'[f] # artifact[f] /\ Holds(w, <<"artifact", f>>)
       THEN [worker[w] EXCEPT !.fresh = FALSE] ELSE worker[w]]
  /\ UNCHANGED <<chatRow, regime, blob, faults, spoiled>>

-----------------------------------------------------------------------------

FileStep(f) ==
  \/ CreateUpload(f) \/ ClaimUpload(f) \/ PutBlob(f) \/ JudgeBlob(f)
  \/ DropQuarantine(f) \/ ClearUpload(f) \/ CloseUpload(f)
  \/ FinishUpload(f) \/ FinishRefused(f) \/ FinishUnclear(f) \/ UploadCrash(f)
  \/ FinalizeUpload(f) \/ Derive(f) \/ SendMessageWith(f)
  \/ RemoveRead(f) \/ RemoveMark(f) \/ RemoveClear(f) \/ RemoveFinish(f) \/ RemoveCrash(f)
  \/ Elapse(f)
WorkerStep(w) ==
  \/ BeginPass(w) \/ NextPhase(w) \/ ClaimCleanup(w) \/ DeleteObjects(w)
  \/ FinishCleanup(w) \/ WorkerCrash(w)

FileNext ==
  \/ DeleteSession \/ PassCutoff \/ ChangeRegime \/ RetentionPhase
  \/ \E f \in Files : FileStep(f)
  \/ \E w \in Callers : WorkerStep(w)

FileSpec == FileInit /\ [][FileNext]_fileVars

\* Time passes, the host keeps calling cleanup_once and the retention pass, and
\* a removal that was begun goes on.  Users owe nothing.
WorkerGoesOn(w) ==
  BeginPass(w) \/ NextPhase(w) \/ ClaimCleanup(w) \/ DeleteObjects(w) \/ FinishCleanup(w)
FairSpec ==
  /\ FileSpec
  /\ WF_fileVars(PassCutoff \/ RetentionPhase)
  /\ \A f \in Files : WF_fileVars(Elapse(f)) /\ WF_fileVars(RemoveClear(f) \/ RemoveFinish(f))
  /\ \A w \in Callers : WF_fileVars(WorkerGoesOn(w))

-----------------------------------------------------------------------------
(* Properties. *)

\* An attachment that is ready, released or linked still has its object: no
\* removal, cleanup, retention pass or late upload step deletes the bytes a
\* transcript refers to.  (An upload whose last commit is unclear may: it
\* deletes the object it has just handed over.)
ReleasedHasItsObject ==
  \A f \in Files : Exists(f) /\ row[f].q \in {"ready", "released"} /\ f \notin spoiled =>
    "final" \in blob[f] /\ row[f].final

\* Every object in the store can be found again: a row names it, or the upload
\* task that made it is still at work.  Only an upload that met a crash or a
\* storage error can lose an object that no row names.
NoObjectIsLost ==
  \A f \in Files :
    /\ (blob[f] \cap {"quarantine", "final"}) \ Named(f) # {} =>
         upload[f].at \notin {"idle", "done"} \/ f \in spoiled
    /\ blob[f] \cap {"derived", "provider"} # {} =>
         artifact[f] # Null /\ artifact[f].c # "complete"

\* The row of a linked attachment leaves "released" only when the deletion of
\* its session is due, whatever removals raced with the link.
LinkedIsKept ==
  \A f \in Files : Exists(f) /\ row[f].linked /\ row[f].q # "released" => chatRow.cutoff

\* An artifact never outlives the row of its attachment: the artifact worker
\* treats a missing parent as an error that ends its pass.
ArtifactHasItsParent == \A f \in Files : artifact[f] # Null => Exists(f)

\* What nobody uploads or finishes uploading is cleaned up.
AbandonedUploadIsClosed ==
  \A f \in Files :
    Exists(f) /\ row[f].q \in {"pending_upload", "uploading"} /\ row[f].due
      ~> ~Exists(f) \/ row[f].q \notin {"pending_upload", "uploading"}

\* A due deletion that no policy holds back takes all attachments of the session.
DeletedSessionIsEmptied ==
  []<>(regime # "strict") \/ (chatRow.state = "deleting" ~> \A f \in Files : ~Exists(f))

\* docs/attachments.md: a storage failure leaves the deleting state "for future
\* cleanup", which retries with backoff and survives the crash of a worker: a
\* removed attachment, unless its owner keeps removing it, becomes deleted.
RemovedIsDeleted ==
  \A f \in Files :
    <>[](remove[f].at = "idle") =>
      (Exists(f) /\ row[f].q = "deleting" ~> ~Exists(f) \/ row[f].q = "deleted")

\* Rows and store agree: every object is named by a row or by a task at work,
\* and every artifact by an attachment that exists.
ObjectsAreKnown == RowsOK /\ NoObjectIsLost /\ ArtifactHasItsParent

\* What a transcript refers to is kept, row and object.
NeededFilesAreKept == ReleasedHasItsObject /\ LinkedIsKept

\* Cleanup gets to the end of abandoned uploads and of due deletions.
CleanupEnds == AbandonedUploadIsClosed /\ DeletedSessionIsEmptied
=============================================================================
