-------------------------- MODULE RunLeaseProofs --------------------------
(***************************************************************************)
(* The safety properties of RunLease, for every set of runs and tasks and  *)
(* every limit.                                                            *)
(*                                                                         *)
(* Every write replaces one row (a recovery pass: several) by a row with   *)
(* the next version, possibly hands the new lease to one task, and adds at *)
(* most the outcome of the row's open attempt.  The argument is therefore  *)
(* made row by row: RowInv says what a row looks like, HistInv how a row   *)
(* and its outcomes relate, and the copies of leases are ordered by the    *)
(* row versions they show.                                                 *)
(***************************************************************************)
EXTENDS RunLease, TLAPS

RowInv(row) == row \in Row /\ WellFormed(row) /\ PaidAttempts(row) /\ Lineage(row)

HistInv(row, os) ==
  /\ os \subseteq Outcome
  /\ \A o, p \in os : o.gen = p.gen => o = p
  /\ \A o \in os : o.gen \in 1..EndedAttempts(row)
  /\ \A g \in 1..EndedAttempts(row) : \E o \in os : o.gen = g
  /\ \A o \in os :
       o.state = IF o.gen = row.gen THEN row.state ELSE "retry_scheduled"

\* A copy never shows a version the row has not reached, and no version of a
\* row is shown by the copies of two tasks.
HeldInv ==
  /\ held \in [Task -> Lease \cup {NoLease}]
  /\ \A t \in Task : held[t] # NoLease =>
       held[t].version <= run[held[t].run].version
  /\ \A t, u \in Task :
       /\ held[t] # NoLease /\ held[u] # NoLease
       /\ held[t].run = held[u].run /\ held[t].version = held[u].version
       => t = u

IInv ==
  /\ run \in [Run -> Row]
  /\ outcomes \in [Run -> SUBSET Outcome]
  /\ \A r \in Run : RowInv(run[r]) /\ HistInv(run[r], outcomes[r])
  /\ HeldInv

USE RunAssumption, LimitAssumption, NoneAssumption
---------------------------------------------------------------------------
(***************************************************************************)
(* Rows                                                                    *)
(***************************************************************************)

\* A new version of a good row is a good row.
LEMMA BumpedInv ==
  ASSUME NEW row, RowInv(row)
  PROVE  RowInv(Bumped(row))
<1>1. Bumped(row) \in Row
  BY DEF RowInv, Bumped, Row
<1>2. /\ Bumped(row).state = row.state /\ Bumped(row).attempt = row.attempt
      /\ Bumped(row).owner = row.owner /\ Bumped(row).gen = row.gen
      /\ Bumped(row).left = row.left /\ Bumped(row).retry = row.retry
      /\ Bumped(row).err = row.err /\ Bumped(row).ckpt = row.ckpt
  BY DEF RowInv, Bumped, Row
<1> QED
  BY <1>1, <1>2 DEF RowInv, WellFormed, Claimable, PaidAttempts, Lineage

\* claim_next makes a good leased row of a claimable one.
LEMMA ClaimedRowInv ==
  ASSUME NEW row, RowInv(row), row.state \in ClaimableStates,
         NEW w \in WorkerId, NEW e \in Reading
  PROVE  RowInv(ClaimedRow(row, w, e))
<1> DEFINE new == ClaimedRow(row, w, e)
<1>0. row \in Row /\ WellFormed(row) /\ PaidAttempts(row) /\ Lineage(row)
  BY DEF RowInv
<1>t. /\ LeaseTtl + e \in Deadline /\ LeaseTtl + e # None /\ None \in Deadline
      /\ "leased" \in AiRunStates
      /\ None # "checkpoint_adoption_ready" /\ w # None
  BY DEF Reading, Deadline, AiRunStates, ErrorCodes, CheckpointKinds,
         CoordinatorKinds, AdoptableKinds, FinalKind, CompletionStates, Terminal
<1>c. row.gen + 1 \in Nat /\
      (IF row.err = "checkpoint_adoption_ready" THEN row.ckpt ELSE None)
         \in Checkpoint \cup {None}
  BY <1>0 DEF Row
<1>1. new \in Row
  BY <1>0, <1>t, <1>c DEF ClaimedRow, Renewed, Row
<1>2. WellFormed(new)
  BY <1>0, <1>t DEF ClaimedRow, Renewed, Row, Deadline, WellFormed, Claimable,
     ClaimableStates, LeasedStates, WorkerStates, CompletionStates, Terminal
<1>3. PaidAttempts(new)
  BY <1>0, <1>t DEF ClaimedRow, Renewed, Row, PaidAttempts, ClaimableStates, LeasedStates,
     WorkerStates, CompletionStates, Terminal
<1>4. Lineage(new)
  BY <1>0, <1>t DEF ClaimedRow, Renewed, Row, Checkpoint, Lineage, WellFormed, ClaimableStates, Claimable
<1> QED BY <1>1, <1>2, <1>3, <1>4 DEF RowInv

\* A heartbeat keeps a leased row good.
LEMMA RenewedInv ==
  ASSUME NEW row, RowInv(row), row.state \in LeasedStates,
         NEW e \in Reading
  PROVE  RowInv(Renewed(row, e))
<1> DEFINE new == Renewed(row, e)
<1>0. row \in Row /\ WellFormed(row) /\ PaidAttempts(row) /\ Lineage(row)
  BY DEF RowInv
<1>t. /\ LeaseTtl + e \in Deadline /\ LeaseTtl + e # None
      /\ None # "checkpoint_adoption_ready"
  BY DEF Reading, Deadline, AiRunStates, ErrorCodes, CheckpointKinds,
         CoordinatorKinds, AdoptableKinds, FinalKind, CompletionStates, Terminal
<1>1. new \in Row
  BY <1>0, <1>t DEF Renewed, Row
<1>2. WellFormed(new)
  BY <1>0, <1>t DEF Renewed, Row, Deadline, WellFormed, Claimable,
     ClaimableStates, LeasedStates, WorkerStates, CompletionStates, Terminal
<1>3. PaidAttempts(new)
  BY <1>0, <1>t DEF Renewed, Row, PaidAttempts, ClaimableStates, LeasedStates,
     WorkerStates, CompletionStates, Terminal
<1>4. Lineage(new)
  BY <1>0, <1>t DEF Renewed, Row, Checkpoint, Lineage
<1> QED BY <1>1, <1>2, <1>3, <1>4 DEF RowInv

\* start keeps the row good.
LEMMA StartInv ==
  ASSUME NEW row, RowInv(row), row.state = "leased",
         NEW e \in Reading
  PROVE  RowInv([Renewed(row, e) EXCEPT !.state = "running"])
<1> DEFINE new == [Renewed(row, e) EXCEPT !.state = "running"]
<1>0. row \in Row /\ WellFormed(row) /\ PaidAttempts(row) /\ Lineage(row)
  BY DEF RowInv
<1>t. /\ LeaseTtl + e \in Deadline /\ LeaseTtl + e # None /\ "running" \in AiRunStates
      /\ None # "checkpoint_adoption_ready"
  BY DEF Reading, Deadline, AiRunStates, ErrorCodes, CheckpointKinds,
         CoordinatorKinds, AdoptableKinds, FinalKind, CompletionStates, Terminal
<1>1. new \in Row
  BY <1>0, <1>t DEF Renewed, Row
<1>2. WellFormed(new)
  BY <1>0, <1>t DEF Renewed, Row, Deadline, WellFormed, Claimable,
     ClaimableStates, LeasedStates, WorkerStates, CompletionStates, Terminal
<1>3. PaidAttempts(new)
  BY <1>0, <1>t DEF Renewed, Row, PaidAttempts, ClaimableStates, LeasedStates,
     WorkerStates, CompletionStates, Terminal
<1>4. Lineage(new)
  BY <1>0, <1>t DEF Renewed, Row, Checkpoint, Lineage
<1> QED BY <1>1, <1>2, <1>3, <1>4 DEF RowInv

\* finish keeps the row good, whatever allowed final state it gives.
LEMMA FinishInv ==
  ASSUME NEW row, RowInv(row), row.state \in LeasedStates,
         NEW final \in CompletionStates, NEW code \in {None, "other"}
  PROVE  RowInv([Released(row) EXCEPT !.state = final, !.err = code])
<1> DEFINE new == [Released(row) EXCEPT !.state = final, !.err = code]
<1>0. row \in Row /\ WellFormed(row) /\ PaidAttempts(row) /\ Lineage(row)
  BY DEF RowInv
<1>t. /\ None \in Deadline /\ final \in AiRunStates /\ code \in ErrorCodes \cup {None}
      /\ None # "checkpoint_adoption_ready"
  BY DEF Reading, Deadline, AiRunStates, ErrorCodes, CheckpointKinds,
         CoordinatorKinds, AdoptableKinds, FinalKind, CompletionStates, Terminal
<1>1. new \in Row
  BY <1>0, <1>t DEF Released, Row
<1>2. WellFormed(new)
  BY <1>0, <1>t DEF Released, Row, Deadline, WellFormed, Claimable,
     ClaimableStates, LeasedStates, WorkerStates, CompletionStates, Terminal
<1>3. PaidAttempts(new)
  BY <1>0, <1>t DEF Released, Row, PaidAttempts, ClaimableStates, LeasedStates,
     WorkerStates, CompletionStates, Terminal
<1>4. Lineage(new)
  BY <1>0, <1>t DEF Released, Row, Checkpoint, Lineage
<1> QED BY <1>1, <1>2, <1>3, <1>4 DEF RowInv

\* schedule_retry keeps the row good: it pays for the next attempt.
LEMMA ScheduleRetryInv ==
  ASSUME NEW row, RowInv(row), row.state \in LeasedStates, row.retry < MaxRunRetries,
         NEW delay \in 0..MaxRetryDelay, NEW e \in Reading
  PROVE  RowInv([Released(row) EXCEPT
           !.state = "retry_scheduled", !.attempt = 0,
           !.retry = @ + 1, !.wait = delay + e, !.err = "other"])
<1> DEFINE new == [Released(row) EXCEPT
           !.state = "retry_scheduled", !.attempt = 0,
           !.retry = @ + 1, !.wait = delay + e, !.err = "other"]
<1>0. row \in Row /\ WellFormed(row) /\ PaidAttempts(row) /\ Lineage(row)
  BY DEF RowInv
<1>t. /\ None \in Deadline /\ delay + e \in Deadline /\ "retry_scheduled" \in AiRunStates
      /\ "other" \in ErrorCodes
      /\ None # "checkpoint_adoption_ready"
  BY DEF Reading, Deadline, AiRunStates, ErrorCodes, CheckpointKinds,
         CoordinatorKinds, AdoptableKinds, FinalKind, CompletionStates, Terminal
<1>c. row.retry + 1 \in Nat
  BY <1>0 DEF Row
<1>1. new \in Row
  BY <1>0, <1>t, <1>c DEF Released, Row
<1>2. WellFormed(new)
  BY <1>0, <1>t DEF Released, Row, Deadline, WellFormed, Claimable,
     ClaimableStates, LeasedStates, WorkerStates, CompletionStates, Terminal
<1>3. PaidAttempts(new)
  BY <1>0, <1>t DEF Released, Row, PaidAttempts, ClaimableStates, LeasedStates,
     WorkerStates, CompletionStates, Terminal
<1>4. Lineage(new)
  BY <1>0, <1>t DEF Released, Row, Checkpoint, Lineage
<1> QED BY <1>1, <1>2, <1>3, <1>4 DEF RowInv

\* Linking a checkpoint of the open attempt keeps the row good.
LEMMA LinkCheckpointInv ==
  ASSUME NEW row, RowInv(row), row.state = "running",
         NEW kind \in CheckpointKinds, NEW e \in Reading
  PROVE  RowInv([Renewed(row, e) EXCEPT !.ckpt = [gen |-> row.attempt, kind |-> kind]])
<1> DEFINE new == [Renewed(row, e) EXCEPT !.ckpt = [gen |-> row.attempt, kind |-> kind]]
<1>0. row \in Row /\ WellFormed(row) /\ PaidAttempts(row) /\ Lineage(row)
  BY DEF RowInv
<1>t. /\ LeaseTtl + e \in Deadline /\ LeaseTtl + e # None
      /\ None # "checkpoint_adoption_ready"
  BY DEF Reading, Deadline, AiRunStates, ErrorCodes, CheckpointKinds,
         CoordinatorKinds, AdoptableKinds, FinalKind, CompletionStates, Terminal
<1>c. [gen |-> row.attempt, kind |-> kind] \in Checkpoint
  BY <1>0 DEF Row, Checkpoint
<1>1. new \in Row
  BY <1>0, <1>t, <1>c DEF Renewed, Row
<1>2. WellFormed(new)
  BY <1>0, <1>t DEF Renewed, Row, Deadline, WellFormed, Claimable,
     ClaimableStates, LeasedStates, WorkerStates, CompletionStates, Terminal
<1>3. PaidAttempts(new)
  BY <1>0, <1>t DEF Renewed, Row, PaidAttempts, ClaimableStates, LeasedStates,
     WorkerStates, CompletionStates, Terminal
<1>4. Lineage(new)
  BY <1>0, <1>t DEF Renewed, Row, Checkpoint, Lineage, WellFormed, LeasedStates, WorkerStates
<1> QED BY <1>1, <1>2, <1>3, <1>4 DEF RowInv

\* consume_adoption_checkpoint keeps the row good.
LEMMA ConsumeInv ==
  ASSUME NEW row, RowInv(row), row.state = "running",
         NEW e \in Reading
  PROVE  RowInv([Renewed(row, e) EXCEPT !.ckpt = None])
<1> DEFINE new == [Renewed(row, e) EXCEPT !.ckpt = None]
<1>0. row \in Row /\ WellFormed(row) /\ PaidAttempts(row) /\ Lineage(row)
  BY DEF RowInv
<1>t. /\ LeaseTtl + e \in Deadline /\ LeaseTtl + e # None
      /\ None # "checkpoint_adoption_ready"
  BY DEF Reading, Deadline, AiRunStates, ErrorCodes, CheckpointKinds,
         CoordinatorKinds, AdoptableKinds, FinalKind, CompletionStates, Terminal
<1>1. new \in Row
  BY <1>0, <1>t DEF Renewed, Row
<1>2. WellFormed(new)
  BY <1>0, <1>t DEF Renewed, Row, Deadline, WellFormed, Claimable,
     ClaimableStates, LeasedStates, WorkerStates, CompletionStates, Terminal
<1>3. PaidAttempts(new)
  BY <1>0, <1>t DEF Renewed, Row, PaidAttempts, ClaimableStates, LeasedStates,
     WorkerStates, CompletionStates, Terminal
<1>4. Lineage(new)
  BY <1>0, <1>t DEF Renewed, Row, Checkpoint, Lineage
<1> QED BY <1>1, <1>2, <1>3, <1>4 DEF RowInv

\* request_approval keeps the row good.
LEMMA RequestApprovalInv ==
  ASSUME NEW row, RowInv(row), row.state = "running",
         NEW e \in Reading
  PROVE  RowInv([Renewed(row, e) EXCEPT !.state = "waiting_approval"])
<1> DEFINE new == [Renewed(row, e) EXCEPT !.state = "waiting_approval"]
<1>0. row \in Row /\ WellFormed(row) /\ PaidAttempts(row) /\ Lineage(row)
  BY DEF RowInv
<1>t. /\ LeaseTtl + e \in Deadline /\ LeaseTtl + e # None /\ "waiting_approval" \in AiRunStates
      /\ None # "checkpoint_adoption_ready"
  BY DEF Reading, Deadline, AiRunStates, ErrorCodes, CheckpointKinds,
         CoordinatorKinds, AdoptableKinds, FinalKind, CompletionStates, Terminal
<1>1. new \in Row
  BY <1>0, <1>t DEF Renewed, Row
<1>2. WellFormed(new)
  BY <1>0, <1>t DEF Renewed, Row, Deadline, WellFormed, Claimable,
     ClaimableStates, LeasedStates, WorkerStates, CompletionStates, Terminal
<1>3. PaidAttempts(new)
  BY <1>0, <1>t DEF Renewed, Row, PaidAttempts, ClaimableStates, LeasedStates,
     WorkerStates, CompletionStates, Terminal
<1>4. Lineage(new)
  BY <1>0, <1>t DEF Renewed, Row, Checkpoint, Lineage
<1> QED BY <1>1, <1>2, <1>3, <1>4 DEF RowInv

\* claim_next_approved keeps the row good: the attempt goes on.
LEMMA ClaimApprovedInv ==
  ASSUME NEW row, RowInv(row), row.state = "waiting_approval",
         NEW w \in WorkerId, NEW e \in Reading
  PROVE  RowInv([Renewed(row, e) EXCEPT
           !.state = "waiting_tool", !.owner = w,
           !.err = "approval_resume_claimed"])
<1> DEFINE new == [Renewed(row, e) EXCEPT
           !.state = "waiting_tool", !.owner = w,
           !.err = "approval_resume_claimed"]
<1>0. row \in Row /\ WellFormed(row) /\ PaidAttempts(row) /\ Lineage(row)
  BY DEF RowInv
<1>t. /\ LeaseTtl + e \in Deadline /\ LeaseTtl + e # None /\ "waiting_tool" \in AiRunStates
      /\ "approval_resume_claimed" \in ErrorCodes
      /\ None # "checkpoint_adoption_ready" /\ w # None
  BY DEF Reading, Deadline, AiRunStates, ErrorCodes, CheckpointKinds,
         CoordinatorKinds, AdoptableKinds, FinalKind, CompletionStates, Terminal
<1>1. new \in Row
  BY <1>0, <1>t DEF Renewed, Row
<1>2. WellFormed(new)
  BY <1>0, <1>t DEF Renewed, Row, Deadline, WellFormed, Claimable,
     ClaimableStates, LeasedStates, WorkerStates, CompletionStates, Terminal
<1>3. PaidAttempts(new)
  BY <1>0, <1>t DEF Renewed, Row, PaidAttempts, ClaimableStates, LeasedStates,
     WorkerStates, CompletionStates, Terminal
<1>4. Lineage(new)
  BY <1>0, <1>t DEF Renewed, Row, Checkpoint, Lineage
<1> QED BY <1>1, <1>2, <1>3, <1>4 DEF RowInv

\* consume_approval keeps the row good.
LEMMA ConsumeApprovalInv ==
  ASSUME NEW row, RowInv(row), row.state \in {"waiting_approval", "waiting_tool"},
         NEW e \in Reading
  PROVE  RowInv([Renewed(row, e) EXCEPT !.state = "running", !.err = None])
<1> DEFINE new == [Renewed(row, e) EXCEPT !.state = "running", !.err = None]
<1>0. row \in Row /\ WellFormed(row) /\ PaidAttempts(row) /\ Lineage(row)
  BY DEF RowInv
<1>t. /\ LeaseTtl + e \in Deadline /\ LeaseTtl + e # None /\ "running" \in AiRunStates
      /\ None # "checkpoint_adoption_ready"
  BY DEF Reading, Deadline, AiRunStates, ErrorCodes, CheckpointKinds,
         CoordinatorKinds, AdoptableKinds, FinalKind, CompletionStates, Terminal
<1>1. new \in Row
  BY <1>0, <1>t DEF Renewed, Row
<1>2. WellFormed(new)
  BY <1>0, <1>t DEF Renewed, Row, Deadline, WellFormed, Claimable,
     ClaimableStates, LeasedStates, WorkerStates, CompletionStates, Terminal
<1>3. PaidAttempts(new)
  BY <1>0, <1>t DEF Renewed, Row, PaidAttempts, ClaimableStates, LeasedStates,
     WorkerStates, CompletionStates, Terminal
<1>4. Lineage(new)
  BY <1>0, <1>t DEF Renewed, Row, Checkpoint, Lineage
<1> QED BY <1>1, <1>2, <1>3, <1>4 DEF RowInv

\* Accepting a background turn keeps the row good: the attempt stays open.
LEMMA AcceptBackgroundInv ==
  ASSUME NEW row, RowInv(row), row.state = "running"
  PROVE  RowInv([Released(row) EXCEPT !.state = "waiting_provider", !.err = None])
<1> DEFINE new == [Released(row) EXCEPT !.state = "waiting_provider", !.err = None]
<1>0. row \in Row /\ WellFormed(row) /\ PaidAttempts(row) /\ Lineage(row)
  BY DEF RowInv
<1>t. /\ None \in Deadline /\ "waiting_provider" \in AiRunStates
      /\ None # "checkpoint_adoption_ready"
  BY DEF Reading, Deadline, AiRunStates, ErrorCodes, CheckpointKinds,
         CoordinatorKinds, AdoptableKinds, FinalKind, CompletionStates, Terminal
<1>1. new \in Row
  BY <1>0, <1>t DEF Released, Row
<1>2. WellFormed(new)
  BY <1>0, <1>t DEF Released, Row, Deadline, WellFormed, Claimable,
     ClaimableStates, LeasedStates, WorkerStates, CompletionStates, Terminal
<1>3. PaidAttempts(new)
  BY <1>0, <1>t DEF Released, Row, PaidAttempts, ClaimableStates, LeasedStates,
     WorkerStates, CompletionStates, Terminal
<1>4. Lineage(new)
  BY <1>0, <1>t DEF Released, Row, Checkpoint, Lineage
<1> QED BY <1>1, <1>2, <1>3, <1>4 DEF RowInv

\* commit_background_terminal_graph keeps the row good.
LEMMA CommitBackgroundInv ==
  ASSUME NEW row, RowInv(row), row.state = "waiting_provider",
         NEW final \in Terminal
  PROVE  RowInv([row EXCEPT
           !.state = final,
           !.err = IF final = "completed" THEN None ELSE "other",
           !.ckpt = IF final = "completed"
                    THEN [gen |-> row.attempt, kind |-> FinalKind] ELSE None])
<1> DEFINE new == [row EXCEPT
           !.state = final,
           !.err = IF final = "completed" THEN None ELSE "other",
           !.ckpt = IF final = "completed"
                    THEN [gen |-> row.attempt, kind |-> FinalKind] ELSE None]
<1>0. row \in Row /\ WellFormed(row) /\ PaidAttempts(row) /\ Lineage(row)
  BY DEF RowInv
<1>t. /\ final \in AiRunStates
      /\ (IF final = "completed" THEN None ELSE "other") \in ErrorCodes \cup {None}
      /\ None # "checkpoint_adoption_ready"
  BY DEF Reading, Deadline, AiRunStates, ErrorCodes, CheckpointKinds,
         CoordinatorKinds, AdoptableKinds, FinalKind, CompletionStates, Terminal
<1>c. (IF final = "completed" THEN [gen |-> row.attempt, kind |-> FinalKind]
       ELSE None) \in Checkpoint \cup {None}
  BY <1>0 DEF Row, Checkpoint, CheckpointKinds
<1>1. new \in Row
  BY <1>0, <1>t, <1>c DEF WellFormed, Row
<1>2. WellFormed(new)
  BY <1>0, <1>t DEF WellFormed, Row, Deadline, WellFormed, Claimable,
     ClaimableStates, LeasedStates, WorkerStates, CompletionStates, Terminal
<1>3. PaidAttempts(new)
  BY <1>0, <1>t DEF WellFormed, Row, PaidAttempts, ClaimableStates, LeasedStates,
     WorkerStates, CompletionStates, Terminal
<1>4. Lineage(new)
  BY <1>0, <1>t DEF WellFormed, Row, Checkpoint, Lineage
<1> QED BY <1>1, <1>2, <1>3, <1>4 DEF RowInv

\* close_background_recovery keeps the row good.
LEMMA CloseBackgroundInv ==
  ASSUME NEW row, RowInv(row), row.state = "waiting_provider"
  PROVE  /\ RowInv(ParkedRowClosed(row))
         /\ ParkedRowClosed(row).state = "recovery_required"
         /\ ParkedRowClosed(row).gen = row.gen
         /\ ParkedRowClosed(row).version = row.version
<1> DEFINE new == [row EXCEPT !.state = "recovery_required", !.err = "other"]
<1>0. row \in Row /\ WellFormed(row) /\ PaidAttempts(row) /\ Lineage(row)
  BY DEF RowInv
<1>t. /\ "recovery_required" \in AiRunStates /\ "other" \in ErrorCodes
      /\ None # "checkpoint_adoption_ready"
  BY DEF Reading, Deadline, AiRunStates, ErrorCodes, CheckpointKinds,
         CoordinatorKinds, AdoptableKinds, FinalKind, CompletionStates, Terminal
<1>1. new \in Row
  BY <1>0, <1>t DEF RowInv, Row
<1>2. WellFormed(new)
  BY <1>0, <1>t DEF RowInv, Row, Deadline, WellFormed, Claimable,
     ClaimableStates, LeasedStates, WorkerStates, CompletionStates, Terminal
<1>3. PaidAttempts(new)
  BY <1>0, <1>t DEF RowInv, Row, PaidAttempts, ClaimableStates, LeasedStates,
     WorkerStates, CompletionStates, Terminal
<1>4. Lineage(new)
  BY <1>0, <1>t DEF RowInv, Row, Checkpoint, Lineage
<1>5. new = ParkedRowClosed(row) BY DEF ParkedRowClosed
<1>6. new.state = "recovery_required" /\ new.gen = row.gen /\ new.version = row.version
  BY <1>0 DEF Row
<1> HIDE DEF new
<1> QED BY <1>1, <1>2, <1>3, <1>4, <1>5, <1>6 DEF RowInv

\* Retention unlinks the checkpoint of a good row.
LEMMA ClearInv ==
  ASSUME NEW row, RowInv(row), row.state \in Terminal
  PROVE  RowInv([row EXCEPT !.ckpt = None])
<1> DEFINE new == [row EXCEPT !.ckpt = None]
<1>0. row \in Row /\ WellFormed(row) /\ PaidAttempts(row) /\ Lineage(row)
  BY DEF RowInv
<1>t. /\ "completed" \in AiRunStates
      /\ None # "checkpoint_adoption_ready"
  BY DEF Reading, Deadline, AiRunStates, ErrorCodes, CheckpointKinds,
         CoordinatorKinds, AdoptableKinds, FinalKind, CompletionStates, Terminal
<1>1. new \in Row
  BY <1>0, <1>t DEF Terminal, Row
<1>2. WellFormed(new)
  BY <1>0, <1>t DEF Terminal, Row, Deadline, WellFormed, Claimable,
     ClaimableStates, LeasedStates, WorkerStates, CompletionStates, Terminal
<1>3. PaidAttempts(new)
  BY <1>0, <1>t DEF Terminal, Row, PaidAttempts, ClaimableStates, LeasedStates,
     WorkerStates, CompletionStates, Terminal
<1>4. Lineage(new)
  BY <1>0, <1>t DEF Terminal, Row, Checkpoint, Lineage
<1> QED BY <1>1, <1>2, <1>3, <1>4 DEF RowInv

\* A row requeued below the ceiling is good.
LEMMA RequeuedInv ==
  ASSUME NEW row, RowInv(row), row.state \in LeasedStates,
         row.retry < MaxRunRetries, NEW e \in Reading,
         NEW code \in {"other", "checkpoint_adoption_ready"},
         code = "checkpoint_adoption_ready" =>
           row.ckpt # None /\ row.ckpt.kind \in AdoptableKinds
  PROVE  RowInv(Requeued(row, e, code))
<1> DEFINE new == Requeued(row, e, code)
<1>0. row \in Row /\ WellFormed(row) /\ PaidAttempts(row) /\ Lineage(row)
  BY DEF RowInv
<1>t. /\ None \in Deadline /\ e \in Deadline /\ code \in ErrorCodes
      /\ "retry_scheduled" \in AiRunStates /\ row.retry + 1 \in Nat
  BY <1>0 DEF Reading, Deadline, AiRunStates, ErrorCodes, Row
<1>1. new \in Row
  BY <1>0, <1>t DEF Requeued, Released, Row
<1>2. WellFormed(new)
  BY <1>0, <1>t DEF Requeued, Released, Row, WellFormed, Claimable,
     ClaimableStates, LeasedStates, WorkerStates
<1>3. PaidAttempts(new)
  BY <1>0, <1>t DEF Requeued, Released, Row, PaidAttempts, ClaimableStates,
     LeasedStates, WorkerStates
<1>4. Lineage(new)
  BY <1>0, <1>t DEF Requeued, Released, Row, Checkpoint, Lineage
<1> QED BY <1>1, <1>2, <1>3, <1>4 DEF RowInv

\* A row that recovery settles is good.
LEMMA SettledInv ==
  ASSUME NEW row, RowInv(row), row.state \in LeasedStates,
         NEW state \in SettledStates, NEW code \in {None, "other"}
  PROVE  RowInv(Settled(row, state, code))
<1> DEFINE new == Settled(row, state, code)
<1>0. row \in Row /\ WellFormed(row) /\ PaidAttempts(row) /\ Lineage(row)
  BY DEF RowInv
<1>t. /\ None \in Deadline /\ code \in ErrorCodes \cup {None}
      /\ state \in AiRunStates /\ None # "checkpoint_adoption_ready"
  BY DEF Deadline, AiRunStates, ErrorCodes, SettledStates, Terminal
<1>1. new \in Row
  BY <1>0, <1>t DEF Settled, Released, Row
<1>2. WellFormed(new)
  BY <1>0, <1>t DEF Settled, Released, Row, WellFormed, Claimable,
     ClaimableStates, LeasedStates, WorkerStates, SettledStates, Terminal
<1>3. PaidAttempts(new)
  BY <1>0, <1>t DEF Settled, Released, Row, PaidAttempts, ClaimableStates,
     LeasedStates, WorkerStates, SettledStates, Terminal
<1>4. Lineage(new)
  BY <1>0, <1>t DEF Settled, Released, Row, Checkpoint, Lineage
<1> QED BY <1>1, <1>2, <1>3, <1>4 DEF RowInv

\* What recovery makes of a row: requeued within the ceiling, or settled.
LEMMA RecoveredCases ==
  ASSUME NEW row, RowInv(row), row.state \in WorkerStates, NEW e \in Reading
  PROVE  \/ /\ row.retry < MaxRunRetries
            /\ \E code \in {"other", "checkpoint_adoption_ready"} :
                 /\ code = "checkpoint_adoption_ready" =>
                      row.ckpt # None /\ row.ckpt.kind \in AdoptableKinds
                 /\ RecoveredRow(row, e) = Requeued(row, e, code)
         \/ \E state \in SettledStates, code \in {None, "other"} :
              RecoveredRow(row, e) = Settled(row, state, code)
<1>0. row.retry \in Nat
  BY DEF RowInv, Row
<1>1. CASE row.state = "leased"
  BY <1>0, <1>1 DEF RecoveredRow, SettledStates, Terminal
<1>2. CASE row.state # "leased" /\ Final(row)
  <2>1. ~Adoptable(row)
    BY <1>2 DEF Final, Adoptable, FinalKind, AdoptableKinds
  <2> QED BY <1>2, <2>1 DEF RecoveredRow, SettledStates, Terminal
<1>3. CASE row.state # "leased" /\ ~Final(row) /\ Adoptable(row)
  BY <1>0, <1>3 DEF RecoveredRow, Adoptable, SettledStates, Terminal
<1>4. CASE row.state # "leased" /\ ~Final(row) /\ ~Adoptable(row)
  BY <1>4 DEF RecoveredRow, SettledStates, Terminal
<1> QED BY <1>1, <1>2, <1>3, <1>4

\* Passing time keeps a row good.
LEMMA TickedInv ==
  ASSUME NEW row, RowInv(row)
  PROVE  RowInv([row EXCEPT !.left = Later(@), !.wait = Later(@)])
<1> DEFINE new == [row EXCEPT !.left = Later(@), !.wait = Later(@)]
<1>0. row \in Row /\ WellFormed(row) /\ PaidAttempts(row) /\ Lineage(row)
  BY DEF RowInv
<1>t. \A d \in Deadline : Later(d) \in Deadline /\ (Later(d) = None <=> d = None)
  BY DEF Later, Deadline
<1>d. row.left \in Deadline /\ row.wait \in Deadline
  BY <1>0 DEF Row
<1>1. new \in Row
  BY <1>0, <1>t, <1>d DEF Row
<1>2. /\ new.state = row.state /\ new.attempt = row.attempt
      /\ new.owner = row.owner /\ new.gen = row.gen
      /\ new.retry = row.retry /\ new.err = row.err /\ new.ckpt = row.ckpt
      /\ new.left = Later(row.left)
  BY <1>0 DEF Row
<1>3. new.left = None <=> row.left = None
  BY <1>2, <1>t, <1>d
<1> HIDE DEF new
<1>4. RowInv(new)
  BY <1>0, <1>1, <1>2, <1>3
  DEF RowInv, WellFormed, Claimable, PaidAttempts, Lineage
<1> QED BY <1>4 DEF new
---------------------------------------------------------------------------
(***************************************************************************)
(* Outcomes.  A step keeps an attempt open, ends it, opens one or leaves   *)
(* the ended ones alone.                                                   *)
(***************************************************************************)

EndedStates == ClaimableStates \cup SettledStates

\* The number of ended attempts is a natural number.
LEMMA EndedNat ==
  ASSUME NEW row, RowInv(row)
  PROVE  /\ EndedAttempts(row) \in Nat
         /\ row.state \in EndedStates => EndedAttempts(row) = row.gen
         /\ row.state \notin EndedStates =>
              EndedAttempts(row) = row.gen - 1 /\ row.attempt = row.gen
<1>1. /\ row.gen \in Nat /\ row.retry \in Nat /\ row.state \in AiRunStates
      /\ row.gen = IF row.state \in ClaimableStates THEN row.retry ELSE row.retry + 1
  BY DEF RowInv, Row, PaidAttempts
<1>2. row.state \notin EndedStates => row.attempt = row.gen
  BY <1>1 DEF RowInv, WellFormed, EndedStates, ClaimableStates, SettledStates,
              Terminal, AiRunStates, LeasedStates, WorkerStates
<1> QED BY <1>1, <1>2 DEF EndedAttempts, EndedStates

\* An open attempt stays open, or nothing that outcomes speak of changes.
LEMMA HistKept ==
  ASSUME NEW row, NEW new, NEW os, RowInv(row), RowInv(new), HistInv(row, os),
         new.gen = row.gen,
         \/ row.state \notin EndedStates /\ new.state \notin EndedStates
         \/ new.state = row.state
  PROVE  HistInv(new, os)
<1>1. EndedAttempts(new) = EndedAttempts(row)
  BY EndedNat DEF EndedAttempts, EndedStates
<1>2. row.state \notin EndedStates => \A o \in os : o.gen # row.gen
  BY EndedNat DEF HistInv, Outcome, RowInv, Row
<1> QED BY <1>1, <1>2 DEF HistInv

\* The open attempt ends.
LEMMA HistEnded ==
  ASSUME NEW row, NEW new, NEW os, RowInv(row), RowInv(new), HistInv(row, os),
         row.state \notin EndedStates, new.gen = row.gen,
         new.state \in SettledStates \cup {"retry_scheduled"}
  PROVE  HistInv(new, os \cup {OutcomeOf(row, new.state)})
<1> DEFINE o1 == OutcomeOf(row, new.state)
           os1 == os \cup {o1}
<1>1. /\ EndedAttempts(row) = row.gen - 1 /\ row.attempt = row.gen
      /\ EndedAttempts(new) = row.gen /\ row.gen - 1 \in Nat /\ row.gen \in Nat
  BY EndedNat DEF EndedStates, ClaimableStates, RowInv, Row
<1>2. o1 \in Outcome /\ o1.gen = row.gen /\ o1.state = new.state
  BY <1>1 DEF OutcomeOf, Outcome, RowInv, Row
<1>3. \A o \in os : o.gen # row.gen /\ o.gen \in 1..EndedAttempts(new)
                    /\ o.state = "retry_scheduled"
  BY <1>1 DEF HistInv
<1> HIDE DEF o1
<1>4. \A o, p \in os1 : o.gen = p.gen => o = p
  BY <1>2, <1>3 DEF HistInv
<1>5. \A o \in os1 : o.gen \in 1..EndedAttempts(new)
  BY <1>1, <1>2, <1>3
<1>6. \A g \in 1..EndedAttempts(new) : \E o \in os1 : o.gen = g
  <2> SUFFICES ASSUME NEW g \in 1..EndedAttempts(new)
               PROVE  \E o \in os1 : o.gen = g
    OBVIOUS
  <2>1. CASE g = row.gen BY <2>1, <1>2
  <2>2. CASE g # row.gen
    <3>1. g \in 1..EndedAttempts(row) BY <1>1, <2>2
    <3> QED BY <3>1 DEF HistInv
  <2> QED BY <2>1, <2>2
<1>7. \A o \in os1 :
        o.state = IF o.gen = new.gen THEN new.state ELSE "retry_scheduled"
  BY <1>2, <1>3
<1>8. os1 \subseteq Outcome
  BY <1>2 DEF HistInv
<1> QED BY <1>4, <1>5, <1>6, <1>7, <1>8 DEF HistInv, o1

\* A claim opens the next attempt.
LEMMA HistOpened ==
  ASSUME NEW row, NEW new, NEW os, RowInv(row), RowInv(new), HistInv(row, os),
         row.state \in ClaimableStates, new.state \notin EndedStates,
         new.gen = row.gen + 1
  PROVE  HistInv(new, os)
<1>1. /\ EndedAttempts(row) = row.gen /\ row.gen \in Nat
      /\ EndedAttempts(new) = row.gen
  BY EndedNat DEF EndedStates, RowInv, Row
<1>2. row.state = "queued" => row.gen = 0
  BY DEF RowInv, WellFormed
<1>3. \A o \in os : o.gen \in 1..row.gen /\ o.gen # new.gen
  BY <1>1 DEF HistInv
<1>4. \A o \in os : o.state = "retry_scheduled"
  BY <1>1, <1>2, <1>3 DEF HistInv, ClaimableStates
<1> QED BY <1>1, <1>3, <1>4 DEF HistInv
---------------------------------------------------------------------------
(***************************************************************************)
(* Steps                                                                   *)
(***************************************************************************)

\* The copies of leases stay ordered when rows only move on, and at most one
\* task learns the new version of a row.
LEMMA HeldKept ==
  ASSUME IInv, run' \in [Run -> Row],
         \A r \in Run : run[r].version <= run'[r].version,
         \/ held' = held
         \/ \E t \in Task : held' = [held EXCEPT ![t] = NoLease]
         \/ \E t \in Task, r \in Run :
              /\ held' = [held EXCEPT ![t] = LeaseOf(r, run'[r])]
              /\ run[r].version < run'[r].version
  PROVE  HeldInv'
<1>0. /\ run \in [Run -> Row] /\ held \in [Task -> Lease \cup {NoLease}]
      /\ \A t \in Task : held[t] # NoLease =>
           held[t].version <= run[held[t].run].version
      /\ \A t, u \in Task :
           /\ held[t] # NoLease /\ held[u] # NoLease
           /\ held[t].run = held[u].run /\ held[t].version = held[u].version
           => t = u
  BY DEF IInv, HeldInv
<1>v. \A r \in Run : run[r].version \in Nat /\ run'[r].version \in Nat
  BY <1>0 DEF Row
<1>l. \A t \in Task : held[t] # NoLease =>
        held[t].run \in Run /\ held[t].version \in Nat
  BY <1>0 DEF Lease
<1>m. \A t \in Task : held[t] # NoLease =>
        held[t].version <= run'[held[t].run].version
  <2> SUFFICES ASSUME NEW t \in Task, held[t] # NoLease
               PROVE  held[t].version <= run'[held[t].run].version
    OBVIOUS
  <2>1. PICK r \in Run : r = held[t].run BY <1>l
  <2>2. held[t].version <= run[r].version /\ held[t].version \in Nat
    BY <1>0, <1>l, <2>1
  <2>3. run[r].version <= run'[r].version
    OBVIOUS
  <2> QED BY <1>v, <2>1, <2>2, <2>3
<1>1. CASE held' = held
  BY <1>0, <1>1, <1>m DEF HeldInv
<1>2. CASE \E t \in Task : held' = [held EXCEPT ![t] = NoLease]
  <2> PICK t \in Task : held' = [held EXCEPT ![t] = NoLease] BY <1>2
  <2>1. \A u \in Task : held'[u] # NoLease => u # t /\ held'[u] = held[u]
    BY <1>0
  <2>2. held' \in [Task -> Lease \cup {NoLease}]
    BY <1>0
  <2> QED BY <1>0, <1>m, <2>1, <2>2 DEF HeldInv
<1>3. CASE \E t \in Task, r \in Run :
              /\ held' = [held EXCEPT ![t] = LeaseOf(r, run'[r])]
              /\ run[r].version < run'[r].version
  <2> PICK t \in Task, r \in Run :
              /\ held' = [held EXCEPT ![t] = LeaseOf(r, run'[r])]
              /\ run[r].version < run'[r].version BY <1>3
  <2> DEFINE l == LeaseOf(r, run'[r])
  <2>1. l \in Lease /\ l.run = r /\ l.version = run'[r].version
    BY DEF LeaseOf, Lease, Row
  <2> HIDE DEF l
  <2>2. held'[t] = l /\ \A u \in Task : u # t => held'[u] = held[u]
    BY <1>0 DEF l
  <2>3. held' \in [Task -> Lease \cup {NoLease}]
    BY <1>0, <2>1 DEF l
  <2>4. \A u \in Task : u # t /\ held'[u] # NoLease /\ held'[u].run = r
                         => held'[u].version < l.version
    BY <1>0, <1>v, <1>l, <2>1, <2>2
  <2>5. \A u \in Task : held'[u] # NoLease =>
          held'[u].version <= run'[held'[u].run].version
    <3> SUFFICES ASSUME NEW u \in Task, held'[u] # NoLease
                 PROVE  held'[u].version <= run'[held'[u].run].version
      OBVIOUS
    <3>1. CASE u = t BY <3>1, <1>v, <2>1, <2>2
    <3>2. CASE u # t BY <3>2, <1>m, <2>2
    <3> QED BY <3>1, <3>2
  <2>6. \A u \in Task : held'[u] # NoLease => held'[u].version \in Nat
    BY <2>3 DEF Lease
  <2>7. \A u, v \in Task :
           /\ held'[u] # NoLease /\ held'[v] # NoLease
           /\ held'[u].run = held'[v].run /\ held'[u].version = held'[v].version
           => u = v
    BY <1>0, <2>1, <2>2, <2>4, <2>6
  <2> QED BY <2>3, <2>5, <2>7 DEF HeldInv
<1> QED BY <1>1, <1>2, <1>3

\* Writing one row.
LEMMA OneRow ==
  ASSUME IInv, NEW r \in Run, NEW new, RowInv(new),
         NEW os, HistInv(new, os),
         new.version = run[r].version,
         run' = [run EXCEPT ![r] = Bumped(new)],
         outcomes' = [outcomes EXCEPT ![r] = os],
         \/ held' = held
         \/ \E t \in Task : held' = [held EXCEPT ![t] = NoLease]
         \/ \E t \in Task : held' = [held EXCEPT ![t] = LeaseOf(r, Bumped(new))]
  PROVE  IInv'
<1>0. run \in [Run -> Row] /\ outcomes \in [Run -> SUBSET Outcome]
  BY DEF IInv
<1>1. RowInv(Bumped(new)) /\ Bumped(new) \in Row
  BY BumpedInv DEF RowInv
<1>2. /\ Bumped(new).version = new.version + 1 /\ new.version \in Nat
      /\ Bumped(new).state = new.state /\ Bumped(new).gen = new.gen
  BY DEF Bumped, RowInv, Row
<1>3. HistInv(Bumped(new), os)
  BY <1>1, <1>2, HistKept
<1>4. run' \in [Run -> Row] /\ outcomes' \in [Run -> SUBSET Outcome]
  BY <1>0, <1>1, <1>3 DEF HistInv
<1>5. run'[r] = Bumped(new) /\ outcomes'[r] = os
      /\ \A s \in Run : s # r => run'[s] = run[s] /\ outcomes'[s] = outcomes[s]
  BY <1>0
<1>6. \A s \in Run : RowInv(run'[s]) /\ HistInv(run'[s], outcomes'[s])
  BY <1>1, <1>3, <1>5 DEF IInv
<1>7. \A s \in Run : run[s].version <= run'[s].version
  BY <1>0, <1>2, <1>5 DEF Row
<1>8. HeldInv'
  <2>1. run[r].version < run'[r].version
    BY <1>2, <1>5
  <2>2. \/ held' = held
        \/ \E t \in Task : held' = [held EXCEPT ![t] = NoLease]
        \/ \E t \in Task, s \in Run :
             /\ held' = [held EXCEPT ![t] = LeaseOf(s, run'[s])]
             /\ run[s].version < run'[s].version
    BY <1>5, <2>1
  <2> QED BY <1>4, <1>7, <2>2, HeldKept
<1> QED BY <1>4, <1>6, <1>8 DEF IInv

\* What the fence tells about the row a task writes.
LEMMA FencedFacts ==
  ASSUME IInv, NEW t \in Task, NEW e \in Reading, Fenced(t, e)
  PROVE  /\ held[t].run \in Run /\ MyRow(t) \in Row
         /\ RowInv(MyRow(t)) /\ HistInv(MyRow(t), outcomes[held[t].run])
         /\ MyRow(t).state \in LeasedStates /\ MyRow(t).state \notin EndedStates
<1>1. held[t] # NoLease /\ MyRow(t).left # None
  BY DEF Fenced, Matches, MyRow
<1>2. held[t].run \in Run
  BY <1>1 DEF IInv, HeldInv, Lease
<1>3. RowInv(MyRow(t)) /\ HistInv(MyRow(t), outcomes[held[t].run])
  BY <1>2 DEF IInv, MyRow
<1>4. MyRow(t).state \in LeasedStates
  BY <1>1, <1>3 DEF RowInv, WellFormed
<1>5. MyRow(t).state \notin EndedStates
  BY <1>4 DEF LeasedStates, WorkerStates, EndedStates, ClaimableStates,
              SettledStates, Terminal
<1> QED BY <1>2, <1>3, <1>4, <1>5 DEF RowInv

\* A fenced write that keeps the attempt open.
LEMMA OpenWrite ==
  ASSUME IInv, NEW t \in Task, NEW e \in Reading, Fenced(t, e),
         NEW new, RowInv(new), new.version = MyRow(t).version,
         new.gen = MyRow(t).gen, new.state \notin EndedStates,
         Write(t, new) \/ GiveUp(t, new), UNCHANGED outcomes
  PROVE  IInv'
<1> DEFINE r == held[t].run
<1>1. /\ r \in Run /\ RowInv(MyRow(t)) /\ HistInv(MyRow(t), outcomes[r])
      /\ MyRow(t).state \notin EndedStates
  BY FencedFacts
<1>2. HistInv(new, outcomes[r])
  BY <1>1, HistKept
<1>3. outcomes' = [outcomes EXCEPT ![r] = outcomes[r]]
  BY <1>1 DEF IInv
<1>4. /\ run' = [run EXCEPT ![r] = Bumped(new)]
      /\ \/ held' = held
         \/ held' = [held EXCEPT ![t] = NoLease]
         \/ held' = [held EXCEPT ![t] = LeaseOf(r, Bumped(new))]
  BY DEF Write, GiveUp
<1>5. new.version = run[r].version
  BY DEF MyRow
<1> HIDE DEF r
<1> QED BY <1>1, <1>2, <1>3, <1>4, <1>5, OneRow

\* A fenced write that ends the attempt.
LEMMA ClosingWrite ==
  ASSUME IInv, NEW t \in Task, NEW e \in Reading, Fenced(t, e),
         NEW new, RowInv(new), new.version = MyRow(t).version,
         new.gen = MyRow(t).gen,
         new.state \in SettledStates \cup {"retry_scheduled"},
         Conclude(t, new)
  PROVE  IInv'
<1> DEFINE r == held[t].run
<1>1. /\ r \in Run /\ RowInv(MyRow(t)) /\ HistInv(MyRow(t), outcomes[r])
      /\ MyRow(t).state \notin EndedStates
  BY FencedFacts
<1>2. HistInv(new, outcomes[r] \cup {OutcomeOf(MyRow(t), new.state)})
  BY <1>1, HistEnded
<1>4. /\ run' = [run EXCEPT ![r] = Bumped(new)]
      /\ held' = held \/ held' = [held EXCEPT ![t] = NoLease]
      /\ outcomes' = [outcomes EXCEPT ![r] =
           outcomes[r] \cup {OutcomeOf(MyRow(t), new.state)}]
  BY DEF Conclude, GiveUp, AppendOutcome, MyRow
<1>5. new.version = run[r].version
  BY DEF MyRow
<1> HIDE DEF r
<1> QED BY <1>1, <1>2, <1>4, <1>5, OneRow

\* A service's write that needs no lease and ends the attempt.
LEMMA ServiceWrite ==
  ASSUME IInv, NEW r \in Run, run[r].state \notin EndedStates,
         NEW new, RowInv(new), new.version = run[r].version,
         new.gen = run[r].gen, new.state \in SettledStates,
         run' = [run EXCEPT ![r] = Bumped(new)],
         AppendOutcome(r, new.state), UNCHANGED held
  PROVE  IInv'
<1>1. RowInv(run[r]) /\ HistInv(run[r], outcomes[r])
  BY DEF IInv
<1>2. HistInv(new, outcomes[r] \cup {OutcomeOf(run[r], new.state)})
  BY <1>1, HistEnded
<1>3. outcomes' = [outcomes EXCEPT ![r] =
                     outcomes[r] \cup {OutcomeOf(run[r], new.state)}]
  BY DEF AppendOutcome
<1> QED BY <1>2, <1>3, OneRow

\* claim_next preserves the inductive invariant.
LEMMA ClaimNextStep ==
  ASSUME IInv, NEW t \in Task, NEW w \in WorkerId, NEW e \in Reading,
         ClaimNext(t, w, e)
  PROVE  IInv'
<1>1. PICK r \in Run :
        /\ run[r].state \in ClaimableStates
        /\ run' = [run EXCEPT ![r] = Bumped(ClaimedRow(run[r], w, e))]
        /\ \/ held' = [held EXCEPT ![t] =
                          LeaseOf(r, Bumped(ClaimedRow(run[r], w, e)))]
           \/ UNCHANGED held
  BY DEF ClaimNext, Scans, InState, ClaimableStates
<1> DEFINE new == ClaimedRow(run[r], w, e)
<1>2. RowInv(run[r]) /\ HistInv(run[r], outcomes[r]) /\ run[r] \in Row
  BY DEF IInv, RowInv
<1>3. RowInv(new)
  BY <1>1, <1>2, ClaimedRowInv
<1>4. /\ new.state = "leased" /\ new.gen = run[r].gen + 1
      /\ new.version = run[r].version
  BY <1>2 DEF ClaimedRow, Renewed, Row
<1>5. "leased" \notin EndedStates
  BY DEF EndedStates, ClaimableStates, SettledStates, Terminal
<1> HIDE DEF new
<1>6. HistInv(new, outcomes[r])
  BY <1>1, <1>2, <1>3, <1>4, <1>5, HistOpened
<1>7. outcomes' = [outcomes EXCEPT ![r] = outcomes[r]]
  BY DEF IInv, ClaimNext
<1>8. /\ run' = [run EXCEPT ![r] = Bumped(new)]
      /\ held' = held \/ held' = [held EXCEPT ![t] = LeaseOf(r, Bumped(new))]
  BY <1>1 DEF new
<1> QED BY <1>3, <1>4, <1>6, <1>7, <1>8, OneRow

\* Every operation of a worker preserves the inductive invariant.
LEMMA WorkerStepInv ==
  ASSUME IInv, NEW t \in Task, NEW e \in Reading, WorkerStep(t, e)
  PROVE  IInv'
<1> DEFINE row == MyRow(t)
<1>e. /\ {"leased", "running", "waiting_approval", "waiting_tool",
          "waiting_provider"} \cap EndedStates = {}
      /\ CompletionStates \subseteq SettledStates
  BY DEF EndedStates, ClaimableStates, SettledStates, Terminal, CompletionStates
<1>f. Fenced(t, e) => row \in Row /\ RowInv(row) /\ row.state \in LeasedStates
  BY FencedFacts
<1>1. CASE \E w \in WorkerId : ClaimNext(t, w, e)
  BY <1>1, ClaimNextStep
<1>2. CASE \E w \in WorkerId, r \in Run : ClaimApproved(t, w, e, r)
  <2> PICK w \in WorkerId, r \in Run : ClaimApproved(t, w, e, r) BY <1>2
  <2> DEFINE new == [Renewed(run[r], e) EXCEPT
                       !.state = "waiting_tool", !.owner = w,
                       !.err = "approval_resume_claimed"]
  <2>1. RowInv(run[r]) /\ HistInv(run[r], outcomes[r]) /\ run[r] \in Row
    BY DEF IInv, RowInv
  <2>2. RowInv(new) BY <2>1, ClaimApprovedInv DEF ClaimApproved
  <2>3. /\ new.state = "waiting_tool" /\ new.gen = run[r].gen
        /\ new.version = run[r].version
    BY <2>1 DEF Renewed, Row
  <2>4. /\ run' = [run EXCEPT ![r] = Bumped(new)]
        /\ \/ held' = held
           \/ held' = [held EXCEPT ![t] = LeaseOf(r, Bumped(new))]
        /\ run[r].state = "waiting_approval"
    BY DEF ClaimApproved
  <2>5. outcomes' = [outcomes EXCEPT ![r] = outcomes[r]]
    BY DEF IInv, ClaimApproved
  <2> HIDE DEF new
  <2>6. HistInv(new, outcomes[r])
    BY <1>e, <2>1, <2>2, <2>3, <2>4, HistKept
  <2> QED BY <2>2, <2>3, <2>4, <2>5, <2>6, OneRow
<1>3. CASE Heartbeat(t, e)
  <2> DEFINE new == Renewed(row, e)
  <2>1. RowInv(new) BY <1>3, <1>f, RenewedInv DEF Heartbeat
  <2>2. new.state = row.state /\ new.gen = row.gen /\ new.version = row.version
    BY <1>3, <1>f DEF Heartbeat, Renewed, Row
  <2> QED BY <1>3, <1>e, <2>1, <2>2, OpenWrite DEF Heartbeat
<1>4. CASE Start(t, e)
  <2> DEFINE new == [Renewed(row, e) EXCEPT !.state = "running"]
  <2>1. RowInv(new) BY <1>4, <1>f, StartInv DEF Start
  <2>2. new.state = "running" /\ new.gen = row.gen /\ new.version = row.version
    BY <1>4, <1>f DEF Start, Renewed, Row
  <2> QED BY <1>4, <1>e, <2>1, <2>2, OpenWrite DEF Start
<1>5. CASE \E final \in CompletionStates, code \in {None, "other"} :
             Finish(t, e, final, code)
  <2> PICK final \in CompletionStates, code \in {None, "other"} :
             Finish(t, e, final, code) BY <1>5
  <2> DEFINE new == [Released(row) EXCEPT !.state = final, !.err = code]
  <2>1. RowInv(new) BY <1>f, FinishInv DEF Finish
  <2>2. new.state = final /\ new.gen = row.gen /\ new.version = row.version
    BY <1>f DEF Finish, Released, Row
  <2> QED BY <1>e, <2>1, <2>2, ClosingWrite DEF Finish
<1>6. CASE \E delay \in 0..MaxRetryDelay : ScheduleRetry(t, e, delay)
  <2> PICK delay \in 0..MaxRetryDelay : ScheduleRetry(t, e, delay) BY <1>6
  <2> DEFINE new == [Released(row) EXCEPT
                       !.state = "retry_scheduled", !.attempt = 0,
                       !.retry = @ + 1, !.wait = delay + e, !.err = "other"]
  <2>1. RowInv(new) BY <1>f, ScheduleRetryInv DEF ScheduleRetry
  <2>2. /\ new.state = "retry_scheduled" /\ new.gen = row.gen
        /\ new.version = row.version
    BY <1>f DEF ScheduleRetry, Released, Row
  <2> QED BY <2>1, <2>2, ClosingWrite DEF ScheduleRetry
<1>7. CASE \E kind \in CheckpointKinds : LinkCheckpoint(t, e, kind)
  <2> PICK kind \in CheckpointKinds : LinkCheckpoint(t, e, kind) BY <1>7
  <2> DEFINE new == [Renewed(row, e) EXCEPT
                       !.ckpt = [gen |-> row.attempt, kind |-> kind]]
  <2>1. RowInv(new) BY <1>f, LinkCheckpointInv DEF LinkCheckpoint
  <2>2. new.state = row.state /\ new.gen = row.gen /\ new.version = row.version
    BY <1>f DEF LinkCheckpoint, Renewed, Row
  <2> QED BY <1>e, <2>1, <2>2, OpenWrite DEF LinkCheckpoint
<1>8. CASE ConsumeAdoptionCheckpoint(t, e)
  <2> DEFINE new == [Renewed(row, e) EXCEPT !.ckpt = None]
  <2>1. RowInv(new) BY <1>8, <1>f, ConsumeInv DEF ConsumeAdoptionCheckpoint
  <2>2. new.state = row.state /\ new.gen = row.gen /\ new.version = row.version
    BY <1>8, <1>f DEF ConsumeAdoptionCheckpoint, Renewed, Row
  <2> QED BY <1>8, <1>e, <2>1, <2>2, OpenWrite DEF ConsumeAdoptionCheckpoint
<1>9. CASE RequestApproval(t, e)
  <2> DEFINE new == [Renewed(row, e) EXCEPT !.state = "waiting_approval"]
  <2>1. RowInv(new) BY <1>9, <1>f, RequestApprovalInv DEF RequestApproval
  <2>2. /\ new.state = "waiting_approval" /\ new.gen = row.gen
        /\ new.version = row.version
    BY <1>9, <1>f DEF RequestApproval, Renewed, Row
  <2> QED BY <1>9, <1>e, <2>1, <2>2, OpenWrite DEF RequestApproval
<1>10. CASE ConsumeApproval(t, e)
  <2> DEFINE new == [Renewed(row, e) EXCEPT !.state = "running", !.err = None]
  <2>1. RowInv(new) BY <1>10, <1>f, ConsumeApprovalInv DEF ConsumeApproval
  <2>2. new.state = "running" /\ new.gen = row.gen /\ new.version = row.version
    BY <1>10, <1>f DEF ConsumeApproval, Renewed, Row
  <2> QED BY <1>10, <1>e, <2>1, <2>2, OpenWrite DEF ConsumeApproval
<1>11. CASE AcceptBackground(t, e)
  <2> DEFINE new == [Released(row) EXCEPT !.state = "waiting_provider",
                                          !.err = None]
  <2>1. RowInv(new) BY <1>11, <1>f, AcceptBackgroundInv DEF AcceptBackground
  <2>2. /\ new.state = "waiting_provider" /\ new.gen = row.gen
        /\ new.version = row.version
    BY <1>11, <1>f DEF AcceptBackground, Released, Row
  <2> QED BY <1>11, <1>e, <2>1, <2>2, OpenWrite DEF AcceptBackground
<1> QED
  BY <1>1, <1>2, <1>3, <1>4, <1>5, <1>6, <1>7, <1>8, <1>9, <1>10, <1>11
  DEF WorkerStep

\* Every write of a service without a lease preserves the inductive invariant.
LEMMA ServiceStepInv ==
  ASSUME IInv, NEW r \in Run, ServiceStep(r)
  PROVE  IInv'
<1>0. /\ RowInv(run[r]) /\ HistInv(run[r], outcomes[r]) /\ run[r] \in Row
      /\ {"cancelled", "recovery_required"} \cup Terminal \subseteq SettledStates
      /\ {"waiting_approval", "waiting_provider"} \cap EndedStates = {}
      /\ {"cancelled", "recovery_required"} \subseteq CompletionStates
      /\ "waiting_approval" \in LeasedStates
  BY DEF IInv, RowInv, EndedStates, ClaimableStates, SettledStates, Terminal,
         CompletionStates, LeasedStates
<1>1. CASE \E final \in {"cancelled", "recovery_required"} :
             ReconcileApprovalWait(r, final)
  <2> PICK final \in {"cancelled", "recovery_required"} :
             ReconcileApprovalWait(r, final) BY <1>1
  <2> DEFINE new == [Released(run[r]) EXCEPT !.state = final, !.err = "other"]
  <2>1. RowInv(new) BY <1>0, FinishInv DEF ReconcileApprovalWait
  <2>2. new.state = final /\ new.gen = run[r].gen /\ new.version = run[r].version
    BY <1>0 DEF Released, Row
  <2>3. run' = [run EXCEPT ![r] = Bumped(new)]
    BY DEF ReconcileApprovalWait
  <2> QED BY <1>0, <2>1, <2>2, <2>3, ServiceWrite DEF ReconcileApprovalWait
<1>2. CASE \E final \in Terminal : CommitBackgroundTerminal(r, final)
  <2> PICK final \in Terminal : CommitBackgroundTerminal(r, final) BY <1>2
  <2> DEFINE new == [run[r] EXCEPT
           !.state = final,
           !.err = IF final = "completed" THEN None ELSE "other",
           !.ckpt = IF final = "completed"
                    THEN [gen |-> run[r].attempt, kind |-> FinalKind] ELSE None]
  <2>1. RowInv(new)
    BY <1>0, CommitBackgroundInv DEF CommitBackgroundTerminal
  <2>2. new.state = final /\ new.gen = run[r].gen /\ new.version = run[r].version
    BY <1>0 DEF Row
  <2> QED BY <1>0, <2>1, <2>2, ServiceWrite DEF CommitBackgroundTerminal
<1>3. CASE ClearCheckpoint(r)
  <2> DEFINE new == [run[r] EXCEPT !.ckpt = None]
  <2>1. RowInv(new) BY <1>0, <1>3, ClearInv DEF ClearCheckpoint
  <2>2. /\ new.state = run[r].state /\ new.gen = run[r].gen
        /\ new.version = run[r].version
    BY <1>0 DEF Row
  <2>3. outcomes' = [outcomes EXCEPT ![r] = outcomes[r]]
    BY <1>3 DEF IInv, ClearCheckpoint
  <2>4. run' = [run EXCEPT ![r] = Bumped(new)] /\ held' = held
    BY <1>3 DEF ClearCheckpoint
  <2> HIDE DEF new
  <2>5. HistInv(new, outcomes[r])
    BY <1>0, <2>1, <2>2, HistKept
  <2> QED BY <2>1, <2>2, <2>3, <2>4, <2>5, OneRow
<1> QED BY <1>1, <1>2, <1>3 DEF ServiceStep

\* One row of a recovery pass.
LEMMA RecoveredInv ==
  ASSUME NEW row, NEW os, RowInv(row), HistInv(row, os),
         row.state \in WorkerStates, NEW e \in Reading
  PROVE  LET new == Bumped(RecoveredRow(row, e)) IN
         /\ RowInv(new) /\ new.version = row.version + 1
         /\ HistInv(new, os \cup {OutcomeOf(row, RecoveredRow(row, e).state)})
<1> DEFINE mid == RecoveredRow(row, e)
           new == Bumped(mid)
<1>0. row \in Row /\ row.state \in LeasedStates /\ row.state \notin EndedStates
  BY DEF RowInv, WorkerStates, LeasedStates, EndedStates, ClaimableStates,
         SettledStates, Terminal
<1>1. /\ RowInv(mid) /\ mid.gen = row.gen /\ mid.version = row.version
      /\ mid.state \in SettledStates \cup {"retry_scheduled"}
  <2>1. CASE /\ row.retry < MaxRunRetries
             /\ \E code \in {"other", "checkpoint_adoption_ready"} :
                  /\ code = "checkpoint_adoption_ready" =>
                       row.ckpt # None /\ row.ckpt.kind \in AdoptableKinds
                  /\ mid = Requeued(row, e, code)
    <3> PICK code \in {"other", "checkpoint_adoption_ready"} :
                  /\ code = "checkpoint_adoption_ready" =>
                       row.ckpt # None /\ row.ckpt.kind \in AdoptableKinds
                  /\ mid = Requeued(row, e, code) BY <2>1
    <3>1. RowInv(Requeued(row, e, code)) BY <1>0, <2>1, RequeuedInv
    <3>2. LET n == Requeued(row, e, code) IN
          n.gen = row.gen /\ n.version = row.version /\ n.state = "retry_scheduled"
      BY <1>0 DEF Requeued, Released, Row
    <3> QED BY <3>1, <3>2
  <2>2. CASE \E state \in SettledStates, code \in {None, "other"} :
              mid = Settled(row, state, code)
    <3> PICK state \in SettledStates, code \in {None, "other"} :
              mid = Settled(row, state, code) BY <2>2
    <3>1. RowInv(Settled(row, state, code)) BY <1>0, SettledInv
    <3>2. LET n == Settled(row, state, code) IN
          n.gen = row.gen /\ n.version = row.version /\ n.state = state
      BY <1>0 DEF Settled, Released, Row
    <3> QED BY <3>1, <3>2
  <2> QED BY <2>1, <2>2, RecoveredCases
<1> HIDE DEF mid
<1>2. RowInv(new) BY <1>1, BumpedInv
<1>3. /\ new.version = row.version + 1 /\ new.gen = mid.gen
      /\ new.state = mid.state
  BY <1>1 DEF Bumped, RowInv, Row
<1>4. HistInv(new, os \cup {OutcomeOf(row, new.state)})
  BY <1>0, <1>1, <1>2, <1>3, HistEnded
<1> QED BY <1>2, <1>3, <1>4 DEF mid

\* A pass of recover_expired_leases preserves the inductive invariant.
LEMMA RecoveryStep ==
  ASSUME IInv, NEW e \in Reading, RecoverExpiredLeases(e)
  PROVE  IInv'
<1>0. run \in [Run -> Row] /\ outcomes \in [Run -> SUBSET Outcome]
  BY DEF IInv
<1>1. PICK W \in RecoveryWindows :
       /\ run' = [r \in Run |->
            IF r \in Expired(W, e) THEN Bumped(RecoveredRow(run[r], e))
                                   ELSE run[r]]
       /\ outcomes' = [r \in Run |->
            IF r \in Expired(W, e)
            THEN outcomes[r] \cup
                   {OutcomeOf(run[r], RecoveredRow(run[r], e).state)}
            ELSE outcomes[r]]
  BY DEF RecoverExpiredLeases
<1>2. \A r \in Expired(W, e) : r \in Run /\ run[r].state \in RecoverableStates
  <2>1. PICK P \in SUBSET Recoverable :
          W = {r \in P : Cardinality({q \in P : q < r}) < MaxCandidateScan}
    BY Zenon DEF RecoveryWindows
  <2>2. \A r \in W : r \in Recoverable
    BY <2>1
  <2> QED BY <2>2 DEF Expired, Recoverable, InState
<1>3. \A r \in Expired(W, e) : run[r].state \in WorkerStates
  BY <1>2 DEF IInv, RowInv, WellFormed, RecoverableStates, WorkerStates
<1>4. ASSUME NEW r \in Run
      PROVE  /\ RowInv(run'[r]) /\ HistInv(run'[r], outcomes'[r])
             /\ run[r].version <= run'[r].version
  <2>0. /\ RowInv(run[r]) /\ HistInv(run[r], outcomes[r])
        /\ run[r].version \in Nat
    BY DEF IInv, RowInv, Row
  <2>1. CASE r \in Expired(W, e)
    <3>1. /\ run'[r] = Bumped(RecoveredRow(run[r], e))
          /\ outcomes'[r] = outcomes[r] \cup
                   {OutcomeOf(run[r], RecoveredRow(run[r], e).state)}
      BY <1>1, <2>1
    <3>2. run[r].state \in WorkerStates BY <1>3, <2>1
    <3>3. LET new == Bumped(RecoveredRow(run[r], e)) IN
          /\ RowInv(new) /\ new.version = run[r].version + 1
          /\ HistInv(new, outcomes[r] \cup
                            {OutcomeOf(run[r], RecoveredRow(run[r], e).state)})
      BY <2>0, <3>2, RecoveredInv
    <3>4. RowInv(run'[r]) /\ HistInv(run'[r], outcomes'[r])
      BY <3>1, <3>3
    <3>5. run'[r].version = run[r].version + 1
      BY <3>1, <3>3
    <3> QED BY <2>0, <3>4, <3>5
  <2>2. CASE r \notin Expired(W, e)
    BY <1>1, <2>0, <2>2
  <2> QED BY <2>1, <2>2
<1>5. run' \in [Run -> Row] /\ outcomes' \in [Run -> SUBSET Outcome]
  <2>1. DOMAIN run' = Run /\ run' = [r \in Run |-> run'[r]] BY <1>1
  <2>2. DOMAIN outcomes' = Run /\ outcomes' = [r \in Run |-> outcomes'[r]] BY <1>1
  <2>3. \A r \in Run : run'[r] \in Row /\ outcomes'[r] \in SUBSET Outcome
    BY <1>4 DEF RowInv, HistInv
  <2> QED BY <2>1, <2>2, <2>3
<1>6. HeldInv'
  BY <1>4, <1>5, HeldKept DEF RecoverExpiredLeases
<1> QED BY <1>4, <1>5, <1>6 DEF IInv

\* Closing parked runs preserves the inductive invariant.
LEMMA CloseRecoveryStep ==
  ASSUME IInv, NEW S \in SUBSET Run, CloseBackgroundRecovery(S)
  PROVE  IInv'
<1>1. ASSUME NEW r \in Run
      PROVE  /\ RowInv(run'[r]) /\ HistInv(run'[r], outcomes'[r])
             /\ run[r].version <= run'[r].version
  <2>0. /\ RowInv(run[r]) /\ HistInv(run[r], outcomes[r])
        /\ run[r].version \in Nat
    BY DEF IInv, RowInv, Row
  <2>1. CASE r \in S
    <3> DEFINE mid == ParkedRowClosed(run[r])
    <3>1. /\ run'[r] = Bumped(mid)
          /\ outcomes'[r] = outcomes[r] \cup {OutcomeOf(run[r], "recovery_required")}
          /\ run[r].state = "waiting_provider"
      BY <2>1 DEF CloseBackgroundRecovery
    <3>2. /\ RowInv(mid) /\ mid.state = "recovery_required"
          /\ mid.gen = run[r].gen /\ mid.version = run[r].version
      BY <2>0, <3>1, CloseBackgroundInv
    <3> HIDE DEF mid
    <3>3. RowInv(run'[r]) BY <3>1, <3>2, BumpedInv
    <3>4. /\ run'[r].version = run[r].version + 1 /\ run'[r].gen = mid.gen
          /\ run'[r].state = mid.state
      BY <3>1, <3>2 DEF Bumped, RowInv, Row
    <3>5. "waiting_provider" \notin EndedStates /\ "recovery_required" \in SettledStates
      BY DEF EndedStates, ClaimableStates, SettledStates, Terminal
    <3>6. HistInv(run'[r], outcomes[r] \cup {OutcomeOf(run[r], run'[r].state)})
      BY <2>0, <3>1, <3>2, <3>3, <3>4, <3>5, HistEnded
    <3> QED BY <2>0, <3>1, <3>2, <3>3, <3>4, <3>6
  <2>2. CASE r \notin S
    BY <2>0, <2>2 DEF CloseBackgroundRecovery
  <2> QED BY <2>1, <2>2
<1>2. run' \in [Run -> Row] /\ outcomes' \in [Run -> SUBSET Outcome]
  <2>1. run' = [r \in Run |-> run'[r]] /\ outcomes' = [r \in Run |-> outcomes'[r]]
    BY DEF CloseBackgroundRecovery
  <2>2. \A r \in Run : run'[r] \in Row /\ outcomes'[r] \in SUBSET Outcome
    BY <1>1 DEF RowInv, HistInv
  <2> QED BY <2>1, <2>2
<1>3. HeldInv'
  BY <1>1, <1>2, HeldKept DEF CloseBackgroundRecovery
<1> QED BY <1>1, <1>2, <1>3 DEF IInv

\* Passing time preserves the inductive invariant.
LEMMA TickStep ==
  ASSUME IInv, Tick
  PROVE  IInv'
<1>1. ASSUME NEW r \in Run
      PROVE  /\ RowInv(run'[r]) /\ HistInv(run'[r], outcomes'[r])
             /\ run[r].version <= run'[r].version
  <2>0. RowInv(run[r]) /\ HistInv(run[r], outcomes[r]) /\ run[r] \in Row
    BY DEF IInv, RowInv
  <2>1. run'[r] = [run[r] EXCEPT !.left = Later(@), !.wait = Later(@)]
    BY DEF Tick
  <2>2. RowInv(run'[r])
    BY <2>0, <2>1, TickedInv
  <2>3. /\ run'[r].state = run[r].state /\ run'[r].gen = run[r].gen
        /\ run'[r].version = run[r].version /\ run[r].version \in Nat
    BY <2>0, <2>1 DEF Row
  <2>4. HistInv(run'[r], outcomes[r])
    BY <2>0, <2>2, <2>3, HistKept
  <2>5. HistInv(run'[r], outcomes'[r])
    BY <2>4 DEF Tick
  <2> QED BY <2>2, <2>3, <2>5
<1>2. run' \in [Run -> Row] /\ outcomes' \in [Run -> SUBSET Outcome]
  <2>1. run' = [r \in Run |-> run'[r]] BY DEF Tick
  <2>2. outcomes' = outcomes BY DEF Tick
  <2>3. \A r \in Run : run'[r] \in Row
    BY <1>1 DEF RowInv
  <2> QED BY <2>1, <2>2, <2>3 DEF IInv
<1>3. HeldInv'
  BY <1>1, <1>2, HeldKept DEF Tick
<1> QED BY <1>1, <1>2, <1>3 DEF IInv

\* A crash of a task preserves the inductive invariant.
LEMMA CrashStep ==
  ASSUME IInv, NEW t \in Task, Crash(t)
  PROVE  IInv'
<1>1. run' = run /\ outcomes' = outcomes /\ held' = [held EXCEPT ![t] = NoLease]
  BY DEF Crash
<1>2. run' \in [Run -> Row] /\ \A r \in Run : run[r].version <= run'[r].version
  BY <1>1 DEF IInv, Row
<1>3. HeldInv'
  BY <1>1, <1>2, HeldKept
<1> QED BY <1>1, <1>3 DEF IInv

\* The queued runs of the start satisfy the inductive invariant.
LEMMA InitInv == Init => IInv
<1> SUFFICES ASSUME Init PROVE IInv OBVIOUS
<1>1. QueuedRow \in Row
  BY DEF QueuedRow, Row, AiRunStates, Deadline
<1>2. WellFormed(QueuedRow) /\ PaidAttempts(QueuedRow) /\ Lineage(QueuedRow)
  BY DEF QueuedRow, WellFormed, PaidAttempts, Lineage, Claimable, ClaimableStates,
         LeasedStates, WorkerStates, ErrorCodes
<1>3. RowInv(QueuedRow) BY <1>1, <1>2 DEF RowInv
<1>4. EndedAttempts(QueuedRow) = 0
  BY DEF EndedAttempts, QueuedRow, ClaimableStates
<1>5. HistInv(QueuedRow, {})
  BY <1>4 DEF HistInv
<1>6. HeldInv
  BY DEF Init, HeldInv
<1> QED BY <1>1, <1>3, <1>5, <1>6 DEF Init, IInv

\* Every step preserves the inductive invariant.
LEMMA NextInv == IInv /\ [Next]_vars => IInv'
<1> SUFFICES ASSUME IInv, [Next]_vars PROVE IInv' OBVIOUS
<1>1. CASE Next
  BY <1>1, WorkerStepInv, ServiceStepInv, CloseRecoveryStep, RecoveryStep,
          TickStep, CrashStep
  DEF Next
<1>2. CASE UNCHANGED vars
  BY <1>2 DEF vars, IInv, HeldInv
<1> QED BY <1>1, <1>2
---------------------------------------------------------------------------
(***************************************************************************)
(* Theorems                                                                *)
(***************************************************************************)

\* Every reachable state of the run table satisfies the inductive invariant.
THEOREM Invariance == Spec => []IInv
BY InitInv, NextInv, PTL DEF Spec

\* The rows, leases and outcomes keep their types.
THEOREM TypeCorrect == Spec => []TypeOK
<1>1. IInv => TypeOK BY DEF IInv, HeldInv, TypeOK
<1> QED BY <1>1, Invariance, PTL

\* No operation of any service leaves a run row behind that a later operation
\* rejects as malformed.
THEOREM RowsStayWellFormed == Spec => []RowWellFormed
<1>1. IInv => RowWellFormed BY DEF IInv, RowInv, RowWellFormed
<1> QED BY <1>1, Invariance, PTL

\* However many tasks keep copies of a run's leases, at most one copy passes
\* load_and_validate_active_lease.
THEOREM FenceIsExclusive == Spec => []FenceExclusive
<1>1. IInv => FenceExclusive
  <2> SUFFICES ASSUME IInv, NEW t \in Task, NEW u \in Task,
                      Matches(held[t]), Matches(held[u]),
                      held[t].run = held[u].run
               PROVE  t = u
    BY DEF FenceExclusive
  <2>1. held[t] # NoLease /\ held[u] # NoLease
    BY DEF Matches
  <2>2. held[t] = held[u]
    BY DEF Matches
  <2> QED BY <2>1, <2>2 DEF IInv, HeldInv
<1> QED BY <1>1, Invariance, PTL

\* Every attempt that has ended has exactly one outcome, and the open one none:
\* the unique index on attempt_id never has to reject an insertion.
THEOREM OutcomesAreExact == Spec => []OneOutcomePerAttempt
<1>1. IInv => OneOutcomePerAttempt
  <2> SUFFICES ASSUME IInv, NEW r \in Run
               PROVE  /\ \A o, p \in outcomes[r] : o.gen = p.gen => o = p
                      /\ {o.gen : o \in outcomes[r]} = 1..EndedAttempts(run[r])
    BY DEF OneOutcomePerAttempt
  <2>1. HistInv(run[r], outcomes[r]) BY DEF IInv
  <2> QED BY <2>1 DEF HistInv
<1> QED BY <1>1, Invariance, PTL

\* The outcomes of a run are its history: requeued attempts, and a last one
\* that ended in the state the row shows.
THEOREM OutcomesAreHistory == Spec => []OutcomesTellHistory
<1>1. IInv => OutcomesTellHistory BY DEF IInv, HistInv, OutcomesTellHistory
<1> QED BY <1>1, Invariance, PTL

\* No run is attempted more than MaxRunRetries + 1 times.
THEOREM AttemptsAreBounded == Spec => []AttemptsBounded
<1>1. IInv => AttemptsBounded BY DEF IInv, RowInv, AttemptsBounded
<1> QED BY <1>1, Invariance, PTL

\* Only a completed tool batch outlives the attempt that wrote it.
THEOREM HandoverIsRestricted == Spec => []OnlyBatchesAreHandedOver
<1>1. IInv => OnlyBatchesAreHandedOver
  BY DEF IInv, RowInv, OnlyBatchesAreHandedOver
<1> QED BY <1>1, Invariance, PTL
---------------------------------------------------------------------------
(***************************************************************************)
(* Who may write a row                                                     *)
(*                                                                         *)
(* A step leaves a row alone, lets time pass on it, clears the checkpoint  *)
(* of a terminal one, or takes it from an unsettled state to another.  A   *)
(* settled row stores no deadline, so that time leaves it alone too: that  *)
(* it stores none is WaitInv.                                              *)
(***************************************************************************)

\* Only a row that waits to be claimed stores the time of its next attempt.
WaitInv ==
  \A r \in Run : run[r].state \notin ClaimableStates => run[r].wait = None

\* Only the holder of the current copy writes before the lease has expired on
\* every clock.
Permitted(r) ==
  run[r].state \in WorkerStates /\ run[r].left > ClockError
    => \E t \in Task : Matches(held[t]) /\ held[t].run = r

Aged(r) == run'[r] = [run[r] EXCEPT !.left = Later(@), !.wait = Later(@)]

Unlinked(r) ==
  /\ run[r].state \in Terminal
  /\ run'[r] = Bumped([run[r] EXCEPT !.ckpt = None])

Advanced(r) ==
  /\ run[r].state \notin SettledStates
  /\ Permitted(r)
  /\ \/ run'[r].wait = None
     \/ run'[r].state \in ClaimableStates
     \/ /\ run[r].state \notin ClaimableStates
        /\ run'[r].wait = run[r].wait

\* What one step does to one row.
RowEffect(r) ==
  \/ run'[r] = run[r] /\ outcomes'[r] = outcomes[r]
  \/ Aged(r) /\ outcomes'[r] = outcomes[r]
  \/ Unlinked(r) /\ outcomes'[r] = outcomes[r]
  \/ Advanced(r)

\* A step that writes one row advances that row and leaves the others alone.
LEMMA OneRowEffect ==
  ASSUME IInv, NEW r \in Run, NEW new, NEW os,
         run' = [run EXCEPT ![r] = new],
         outcomes' = [outcomes EXCEPT ![r] = os],
         run[r].state \notin SettledStates, Permitted(r),
         \/ new.wait = None
         \/ new.state \in ClaimableStates
         \/ run[r].state \notin ClaimableStates /\ new.wait = run[r].wait
  PROVE  \A s \in Run : RowEffect(s)
<1>1. run \in [Run -> Row] /\ outcomes \in [Run -> SUBSET Outcome]
  BY DEF IInv
<1>2. run'[r] = new BY <1>1
<1>3. Advanced(r) BY <1>2 DEF Advanced
<1>4. \A s \in Run : s # r => run'[s] = run[s] /\ outcomes'[s] = outcomes[s]
  BY <1>1
<1> QED BY <1>3, <1>4 DEF RowEffect

\* The write of a fenced task.
LEMMA FencedEffect ==
  ASSUME IInv, NEW t \in Task, NEW e \in Reading, Fenced(t, e),
         NEW new, Write(t, new) \/ GiveUp(t, new),
         UNCHANGED outcomes \/ AppendOutcome(held[t].run, new.state),
         \/ new.wait = None
         \/ new.state \in ClaimableStates
         \/ new.wait = MyRow(t).wait,
         new \in Row
  PROVE  \A s \in Run : RowEffect(s)
<1> DEFINE r == held[t].run
<1>1. /\ r \in Run /\ run[r].state \in LeasedStates /\ run[r].state \notin EndedStates
  BY FencedFacts DEF MyRow
<1>2. run[r].state \notin SettledStates /\ run[r].state \notin ClaimableStates
  BY <1>1 DEF EndedStates
<1>3. Permitted(r)
  BY DEF Permitted, Fenced
<1>4. run' = [run EXCEPT ![r] = Bumped(new)]
  BY DEF Write, GiveUp
<1>5. Bumped(new).wait = new.wait /\ Bumped(new).state = new.state
  BY DEF Bumped, Row
<1>6. \E os : outcomes' = [outcomes EXCEPT ![r] = os]
  <2>1. CASE UNCHANGED outcomes
    <3>1. outcomes' = [outcomes EXCEPT ![r] = outcomes[r]]
      BY <2>1, <1>1 DEF IInv
    <3> QED BY <3>1
  <2>2. CASE AppendOutcome(held[t].run, new.state)
    BY <2>2 DEF AppendOutcome
  <2> QED BY <2>1, <2>2
<1>7. \/ Bumped(new).wait = None
      \/ Bumped(new).state \in ClaimableStates
      \/ run[r].state \notin ClaimableStates /\ Bumped(new).wait = run[r].wait
  BY <1>2, <1>5 DEF MyRow
<1> HIDE DEF r
<1> QED BY <1>1, <1>2, <1>3, <1>4, <1>6, <1>7, OneRowEffect

\* The operations of a worker.
LEMMA WorkerEffect ==
  ASSUME IInv, NEW t \in Task, NEW e \in Reading, WorkerStep(t, e)
  PROVE  \A s \in Run : RowEffect(s)
<1> DEFINE row == MyRow(t)
<1>f. Fenced(t, e) => row \in Row
  BY FencedFacts
<1>t. LeaseTtl + e \in Deadline /\ {"running", "waiting_approval"} \subseteq AiRunStates
  BY DEF Reading, Deadline, AiRunStates
<1>s. ClaimableStates \cap SettledStates = {} /\ ClaimableStates \cap WorkerStates = {}
      /\ "waiting_approval" \notin SettledStates
      /\ "waiting_approval" \notin WorkerStates
      /\ "waiting_approval" \notin ClaimableStates
  BY DEF ClaimableStates, SettledStates, WorkerStates, Terminal
<1>o. ASSUME NEW r \in Run, UNCHANGED outcomes
      PROVE  outcomes' = [outcomes EXCEPT ![r] = outcomes[r]]
  BY <1>o DEF IInv
<1>1. CASE \E w \in WorkerId : ClaimNext(t, w, e)
  <2>1. PICK w \in WorkerId, r \in Run :
          /\ run[r].state \in ClaimableStates
          /\ run' = [run EXCEPT ![r] = Bumped(ClaimedRow(run[r], w, e))]
    BY <1>1 DEF ClaimNext, Scans, InState, ClaimableStates
  <2>2. run[r] \in Row BY DEF IInv
  <2>3. Bumped(ClaimedRow(run[r], w, e)).wait = None
    BY <2>2 DEF ClaimedRow, Renewed, Bumped, Row
  <2>4. UNCHANGED outcomes BY <1>1 DEF ClaimNext
  <2>5. Permitted(r) /\ run[r].state \notin SettledStates
    BY <2>1, <1>s DEF Permitted
  <2>6. outcomes' = [outcomes EXCEPT ![r] = outcomes[r]]
    BY <2>4, <1>o
  <2> QED BY <2>1, <2>3, <2>5, <2>6, OneRowEffect
<1>2. CASE \E w \in WorkerId, r \in Run : ClaimApproved(t, w, e, r)
  <2> PICK w \in WorkerId, r \in Run : ClaimApproved(t, w, e, r) BY <1>2
  <2> DEFINE new == [Renewed(run[r], e) EXCEPT
                       !.state = "waiting_tool", !.owner = w,
                       !.err = "approval_resume_claimed"]
  <2>1. run[r] \in Row BY DEF IInv
  <2>2. Bumped(new).wait = run[r].wait
    BY <2>1 DEF Renewed, Bumped, Row
  <2>3. /\ run' = [run EXCEPT ![r] = Bumped(new)]
        /\ run[r].state = "waiting_approval" /\ UNCHANGED outcomes
    BY DEF ClaimApproved
  <2>4. /\ Permitted(r) /\ run[r].state \notin SettledStates
        /\ run[r].state \notin ClaimableStates
    BY <2>3, <1>s DEF Permitted
  <2>5. outcomes' = [outcomes EXCEPT ![r] = outcomes[r]]
    BY <2>3, <1>o
  <2> HIDE DEF new
  <2> QED BY <2>2, <2>3, <2>4, <2>5, OneRowEffect
<1>3. CASE Heartbeat(t, e)
  <2> DEFINE new == Renewed(row, e)
  <2>1. new.wait = row.wait /\ new \in Row
    BY <1>3, <1>f, <1>t DEF Heartbeat, Renewed, Row
  <2> HIDE DEF new
  <2>2. Fenced(t, e) /\ Write(t, new) /\ UNCHANGED outcomes
    BY <1>3 DEF Heartbeat, new
  <2> QED BY <2>1, <2>2, FencedEffect
<1>4. CASE Start(t, e)
  <2> DEFINE new == [Renewed(row, e) EXCEPT !.state = "running"]
  <2>1. new.wait = row.wait /\ new \in Row
    BY <1>4, <1>f, <1>t DEF Start, Renewed, Row
  <2> HIDE DEF new
  <2>2. Fenced(t, e) /\ Write(t, new) /\ UNCHANGED outcomes
    BY <1>4 DEF Start, new
  <2> QED BY <2>1, <2>2, FencedEffect
<1>5. CASE \E final \in CompletionStates, code \in {None, "other"} :
             Finish(t, e, final, code)
  <2> PICK final \in CompletionStates, code \in {None, "other"} :
             Finish(t, e, final, code) BY <1>5
  <2> DEFINE new == [Released(row) EXCEPT !.state = final, !.err = code]
  <2>1. /\ new.wait = None /\ new \in Row
    BY <1>f DEF Finish, Released, Row, Deadline, CompletionStates, Terminal,
                AiRunStates, ErrorCodes
  <2> HIDE DEF new
  <2>2. Fenced(t, e) /\ GiveUp(t, new) /\ AppendOutcome(held[t].run, new.state)
    BY DEF Finish, Conclude, new
  <2> QED BY <2>1, <2>2, FencedEffect
<1>6. CASE \E delay \in 0..MaxRetryDelay : ScheduleRetry(t, e, delay)
  <2> PICK delay \in 0..MaxRetryDelay : ScheduleRetry(t, e, delay) BY <1>6
  <2> DEFINE new == [Released(row) EXCEPT
                       !.state = "retry_scheduled", !.attempt = 0,
                       !.retry = @ + 1, !.wait = delay + e, !.err = "other"]
  <2>1. Fenced(t, e) /\ row \in Row
    BY <1>f DEF ScheduleRetry
  <2>2. delay + e \in Deadline /\ row.retry + 1 \in Nat
    BY <2>1 DEF Row, Deadline, Reading
  <2>3. /\ new.state \in ClaimableStates /\ new \in Row
    BY <2>1, <2>2 DEF Released, Row, Deadline, ClaimableStates, AiRunStates, ErrorCodes
  <2> HIDE DEF new
  <2>4. GiveUp(t, new) /\ AppendOutcome(held[t].run, new.state)
    BY DEF ScheduleRetry, Conclude, new
  <2> QED BY <2>1, <2>3, <2>4, FencedEffect
<1>7. CASE \E kind \in CheckpointKinds : LinkCheckpoint(t, e, kind)
  <2> PICK kind \in CheckpointKinds : LinkCheckpoint(t, e, kind) BY <1>7
  <2> DEFINE new == [Renewed(row, e) EXCEPT
                       !.ckpt = [gen |-> row.attempt, kind |-> kind]]
  <2>1. Fenced(t, e) /\ row \in Row
    BY <1>f DEF LinkCheckpoint
  <2>2. [gen |-> row.attempt, kind |-> kind] \in Checkpoint
    BY <2>1 DEF Row, Checkpoint
  <2>3. new.wait = row.wait /\ new \in Row
    BY <2>1, <2>2, <1>t DEF Renewed, Row
  <2> HIDE DEF new
  <2>4. Write(t, new) /\ UNCHANGED outcomes
    BY DEF LinkCheckpoint, new
  <2> QED BY <2>1, <2>3, <2>4, FencedEffect
<1>8. CASE ConsumeAdoptionCheckpoint(t, e)
  <2> DEFINE new == [Renewed(row, e) EXCEPT !.ckpt = None]
  <2>1. new.wait = row.wait /\ new \in Row
    BY <1>8, <1>f, <1>t DEF ConsumeAdoptionCheckpoint, Renewed, Row
  <2> HIDE DEF new
  <2>2. Fenced(t, e) /\ Write(t, new) /\ UNCHANGED outcomes
    BY <1>8 DEF ConsumeAdoptionCheckpoint, new
  <2> QED BY <2>1, <2>2, FencedEffect
<1>9. CASE RequestApproval(t, e)
  <2> DEFINE new == [Renewed(row, e) EXCEPT !.state = "waiting_approval"]
  <2>1. new.wait = row.wait /\ new \in Row
    BY <1>9, <1>f, <1>t DEF RequestApproval, Renewed, Row
  <2> HIDE DEF new
  <2>2. Fenced(t, e) /\ Write(t, new) /\ UNCHANGED outcomes
    BY <1>9 DEF RequestApproval, new
  <2> QED BY <2>1, <2>2, FencedEffect
<1>10. CASE ConsumeApproval(t, e)
  <2> DEFINE new == [Renewed(row, e) EXCEPT !.state = "running", !.err = None]
  <2>1. new.wait = row.wait /\ new \in Row
    BY <1>10, <1>f, <1>t DEF ConsumeApproval, Renewed, Row
  <2> HIDE DEF new
  <2>2. Fenced(t, e) /\ Write(t, new) /\ UNCHANGED outcomes
    BY <1>10 DEF ConsumeApproval, new
  <2> QED BY <2>1, <2>2, FencedEffect
<1>11. CASE AcceptBackground(t, e)
  <2> DEFINE new == [Released(row) EXCEPT !.state = "waiting_provider",
                                          !.err = None]
  <2>1. new.wait = None /\ new \in Row
    BY <1>11, <1>f DEF AcceptBackground, Released, Row, Deadline, AiRunStates
  <2> HIDE DEF new
  <2>2. Fenced(t, e) /\ GiveUp(t, new) /\ UNCHANGED outcomes
    BY <1>11 DEF AcceptBackground, new
  <2> QED BY <2>1, <2>2, FencedEffect
<1> QED
  BY <1>1, <1>2, <1>3, <1>4, <1>5, <1>6, <1>7, <1>8, <1>9, <1>10, <1>11
  DEF WorkerStep

\* The operations of the reconcilers and of retention on one run.
LEMMA ServiceEffect ==
  ASSUME IInv, NEW r \in Run, ServiceStep(r)
  PROVE  \A s \in Run : RowEffect(s)
<1>0. /\ run[r] \in Row /\ run \in [Run -> Row]
      /\ outcomes \in [Run -> SUBSET Outcome]
      /\ {"waiting_approval", "waiting_provider"} \cap
           (SettledStates \cup WorkerStates \cup ClaimableStates) = {}
  BY DEF IInv, SettledStates, WorkerStates, ClaimableStates, Terminal
<1>1. CASE \E final \in {"cancelled", "recovery_required"} :
             ReconcileApprovalWait(r, final)
  <2> PICK final \in {"cancelled", "recovery_required"} :
             ReconcileApprovalWait(r, final) BY <1>1
  <2> DEFINE new == Bumped([Released(run[r]) EXCEPT !.state = final, !.err = "other"])
  <2>1. /\ run' = [run EXCEPT ![r] = new]
        /\ run[r].state = "waiting_approval"
        /\ outcomes' = [outcomes EXCEPT ![r] =
                          outcomes[r] \cup {OutcomeOf(run[r], final)}]
    BY DEF ReconcileApprovalWait, AppendOutcome
  <2>2. new.wait = None BY <1>0 DEF Bumped, Released, Row
  <2> HIDE DEF new
  <2>3. Permitted(r) /\ run[r].state \notin SettledStates
    BY <1>0, <2>1 DEF Permitted
  <2> QED BY <2>1, <2>2, <2>3, OneRowEffect
<1>2. CASE \E final \in Terminal : CommitBackgroundTerminal(r, final)
  <2> PICK final \in Terminal : CommitBackgroundTerminal(r, final) BY <1>2
  <2> DEFINE new == Bumped([run[r] EXCEPT
           !.state = final,
           !.err = IF final = "completed" THEN None ELSE "other",
           !.ckpt = IF final = "completed"
                    THEN [gen |-> run[r].attempt, kind |-> FinalKind] ELSE None])
  <2>1. /\ run' = [run EXCEPT ![r] = new]
        /\ run[r].state = "waiting_provider"
        /\ outcomes' = [outcomes EXCEPT ![r] =
                          outcomes[r] \cup {OutcomeOf(run[r], final)}]
    BY DEF CommitBackgroundTerminal, AppendOutcome
  <2>2. new.wait = run[r].wait BY <1>0 DEF Bumped, Row
  <2> HIDE DEF new
  <2>3. /\ Permitted(r) /\ run[r].state \notin SettledStates
        /\ run[r].state \notin ClaimableStates
    BY <1>0, <2>1 DEF Permitted
  <2> QED BY <2>1, <2>2, <2>3, OneRowEffect
<1>3. CASE ClearCheckpoint(r)
  <2>1. Unlinked(r) /\ outcomes' = outcomes
    BY <1>0, <1>3 DEF ClearCheckpoint, Unlinked
  <2>2. \A s \in Run : s # r => run'[s] = run[s]
    BY <1>0, <1>3 DEF ClearCheckpoint
  <2> QED BY <2>1, <2>2 DEF RowEffect
<1> QED BY <1>1, <1>2, <1>3 DEF ServiceStep

\* A recovery pass writes only rows whose lease may have expired.
LEMMA RecoveryEffect ==
  ASSUME IInv, NEW e \in Reading, RecoverExpiredLeases(e)
  PROVE  \A s \in Run : RowEffect(s)
<1>1. PICK W \in RecoveryWindows :
       /\ \A r \in W : run[r].left # None
       /\ run' = [r \in Run |->
            IF r \in Expired(W, e) THEN Bumped(RecoveredRow(run[r], e))
                                   ELSE run[r]]
       /\ outcomes' = [r \in Run |->
            IF r \in Expired(W, e)
            THEN outcomes[r] \cup
                   {OutcomeOf(run[r], RecoveredRow(run[r], e).state)}
            ELSE outcomes[r]]
  BY DEF RecoverExpiredLeases
<1> TAKE s \in Run
<1>2. run[s] \in Row BY DEF IInv
<1>3. CASE s \in Expired(W, e)
  <2>1. run[s].left # None /\ run[s].left <= e
    BY <1>1, <1>3 DEF Expired, Reached
  <2>2. run[s].left \in Int /\ ~(run[s].left > ClockError)
    BY <1>2, <2>1 DEF Row, Deadline, Reading
  <2>3. Permitted(s) BY <2>2 DEF Permitted
  <2>4. run[s].state \notin SettledStates
    BY <2>1 DEF IInv, RowInv, WellFormed, SettledStates, LeasedStates,
                WorkerStates, Terminal
  <2>5. run'[s] = Bumped(RecoveredRow(run[s], e))
    BY <1>1, <1>3
  <2>6. \A code : /\ Bumped(Requeued(run[s], e, code)).state = "retry_scheduled"
    BY <1>2 DEF Bumped, Requeued, Released, Row
  <2>7. \A state, code : Bumped(Settled(run[s], state, code)).wait = None
    BY <1>2 DEF Bumped, Settled, Released, Row
  <2>8. \/ \E code : RecoveredRow(run[s], e) = Requeued(run[s], e, code)
        \/ \E state, code : RecoveredRow(run[s], e) = Settled(run[s], state, code)
    <3>1. CASE run[s].state = "leased" /\ run[s].retry >= MaxRunRetries
      BY <3>1 DEF RecoveredRow
    <3>2. CASE run[s].state = "leased" /\ ~(run[s].retry >= MaxRunRetries)
      BY <3>2 DEF RecoveredRow
    <3>3. CASE run[s].state # "leased" /\ Final(run[s])
      <4>1. RecoveredRow(run[s], e) = Settled(run[s], "completed", None)
        BY <3>3 DEF RecoveredRow, Final, Adoptable, AdoptableKinds, FinalKind
      <4> QED BY <4>1
    <3>4. CASE run[s].state # "leased" /\ ~Final(run[s]) /\ Adoptable(run[s])
      <4>1. RecoveredRow(run[s], e) =
              IF run[s].retry >= MaxRunRetries
              THEN Settled(run[s], "recovery_required", "other")
              ELSE Requeued(run[s], e, "checkpoint_adoption_ready")
        BY <3>4 DEF RecoveredRow
      <4> QED BY <4>1
    <3>5. CASE run[s].state # "leased" /\ ~Final(run[s]) /\ ~Adoptable(run[s])
      <4>1. RecoveredRow(run[s], e) = Settled(run[s], "recovery_required", "other")
        BY <3>5 DEF RecoveredRow
      <4> QED BY <4>1
    <3> QED BY <3>1, <3>2, <3>3, <3>4, <3>5
  <2>9. run'[s].wait = None \/ run'[s].state \in ClaimableStates
    BY <2>5, <2>6, <2>7, <2>8 DEF ClaimableStates
  <2> QED BY <2>3, <2>4, <2>9 DEF RowEffect, Advanced
<1>4. CASE s \notin Expired(W, e)
  BY <1>1, <1>4 DEF RowEffect
<1> QED BY <1>3, <1>4

\* Every step has one of the effects on every row.
LEMMA StepEffect ==
  ASSUME IInv, [Next]_vars
  PROVE  \A s \in Run : RowEffect(s)
<1>1. CASE \E S \in SUBSET Run : CloseBackgroundRecovery(S)
  <2> PICK S \in SUBSET Run : CloseBackgroundRecovery(S) BY <1>1
  <2> TAKE s \in Run
  <2>1. CASE s \in S
    <3>1. /\ run[s].state = "waiting_provider"
          /\ run'[s] = Bumped(ParkedRowClosed(run[s]))
      BY <2>1 DEF CloseBackgroundRecovery
    <3>2. run[s] \in Row BY DEF IInv
    <3>3. run'[s].wait = run[s].wait
      BY <3>1, <3>2 DEF Bumped, ParkedRowClosed, Row
    <3> QED BY <3>1, <3>3 DEF RowEffect, Advanced, Permitted, SettledStates,
                              WorkerStates, ClaimableStates, Terminal
  <2>2. CASE s \notin S
    BY <2>2 DEF CloseBackgroundRecovery, RowEffect
  <2> QED BY <2>1, <2>2
<1>2. CASE Tick
  BY <1>2 DEF Tick, RowEffect, Aged
<1>3. CASE \E t \in Task : Crash(t)
  BY <1>3 DEF Crash, RowEffect
<1>4. CASE UNCHANGED vars
  BY <1>4 DEF vars, RowEffect
<1> QED
  BY <1>1, <1>2, <1>3, <1>4, WorkerEffect, ServiceEffect, RecoveryEffect DEF Next

\* WaitInv holds initially and is preserved.
LEMMA InitWait == Init => WaitInv
BY DEF Init, WaitInv, QueuedRow, ClaimableStates

LEMMA StepWait ==
  ASSUME IInv, WaitInv, [Next]_vars
  PROVE  WaitInv'
<1> SUFFICES ASSUME NEW r \in Run, run'[r].state \notin ClaimableStates
             PROVE  run'[r].wait = None
  BY DEF WaitInv
<1>0. /\ RowEffect(r) /\ run[r] \in Row
      /\ run[r].state \notin ClaimableStates => run[r].wait = None
  BY StepEffect DEF IInv, WaitInv
<1>1. CASE Aged(r)
  <2>1. run'[r].wait = Later(run[r].wait) /\ run'[r].state = run[r].state
    BY <1>0, <1>1 DEF Aged, Row
  <2> QED BY <1>0, <2>1 DEF Later
<1>2. CASE Unlinked(r)
  <2>1. run'[r].wait = run[r].wait /\ run'[r].state = run[r].state
    BY <1>0, <1>2 DEF Unlinked, Bumped, Row
  <2> QED BY <1>0, <2>1
<1> QED BY <1>0, <1>1, <1>2 DEF RowEffect, Advanced

\* A row without deadlines does not age.
LEMMA NothingToAge ==
  ASSUME NEW row \in Row, row.left = None, row.wait = None
  PROVE  [row EXCEPT !.left = None, !.wait = None] = row
BY DEF Row

\* One step obeys both halves of RowIsProtected.
LEMMA StepProtects ==
  ASSUME IInv, WaitInv, [Next]_vars, NEW r \in Run
  PROVE  /\ run[r].state \in SettledStates =>
              /\ outcomes'[r] = outcomes[r]
              /\ \/ run'[r] = run[r]
                 \/ /\ run[r].state \in Terminal
                    /\ run'[r] = Bumped([run[r] EXCEPT !.ckpt = None])
         /\ /\ run[r].state \in WorkerStates
            /\ run[r].left > ClockError
            /\ run'[r].version # run[r].version
            => \E t \in Task : Matches(held[t]) /\ held[t].run = r
<1>0. RowEffect(r) /\ run[r] \in Row /\ WellFormed(run[r])
  BY StepEffect DEF IInv, RowInv
<1>1. CASE Aged(r) /\ outcomes'[r] = outcomes[r]
  <2>1. run'[r].version = run[r].version
    BY <1>0, <1>1 DEF Aged, Row
  <2>2. ASSUME run[r].state \in SettledStates PROVE run'[r] = run[r]
    <3>1. run[r].left = None
      BY <1>0, <2>2 DEF WellFormed, SettledStates, LeasedStates, WorkerStates, Terminal
    <3>2. run[r].wait = None
      BY <2>2 DEF WaitInv, SettledStates, ClaimableStates, Terminal
    <3>3. run'[r] = [run[r] EXCEPT !.left = None, !.wait = None]
      BY <1>1, <3>1, <3>2 DEF Aged, Later
    <3> QED BY <1>0, <3>1, <3>2, <3>3, NothingToAge
  <2> QED BY <1>1, <2>1, <2>2
<1>2. CASE Unlinked(r) /\ outcomes'[r] = outcomes[r]
  BY <1>2 DEF Unlinked, WorkerStates, Terminal
<1>3. CASE Advanced(r)
  BY <1>3 DEF Advanced, Permitted
<1>4. CASE run'[r] = run[r] /\ outcomes'[r] = outcomes[r]
  BY <1>4
<1> QED BY <1>0, <1>1, <1>2, <1>3, <1>4 DEF RowEffect

\* Nobody writes a row under another task's unexpired lease, and nobody writes
\* a settled row, except for retention unlinking the checkpoint of a terminal
\* one: no handler of any service, and not the passing of time.
THEOREM RowsAreProtected == Spec => RowIsProtected
<1>1. Spec => []WaitInv
  <2>1. IInv /\ WaitInv /\ [Next]_vars => WaitInv'
    BY StepWait
  <2> QED BY <2>1, InitWait, Invariance, PTL DEF Spec
<1>2. IInv /\ WaitInv /\ [Next]_vars =>
        [\A r \in Run : run[r].state \in SettledStates =>
           /\ outcomes'[r] = outcomes[r]
           /\ \/ run'[r] = run[r]
              \/ /\ run[r].state \in Terminal
                 /\ run'[r] = Bumped([run[r] EXCEPT !.ckpt = None])]_vars
  BY StepProtects
<1>3. IInv /\ WaitInv /\ [Next]_vars =>
        [\A r \in Run :
           /\ run[r].state \in WorkerStates
           /\ run[r].left > ClockError
           /\ run'[r].version # run[r].version
           => \E t \in Task : Matches(held[t]) /\ held[t].run = r]_vars
  BY StepProtects
<1> QED
  BY <1>1, <1>2, <1>3, Invariance, PTL
  DEF Spec, RowIsProtected, UnexpiredLeaseRespected, SettledForGood
---------------------------------------------------------------------------
(***************************************************************************)
(* For the clients of the run table                                        *)
(***************************************************************************)

\* A held lease is of a run.
LEMMA HeldRun ==
  ASSUME IInv, NEW t \in Task, held[t] # NoLease
  PROVE  held[t] \in Lease /\ held[t].run \in Run /\ held[t].gen \in Nat
BY DEF IInv, HeldInv, Lease

\* A fenced write leaves its task with a lease.
LEMMA WriteHolds ==
  ASSUME IInv, NEW t \in Task, NEW row, held[t] # NoLease, Write(t, row)
  PROVE  held'[t] # NoLease
<1>1. held'[t] = held[t] \/ held'[t] = LeaseOf(held[t].run, Bumped(row))
  BY DEF Write, IInv, HeldInv
<1>2. LeaseOf(held[t].run, Bumped(row)).run = held[t].run
  BY DEF LeaseOf
<1>3. NoLease.run = None
  BY DEF NoLease
<1>4. held[t].run \in Run
  BY HeldRun
<1>5. \A q \in Run : q \in Int
  BY RunAssumption
<1>6. None \notin Run
  BY <1>5, NoneAssumption
<1> QED
  BY <1>1, <1>2, <1>3, <1>4, <1>6
===========================================================================
