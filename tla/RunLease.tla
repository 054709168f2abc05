----------------------------- MODULE RunLease -----------------------------
(***************************************************************************)
(* The run table and the lease fence of src/orm_runs.rs: every write that  *)
(* the run service, the approval reconciler, the background reconciler and *)
(* session retention make to an AiRunRecord row, and the attempt outcomes  *)
(* they append with it.  Each operation is one StateMachine transaction    *)
(* that ends in a compare-and-swap on row_version, so each is one action.  *)
(*                                                                         *)
(* Orchestration tasks keep a copy of the lease they were given and the    *)
(* service trusts nothing else: the interesting interleavings are those of *)
(* tasks whose copy has gone stale.                                        *)
(*                                                                         *)
(* Time.  The service stores absolute deadlines and compares them with a   *)
(* clock it reads before the transaction starts.  A row here stores the    *)
(* time LEFT to its deadline; Tick lets it pass; every operation reads a   *)
(* clock that is wrong by some e in Reading (skew between hosts, and the   *)
(* delay between the read and the transaction), so the operation finds a   *)
(* deadline reached when left <= e and stores ttl + e.                     *)
(***************************************************************************)
EXTENDS Integers, FiniteSets, AiRunState

CONSTANTS
  Run,              \* runs, numbered in (created_at, id) order
  Task,             \* concurrent orchestration tasks
  WorkerId,         \* worker identities; tasks may share one
  None,             \* a NULL column
  LeaseTtl,         \* AiRunLimits::lease_ttl
  MaxRetryDelay,    \* AiRunLimits::maximum_retry_delay
  MaxRunRetries,    \* AiRunLimits::maximum_run_retries
  MaxCandidateScan, \* AiRunLimits::maximum_candidate_scan
  ClockError,       \* bound on the error of a clock reading
  MaxVersion        \* model bound: no voluntary renewal past this row version

ASSUME RunAssumption == Run \subseteq Nat /\ IsFiniteSet(Run)
ASSUME LimitAssumption ==
  /\ LeaseTtl \in Nat \ {0}
  /\ MaxRetryDelay \in Nat
  /\ MaxRunRetries \in Nat
  /\ MaxCandidateScan \in Nat \ {0}
  /\ ClockError \in Nat
  /\ MaxVersion \in Nat

VARIABLES
  run,       \* the run rows
  held,      \* each task's copy of its lease
  outcomes   \* the append-only attempt outcomes of each run

vars == <<run, held, outcomes>>

Reading == (-ClockError)..ClockError

(***************************************************************************)
(* Rows                                                                    *)
(***************************************************************************)

\* Checkpoint kinds a run row can link, and what recovery makes of them.
FinalKind == "assistant_output_persisted"
AdoptableKinds == {"tool_batch_persisted", "supervised_tool_batch_persisted"}
CoordinatorKinds == AdoptableKinds \cup {"provider_turn_persisted"}
CheckpointKinds == CoordinatorKinds \cup {FinalKind}

\* error_code, as far as any guard tells the codes apart.
ErrorCodes == {"checkpoint_adoption_ready", "approval_resume_claimed", "other"}

ASSUME NoneAssumption == None \notin Int \cup WorkerId \cup ErrorCodes

Deadline == Int \cup {None}
Checkpoint == [gen : Nat, kind : CheckpointKinds]

\* A NULL link is no checkpoint.
ASSUME CheckpointAssumption == None \notin Checkpoint

\* The columns of AiRunRecord that a guard reads.  attempt is the generation
\* under which the linked attempt row was inserted (0: attempt_id is NULL).
Row == [state   : AiRunStates,
        attempt : Nat,
        owner   : WorkerId \cup {None},
        gen     : Nat,
        left    : Deadline,
        retry   : Nat,
        wait    : Deadline,
        err     : ErrorCodes \cup {None},
        ckpt    : Checkpoint \cup {None},
        version : Nat]

\* A run as send_message inserts it.
QueuedRow == [state |-> "queued", attempt |-> 0, owner |-> None, gen |-> 0,
              left |-> None, retry |-> 0, wait |-> 0, err |-> None,
              ckpt |-> None, version |-> 0]

\* AiRunLease: what a task carries from one service call to the next.
Lease == [run : Run, attempt : Nat, owner : WorkerId \cup {None}, gen : Nat,
          version : Nat, state : AiRunStates, retry : Nat,
          ckpt : Checkpoint \cup {None}]

NoLease == [run |-> None]

LeaseOf(r, row) ==
  [run |-> r, attempt |-> row.attempt, owner |-> row.owner, gen |-> row.gen,
   version |-> row.version, state |-> row.state, retry |-> row.retry,
   ckpt |-> row.ckpt]

\* One appended outcome.  version tags the transaction that inserted it, so
\* that two outcomes of one attempt stay two elements of the set.
Outcome == [gen : Nat, state : AiRunStates, version : Nat]

Reached(deadline, e) == deadline <= e

Bumped(row) == [row EXCEPT !.version = @ + 1]

\* The columns every release of a lease clears.
Released(row) == [row EXCEPT !.owner = None, !.left = None, !.wait = None]

Renewed(row, e) == [row EXCEPT !.left = LeaseTtl + e]

\* Mutant: the outcome records the state before the transition.
OutcomeOfOldState(row, state) ==
  [gen |-> row.attempt, state |-> row.state, version |-> row.version]

OutcomeOf(row, state) ==
  [gen |-> row.attempt, state |-> state, version |-> row.version]

(***************************************************************************)
(* The fence                                                               *)
(***************************************************************************)

\* Mutant: the fence compares the lease identity but not the row version.
MatchesIdentity(l) ==
  /\ l # NoLease
  /\ l.attempt = run[l.run].attempt
  /\ l.owner = run[l.run].owner
  /\ l.gen = run[l.run].gen

\* load_and_validate_active_lease, up to the expiry: the row still shows
\* everything the task's copy shows.
Matches(l) ==
  /\ l # NoLease
  /\ l = LeaseOf(l.run, run[l.run])

Fenced(t, e) ==
  /\ Matches(held[t])
  /\ run[held[t].run].left # None
  /\ ~Reached(run[held[t].run].left, e)

MyRow(t) == run[held[t].run]

\* A fenced write of row by task t.  The reply that carries the new lease may
\* be lost after the commit: the task then keeps a stale copy.
Write(t, row) ==
  LET r == held[t].run IN
  /\ run' = [run EXCEPT ![r] = Bumped(row)]
  /\ \/ held' = [held EXCEPT ![t] = LeaseOf(r, Bumped(row))]
     \/ UNCHANGED held

\* A fenced write that ends the lease.
GiveUp(t, row) ==
  /\ run' = [run EXCEPT ![held[t].run] = Bumped(row)]
  /\ \/ held' = [held EXCEPT ![t] = NoLease]
     \/ UNCHANGED held

\* append_attempt_outcome, in the transaction that closes the attempt.
AppendOutcome(r, state) ==
  outcomes' = [outcomes EXCEPT ![r] = @ \cup {OutcomeOf(run[r], state)}]

Conclude(t, row) == GiveUp(t, row) /\ AppendOutcome(held[t].run, row.state)

Renewable(row) == row.version < MaxVersion
---------------------------------------------------------------------------
(***************************************************************************)
(* Claiming                                                                *)
(***************************************************************************)

InState(s) == {r \in Run : run[r].state = s}

\* What a query for state s with the candidate limit may return: the query
\* states no order, so any MaxCandidateScan of the rows.
Scans(s) ==
  {W \in SUBSET InState(s) :
     IF Cardinality(InState(s)) <= MaxCandidateScan
     THEN W = InState(s)
     ELSE Cardinality(W) = MaxCandidateScan}

Eligible(row, e) == row.wait = None \/ Reached(row.wait, e)

Claimable(row) ==
  /\ row.attempt = 0 /\ row.owner = None /\ row.left = None
  /\ row.err = "checkpoint_adoption_ready" => row.ckpt # None

\* Mutant: a claim keeps whatever checkpoint the row links.
ClaimedRowKeepsCheckpoint(row, w, e) ==
  [Renewed(row, e) EXCEPT
     !.state = "leased", !.attempt = row.gen + 1, !.gen = row.gen + 1,
     !.owner = w, !.wait = None, !.err = None]

ClaimedRow(row, w, e) ==
  [Renewed(row, e) EXCEPT
     !.state = "leased", !.attempt = row.gen + 1, !.gen = row.gen + 1,
     !.owner = w, !.wait = None, !.err = None,
     !.ckpt = IF row.err = "checkpoint_adoption_ready" THEN row.ckpt ELSE None]

\* claim_next: the oldest eligible row of the two scans.
ClaimNext(t, w, e) ==
  /\ held[t] = NoLease
  /\ \E Q \in Scans("queued"), S \in Scans("retry_scheduled") :
       LET ready == {r \in Q \cup S : Eligible(run[r], e)} IN
       \E r \in ready :
         /\ \A s \in ready : r <= s
         /\ Claimable(run[r])
         /\ run' = [run EXCEPT ![r] = Bumped(ClaimedRow(run[r], w, e))]
         /\ \/ held' = [held EXCEPT ![t] =
                          LeaseOf(r, Bumped(ClaimedRow(run[r], w, e)))]
            \/ UNCHANGED held
  /\ UNCHANGED outcomes

(***************************************************************************)
(* A worker's operations under its lease                                   *)
(***************************************************************************)

Heartbeat(t, e) ==
  /\ Fenced(t, e)
  /\ MyRow(t).state \in {"leased", "running"}
  /\ Renewable(MyRow(t))
  /\ Write(t, Renewed(MyRow(t), e))
  /\ UNCHANGED outcomes

Start(t, e) ==
  /\ Fenced(t, e)
  /\ MyRow(t).state = "leased"
  /\ Write(t, [Renewed(MyRow(t), e) EXCEPT !.state = "running"])
  /\ UNCHANGED outcomes

\* finish (and close_ambiguity, with final = recovery_required).
Finish(t, e, final, code) ==
  /\ Fenced(t, e)
  /\ final = "completed" => code = None
  /\ CanTransitionTo(MyRow(t).state, final)
  /\ Conclude(t, [Released(MyRow(t)) EXCEPT !.state = final, !.err = code])

ScheduleRetry(t, e, delay) ==
  /\ Fenced(t, e)
  /\ MyRow(t).retry < MaxRunRetries
  /\ CanTransitionTo(MyRow(t).state, "retry_scheduled")
  /\ Conclude(t, [Released(MyRow(t)) EXCEPT
                    !.state = "retry_scheduled", !.attempt = 0,
                    !.retry = @ + 1, !.wait = delay + e, !.err = "other"])

\* append_coordinator_checkpoint and append_provider_output: link a new
\* checkpoint of this attempt.
LinkCheckpoint(t, e, kind) ==
  /\ Fenced(t, e)
  /\ MyRow(t).state = "running"
  /\ Renewable(MyRow(t))
  /\ Write(t, [Renewed(MyRow(t), e) EXCEPT
                 !.ckpt = [gen |-> MyRow(t).attempt, kind |-> kind]])
  /\ UNCHANGED outcomes

\* consume_adoption_checkpoint: unlink the batch an adopter has validated.
ConsumeAdoptionCheckpoint(t, e) ==
  /\ Fenced(t, e)
  /\ MyRow(t).state = "running"
  /\ MyRow(t).ckpt # None
  /\ MyRow(t).ckpt.kind \in AdoptableKinds
  /\ Write(t, [Renewed(MyRow(t), e) EXCEPT !.ckpt = None])
  /\ UNCHANGED outcomes
---------------------------------------------------------------------------
(***************************************************************************)
(* Waiting for a person                                                    *)
(***************************************************************************)

RequestApproval(t, e) ==
  /\ Fenced(t, e)
  /\ MyRow(t).state = "running"
  /\ Renewable(MyRow(t))
  /\ Write(t, [Renewed(MyRow(t), e) EXCEPT !.state = "waiting_approval"])
  /\ UNCHANGED outcomes

\* claim_next_approved, for the run of the approval it picks.  The attempt and
\* its generation go on; only the owner changes.
ClaimApproved(t, w, e, r) ==
  /\ held[t] = NoLease
  /\ run[r].state = "waiting_approval"
  /\ run[r].err = None
  /\ LET row == [Renewed(run[r], e) EXCEPT
                   !.state = "waiting_tool", !.owner = w,
                   !.err = "approval_resume_claimed"]
     IN /\ run' = [run EXCEPT ![r] = Bumped(row)]
        /\ \/ held' = [held EXCEPT ![t] = LeaseOf(r, Bumped(row))]
           \/ UNCHANGED held
  /\ UNCHANGED outcomes

ConsumeApproval(t, e) ==
  /\ Fenced(t, e)
  /\ MyRow(t).state \in {"waiting_approval", "waiting_tool"}
  /\ Write(t, [Renewed(MyRow(t), e) EXCEPT !.state = "running", !.err = None])
  /\ UNCHANGED outcomes

\* reconcile_approval_wait: close a wait nobody resumed.  No lease is needed.
ReconcileApprovalWait(r, final) ==
  /\ run[r].state = "waiting_approval"
  /\ run' = [run EXCEPT ![r] =
       Bumped([Released(@) EXCEPT !.state = final, !.err = "other"])]
  /\ AppendOutcome(r, final)
  /\ UNCHANGED held

(***************************************************************************)
(* Waiting for the provider (src/orm_background.rs)                        *)
(***************************************************************************)

\* accept: the provider runs the turn; the lease is released, the attempt
\* stays open.
AcceptBackground(t, e) ==
  /\ Fenced(t, e)
  /\ MyRow(t).state = "running"
  /\ GiveUp(t, [Released(MyRow(t)) EXCEPT !.state = "waiting_provider",
                                          !.err = None])
  /\ UNCHANGED outcomes

\* commit_background_terminal_graph.
CommitBackgroundTerminal(r, final) ==
  LET row == [run[r] EXCEPT
                !.state = final,
                !.err = IF final = "completed" THEN None ELSE "other",
                !.ckpt = IF final = "completed"
                         THEN [gen |-> run[r].attempt, kind |-> FinalKind] ELSE None]
  IN
  /\ run[r].state = "waiting_provider"
  /\ run[r].err = None /\ run[r].ckpt = None
  /\ run' = [run EXCEPT ![r] = Bumped(row)]
  /\ AppendOutcome(r, final)
  /\ UNCHANGED held

ParkedRowClosed(row) ==
  [row EXCEPT !.state = "recovery_required", !.err = "other"]

\* close_background_recovery, of the one run whose claim gives up or, in one
\* transaction of close_expired, of a batch.
CloseBackgroundRecovery(S) ==
  /\ S # {}
  /\ \A r \in S : run[r].state = "waiting_provider" /\ run[r].err = None
  /\ run' = [r \in Run |->
       IF r \in S THEN Bumped(ParkedRowClosed(run[r])) ELSE run[r]]
  /\ outcomes' = [r \in Run |->
       IF r \in S THEN outcomes[r] \cup {OutcomeOf(run[r], "recovery_required")}
                  ELSE outcomes[r]]
  /\ UNCHANGED held
---------------------------------------------------------------------------
(***************************************************************************)
(* Recovery of expired leases                                              *)
(***************************************************************************)

\* Mutant: resumed approvals are not recovered.
RecoverableStatesWithoutTools == {"leased", "running", "waiting_reauth"}

RecoverableStates == {"leased", "running", "waiting_tool", "waiting_reauth"}

Recoverable == UNION {InState(s) : s \in RecoverableStates}

\* The rows one pass looks at: up to MaxCandidateScan rows of each state, the
\* oldest MaxCandidateScan of those.  Expiry is looked at afterwards.
RecoveryWindows ==
  {{r \in P : Cardinality({q \in P : q < r}) < MaxCandidateScan} :
     P \in {Q \in SUBSET Recoverable :
              \A s \in RecoverableStates : Q \cap InState(s) \in Scans(s)}}

Final(row) == row.ckpt # None /\ row.ckpt.kind = FinalKind
Adoptable(row) == row.ckpt # None /\ row.ckpt.kind \in AdoptableKinds

\* The checks whose failure fails the whole pass.
WellFormedExpired(row) ==
  /\ row.ckpt # None => row.ckpt.gen = row.gen
  /\ Final(row) \/ Adoptable(row) => row.state = "running"

Requeued(row, e, code) ==
  [Released(row) EXCEPT !.state = "retry_scheduled", !.attempt = 0,
                        !.retry = @ + 1, !.wait = e, !.err = code]

Settled(row, state, code) ==
  [Released(row) EXCEPT !.state = state, !.attempt = 0, !.err = code]

\* Mutant: adoption is retried without a ceiling.
RecoveredRowUnbounded(row, e) ==
  CASE row.state = "leased" ->
         IF row.retry >= MaxRunRetries
         THEN Settled(row, "failed", "other")
         ELSE Requeued(row, e, "other")
    [] row.state # "leased" /\ Final(row) -> Settled(row, "completed", None)
    [] row.state # "leased" /\ Adoptable(row) ->
         Requeued(row, e, "checkpoint_adoption_ready")
    [] OTHER -> Settled(row, "recovery_required", "other")

RecoveredRow(row, e) ==
  CASE row.state = "leased" ->
         IF row.retry >= MaxRunRetries
         THEN Settled(row, "failed", "other")
         ELSE Requeued(row, e, "other")
    [] row.state # "leased" /\ Final(row) -> Settled(row, "completed", None)
    [] row.state # "leased" /\ Adoptable(row) ->
         IF row.retry >= MaxRunRetries
         THEN Settled(row, "recovery_required", "other")
         ELSE Requeued(row, e, "checkpoint_adoption_ready")
    [] OTHER -> Settled(row, "recovery_required", "other")

\* Mutant: the pass recovers its whole window.
ExpiredWindow(W, e) == W

Expired(W, e) == {r \in W : Reached(run[r].left, e)}

RecoverExpiredLeases(e) ==
  /\ \E W \in RecoveryWindows :
       /\ \A r \in W : run[r].left # None
       /\ Expired(W, e) # {}
       /\ \A r \in Expired(W, e) : WellFormedExpired(run[r])
       /\ run' = [r \in Run |->
            IF r \in Expired(W, e) THEN Bumped(RecoveredRow(run[r], e))
                                   ELSE run[r]]
       /\ outcomes' = [r \in Run |->
            IF r \in Expired(W, e)
            THEN outcomes[r] \cup
                   {OutcomeOf(run[r], RecoveredRow(run[r], e).state)}
            ELSE outcomes[r]]
  /\ UNCHANGED held

(***************************************************************************)
(* Retention, time and crashes                                             *)
(***************************************************************************)

\* Session retention unlinks the checkpoint of a terminal run.
ClearCheckpoint(r) ==
  /\ run[r].state \in Terminal
  /\ run[r].ckpt # None
  /\ run[r].ckpt.gen = run[r].gen
  /\ run' = [run EXCEPT ![r] = Bumped([@ EXCEPT !.ckpt = None])]
  /\ UNCHANGED <<held, outcomes>>

\* Past -ClockError a deadline is reached on every clock.
Later(d) == IF d = None THEN None ELSE IF d > -ClockError THEN d - 1 ELSE d

Tick ==
  /\ run' = [r \in Run |-> [run[r] EXCEPT !.left = Later(@), !.wait = Later(@)]]
  /\ UNCHANGED <<held, outcomes>>

\* A task crashes, or drops a lease the service told it is lost.
Crash(t) ==
  /\ held[t] # NoLease
  /\ held' = [held EXCEPT ![t] = NoLease]
  /\ UNCHANGED <<run, outcomes>>
---------------------------------------------------------------------------
Init ==
  /\ run = [r \in Run |-> QueuedRow]
  /\ held = [t \in Task |-> NoLease]
  /\ outcomes = [r \in Run |-> {}]

WorkerStep(t, e) ==
  \/ \E w \in WorkerId : ClaimNext(t, w, e)
  \/ \E w \in WorkerId, r \in Run : ClaimApproved(t, w, e, r)
  \/ Heartbeat(t, e)
  \/ Start(t, e)
  \/ \E final \in CompletionStates, code \in {None, "other"} :
       Finish(t, e, final, code)
  \/ \E delay \in 0..MaxRetryDelay : ScheduleRetry(t, e, delay)
  \/ \E kind \in CheckpointKinds : LinkCheckpoint(t, e, kind)
  \/ ConsumeAdoptionCheckpoint(t, e)
  \/ RequestApproval(t, e)
  \/ ConsumeApproval(t, e)
  \/ AcceptBackground(t, e)

ServiceStep(r) ==
  \/ \E final \in {"cancelled", "recovery_required"} :
       ReconcileApprovalWait(r, final)
  \/ \E final \in Terminal : CommitBackgroundTerminal(r, final)
  \/ ClearCheckpoint(r)

Next ==
  \/ \E t \in Task, e \in Reading : WorkerStep(t, e)
  \/ \E r \in Run : ServiceStep(r)
  \/ \E S \in SUBSET Run : CloseBackgroundRecovery(S)
  \/ \E e \in Reading : RecoverExpiredLeases(e)
  \/ \E t \in Task : Crash(t)
  \/ Tick

Spec == Init /\ [][Next]_vars

\* Time passes, and the host keeps calling recover_expired_leases.
FairSpec == /\ Spec
            /\ WF_vars(Tick)
            /\ WF_vars(\E e \in Reading : RecoverExpiredLeases(e))
---------------------------------------------------------------------------
(***************************************************************************)
(* Properties                                                              *)
(***************************************************************************)

TypeOK ==
  /\ run \in [Run -> Row]
  /\ held \in [Task -> Lease \cup {NoLease}]
  /\ outcomes \in [Run -> SUBSET Outcome]

ClaimableStates == {"queued", "retry_scheduled"}
WorkerStates == {"leased", "running", "waiting_tool"}
LeasedStates == WorkerStates \cup {"waiting_approval"}
SettledStates == Terminal \cup {"recovery_required"}

WellFormed(row) ==
  /\ row.state # "waiting_reauth"
  /\ row.state = "queued" => row.gen = 0
  /\ row.err = "checkpoint_adoption_ready" => row.state = "retry_scheduled"
  /\ row.state \in ClaimableStates => Claimable(row)
  /\ row.state \in LeasedStates =>
       row.attempt = row.gen /\ row.owner # None /\ row.left # None
  /\ row.state = "waiting_provider" => row.attempt = row.gen /\ row.err = None
  /\ row.state \notin LeasedStates => row.owner = None /\ row.left = None

\* No operation leaves a row behind that a later one rejects as malformed:
\* claim_next would refuse a waiting row with a lease, recover_expired_leases a
\* leased row without an expiry, lease_from_record one without an attempt.
RowWellFormed == \A r \in Run : WellFormed(run[r])

\* The fence: whatever copies of leases tasks keep, across lost replies,
\* handovers and shared worker ids, at most one of them can still write a row.
FenceExclusive ==
  \A t, u \in Task :
    Matches(held[t]) /\ Matches(held[u]) /\ held[t].run = held[u].run => t = u

\* The number of attempts of a run that have ended.
EndedAttempts(row) ==
  IF row.state \in ClaimableStates \cup SettledStates
  THEN row.gen ELSE row.gen - 1

\* "At most one outcome exists" for an attempt, and every attempt but the
\* open one has it: no path ends an attempt silently or twice.
OneOutcomePerAttempt ==
  \A r \in Run :
    /\ \A o, p \in outcomes[r] : o.gen = p.gen => o = p
    /\ {o.gen : o \in outcomes[r]} = 1..EndedAttempts(run[r])

\* The outcomes tell the run's history: every attempt before the last was
\* requeued, and the last one ended in the state the row is in now.
OutcomesTellHistory ==
  \A r \in Run : \A o \in outcomes[r] :
    o.state = IF o.gen = run[r].gen THEN run[r].state ELSE "retry_scheduled"

PaidAttempts(row) ==
  /\ row.retry <= MaxRunRetries
  /\ row.gen = IF row.state \in ClaimableStates THEN row.retry ELSE row.retry + 1

\* A run is attempted at most MaxRunRetries + 1 times, by whatever mix of
\* recovery and schedule_retry: each new attempt is paid for by a retry.
AttemptsBounded == \A r \in Run : PaidAttempts(run[r])

Lineage(row) ==
  row.ckpt # None =>
    /\ row.ckpt.gen <= row.gen
    /\ row.ckpt.gen < row.gen => row.ckpt.kind \in AdoptableKinds
    /\ row.err = "checkpoint_adoption_ready" => row.ckpt.kind \in AdoptableKinds

\* A checkpoint that an earlier attempt wrote is visible to a later one only
\* if it is a completed tool batch that recovery offered for adoption.
OnlyBatchesAreHandedOver == \A r \in Run : Lineage(run[r])

\* A settled run stays as it is, down to its error code: no stale task,
\* reconciler or recovery pass revives it or records another outcome.  Only
\* retention touches it, to unlink a checkpoint once the run is terminal; what a
\* recovery_required run leaves for an operator is never taken away.
SettledForGood ==
  [][\A r \in Run : run[r].state \in SettledStates =>
       /\ outcomes'[r] = outcomes[r]
       /\ \/ run'[r] = run[r]
          \/ /\ run[r].state \in Terminal
             /\ run'[r] = Bumped([run[r] EXCEPT !.ckpt = None])]_vars

\* While a worker's lease has not expired on any clock, only the task that
\* holds the current copy writes the row.
UnexpiredLeaseRespected ==
  [][\A r \in Run :
       /\ run[r].state \in WorkerStates
       /\ run[r].left > ClockError
       /\ run'[r].version # run[r].version
       => \E t \in Task : Matches(held[t]) /\ held[t].run = r]_vars

\* No task can write the row any more: its worker crashed or lost its lease.
Abandoned(r) ==
  /\ run[r].state \in WorkerStates
  /\ ~\E t \in Task : Matches(held[t]) /\ held[t].run = r

\* The passes fail as a whole on this row.
Poisoned(r) ==
  /\ run[r].state \in WorkerStates
  /\ ~WellFormedExpired(run[r])

\* An abandoned run is recovered, unless some run poisons the passes.
AbandonedIsRecovered ==
  \A r \in Run : Abandoned(r) ~> (~Abandoned(r) \/ \E q \in Run : Poisoned(q))

\* "A Leased claim is known not to have started provider orchestration and can
\* be requeued": an abandoned claim does not stay leased for ever.
LeasedClaimIsRequeued ==
  \A r \in Run : (Abandoned(r) /\ run[r].state = "leased")
                     ~> (run[r].state # "leased")

\* Nobody writes a row that is another's or that is over: neither under a lease
\* that is alive on every clock, nor once the run is settled.
RowIsProtected == UnexpiredLeaseRespected /\ SettledForGood
===========================================================================
