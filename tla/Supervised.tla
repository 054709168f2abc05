---------------------------- MODULE Supervised ----------------------------
(***************************************************************************)
(* Human-approved mutations: the supervised coordinator of                 *)
(* src/orm_supervised_coordinator.rs and src/orm_supervised.rs, the        *)
(* consequential tool service of src/orm_tools.rs, the approval service    *)
(* and the live wait reconciler of src/orm_approvals.rs, and the           *)
(* transactions of src/orm_runs.rs they end in.                            *)
(*                                                                         *)
(* The run table is that of RunLease: every action here that touches a run *)
(* is an action of RunLease together with what it does to the tool call    *)
(* and the approval in the same transaction.                               *)
(*                                                                         *)
(* request_approval binds a fresh approval to a call that has none, so an  *)
(* approval is named by its call.                                          *)
(***************************************************************************)
EXTENDS RunLease

CONSTANTS
  Call,         \* tool calls that may be staged (a model bound)
  ApprovalTtl   \* AiSupervisedAgentCoordinatorLimits::approval_ttl

ASSUME SupervisedAssumption ==
  /\ ApprovalTtl \in Nat \ {0}
  /\ None \notin Call

VARIABLES
  wk,        \* where each task is in the coordinator, and the call it handles
  call,      \* tool call rows (and their run steps)
  approval,  \* approval rows
  active,    \* the session is active
  snap,      \* what the wait reconciler has read
  ran        \* how often the resolver of each call has been invoked

calls == <<call, approval>>
svars == <<run, held, outcomes, wk, call, approval, active, snap, ran>>

\* Where a task is.  A "lost" task has been told that its write failed.
PC == {"idle", "leased", "plan", "turn", "stage", "staged", "waiting",
       "resume", "exec", "effect", "batch", "output", "done", "lost"}

Idle == [pc |-> "idle", call |-> None, direct |-> FALSE]

NoCall == [state |-> "none", run |-> None, gen |-> 0]
ClosedCall == {"approval_denied", "approval_revoked", "approval_expired"}
CallStates ==
  {"none", "executing", "waiting_approval", "completed"} \cup ClosedCall

NoApproval == [state |-> "none", left |-> 0]
Withdrawn == {"denied", "revoked", "expired"}
ApprovalStates ==
  {"none", "pending", "approved", "resume_claimed", "consumed"} \cup Withdrawn

NoSnap == [run |-> None]

\* Calls of a run that wait under its current generation.
Waiting(r) ==
  {c \in Call : /\ call[c].state = "waiting_approval"
                /\ call[c].run = r
                /\ call[c].gen = run[r].gen}

CallOf(t) == wk[t].call

At(t, pcs) == wk[t].pc \in pcs

\* The task goes on at pc if the reply of its write arrived.
Goes(t, pc) ==
  wk' = [wk EXCEPT ![t].pc = IF held'[t] = held[t] THEN "lost" ELSE pc]

\* The task returns; without the reply it first has to notice.
Returns(t) ==
  wk' = [wk EXCEPT ![t] = IF held'[t] = NoLease THEN Idle
                          ELSE [@ EXCEPT !.pc = "lost"]]

SetCall(c, state) == call' = [call EXCEPT ![c].state = state]
SetApproval(c, state) == approval' = [approval EXCEPT ![c].state = state]
---------------------------------------------------------------------------
(***************************************************************************)
(* A claimed run, up to the point where it waits for a person              *)
(***************************************************************************)

Claim(t, w, e) ==
  /\ At(t, {"idle"})
  /\ ClaimNext(t, w, e)
  /\ wk' = IF held'[t] = NoLease THEN wk ELSE [wk EXCEPT ![t].pc = "leased"]
  /\ UNCHANGED <<call, approval, active, snap, ran>>

StartRun(t, e) ==
  /\ At(t, {"leased"})
  /\ Start(t, e)
  /\ Goes(t, "plan")
  /\ UNCHANGED <<call, approval, active, snap, ran>>

\* execute_turn, before transport: an adopted batch is consumed first.
BeginTurn(t, e) ==
  /\ At(t, {"plan"})
  /\ IF held[t].ckpt # None /\ held[t].ckpt.kind \in AdoptableKinds
     THEN ConsumeAdoptionCheckpoint(t, e) /\ Goes(t, "turn")
     ELSE UNCHANGED vars /\ wk' = [wk EXCEPT ![t].pc = "turn"]
  /\ UNCHANGED <<call, approval, active, snap, ran>>

\* The provider works; the coordinator keeps the lease alive.
TurnHeartbeat(t, e) ==
  /\ At(t, {"turn"})
  /\ Heartbeat(t, e)
  /\ Goes(t, "turn")
  /\ UNCHANGED <<call, approval, active, snap, ran>>

\* Mutant: a turn that asked for a tool is not checkpointed.
PersistFinalTurnOnly(t, e, next) ==
  /\ At(t, {"turn"})
  /\ IF next = "output" THEN LinkCheckpoint(t, e, "provider_turn_persisted")
                        ELSE Heartbeat(t, e)
  /\ Goes(t, next)
  /\ UNCHANGED <<call, approval, active, snap, ran>>

\* persist_provider_turn, for a turn that asked for a tool or was the last.
PersistProviderTurn(t, e, next) ==
  /\ At(t, {"turn"})
  /\ LinkCheckpoint(t, e, "provider_turn_persisted")
  /\ Goes(t, next)
  /\ UNCHANGED <<call, approval, active, snap, ran>>

\* begin_tool_call: checks the fence but does not write the run.
BeginToolCall(t, e, c) ==
  /\ At(t, {"stage"})
  /\ Fenced(t, e)
  /\ MyRow(t).state = "running"
  /\ active
  /\ call[c] = NoCall
  /\ call' = [call EXCEPT ![c] =
       [state |-> "executing", run |-> held[t].run, gen |-> held[t].gen]]
  /\ \/ wk' = [wk EXCEPT ![t] = [@ EXCEPT !.pc = "staged", !.call = c]]
     \/ wk' = [wk EXCEPT ![t].pc = "lost"]
  /\ UNCHANGED <<run, held, outcomes, approval, active, snap, ran>>

Request(t, e) ==
  LET c == CallOf(t) IN
  /\ At(t, {"staged"})
  /\ RequestApproval(t, e)
  /\ active
  /\ call[c].state = "executing" /\ approval[c] = NoApproval
  /\ SetCall(c, "waiting_approval")
  /\ approval' = [approval EXCEPT ![c] =
       [state |-> "pending", left |-> ApprovalTtl + e]]
  /\ Goes(t, "waiting")
  /\ UNCHANGED <<active, snap, ran>>

\* persist_output: the assistant message and its final checkpoint.
PersistOutput(t, e) ==
  /\ At(t, {"output"})
  /\ LinkCheckpoint(t, e, FinalKind)
  /\ Goes(t, "done")
  /\ UNCHANGED <<call, approval, active, snap, ran>>

\* Mutant: a resolver that fails or times out fails the run.
EndingsFailEffects(pc) ==
  CASE pc \in {"plan", "stage", "exec", "effect"} -> {"failed", "recovery_required"}
    [] pc \in {"turn", "staged", "output", "batch"} -> {"recovery_required"}
    [] pc = "done" -> {"completed"}
    [] OTHER -> {}

\* How the coordinator may end a run from where it is: finish_failed before an
\* external boundary, finish_recovery after it, completed at the end.
Endings(pc) ==
  CASE pc \in {"plan", "stage"} -> {"failed", "recovery_required"}
    [] pc \in {"turn", "staged", "output", "exec", "effect", "batch"} ->
         {"recovery_required"}
    [] pc = "done" -> {"completed"}
    [] OTHER -> {}

End(t, e) ==
  /\ \E final \in Endings(wk[t].pc) :
       Finish(t, e, final, IF final = "completed" THEN None ELSE "other")
  /\ Returns(t)
  /\ UNCHANGED <<call, approval, active, snap, ran>>

\* The task crashes, or returns with an error and drops its lease.
Drop(t) ==
  /\ Crash(t)
  /\ wk' = [wk EXCEPT ![t] = Idle]
  /\ UNCHANGED <<call, approval, active, snap, ran>>
---------------------------------------------------------------------------
(***************************************************************************)
(* The person                                                              *)
(***************************************************************************)

\* transition_decision: neither the run nor the tool call is looked at.
Decide(c, e, from, to) ==
  /\ approval[c].state \in from
  /\ ~Reached(approval[c].left, e)
  /\ SetApproval(c, to)
  /\ UNCHANGED <<run, held, outcomes, wk, call, active, snap, ran>>

DecideApproval(c, e) ==
  \E to \in {"approved", "denied"} : Decide(c, e, {"pending"}, to)

RevokeApproval(c, e) == Decide(c, e, {"approved", "resume_claimed"}, "revoked")

\* archive_session, unarchive_session, delete_session as far as the guards
\* here tell them apart.
ToggleSession ==
  /\ active' = ~active
  /\ UNCHANGED <<run, held, outcomes, wk, call, approval, snap, ran>>
---------------------------------------------------------------------------
(***************************************************************************)
(* Resuming an approved call                                               *)
(***************************************************************************)

\* The guards whose failure makes claim_next_approved return an error.
Resumable(c) ==
  /\ call[c].state = "waiting_approval"
  /\ run[call[c].run].state = "waiting_approval"
  /\ run[call[c].run].gen = call[c].gen
  /\ run[call[c].run].err = None

Approved == {c \in Call : approval[c].state = "approved"}

\* claim_next_approved walks the approved rows it fetched: expired ones are
\* marked on the way, the first other one is claimed, and a malformed one
\* rolls everything back.
ClaimNextApproved(t, w, e) ==
  LET expired == {c \in Approved : Reached(approval[c].left, e)} IN
  /\ At(t, {"idle"})
  /\ \E passed \in SUBSET expired, c \in Approved \ expired :
       /\ Resumable(c)
       /\ ClaimApproved(t, w, e, call[c].run)
       /\ approval' = [d \in Call |->
            IF d \in passed THEN [approval[d] EXCEPT !.state = "expired"]
            ELSE IF d = c THEN [approval[d] EXCEPT !.state = "resume_claimed"]
            ELSE approval[d]]
       /\ wk' = IF held'[t] = NoLease THEN wk
                ELSE [wk EXCEPT ![t] = [pc |-> "resume", call |-> c,
                                        direct |-> FALSE]]
  /\ UNCHANGED <<call, active, snap, ran>>

\* claim_next_approved that finds only expired rows.
ExpireApproved(e) ==
  /\ Approved # {}
  /\ \A c \in Approved : Reached(approval[c].left, e)
  /\ approval' = [d \in Call |->
       IF d \in Approved THEN [approval[d] EXCEPT !.state = "expired"]
                         ELSE approval[d]]
  /\ UNCHANGED <<run, held, outcomes, wk, call, active, snap, ran>>

Consumable(c, e) ==
  /\ approval[c].state \in {"approved", "resume_claimed"}
  /\ ~Reached(approval[c].left, e)

\* consume_approval, by the task that resumed the call or by the one that
\* staged it and still holds the waiting lease.
Consume(t, e) ==
  LET c == CallOf(t) IN
  /\ At(t, {"resume", "waiting"})
  /\ ConsumeApproval(t, e)
  /\ active
  /\ call[c].state = "waiting_approval" /\ call[c].gen = held[t].gen
  /\ Consumable(c, e)
  /\ SetApproval(c, "consumed")
  /\ SetCall(c, "executing")
  /\ wk' = [wk EXCEPT ![t] =
       [@ EXCEPT !.pc = IF held'[t] = held[t] THEN "lost" ELSE "exec",
                 !.direct = wk[t].pc = "waiting"]]
  /\ UNCHANGED <<active, snap, ran>>

\* Mutant: a resolver that times out is invoked again.
ExecuteWithRetry(t) ==
  /\ At(t, {"exec"})
  /\ ran' = [ran EXCEPT ![CallOf(t)] = @ + 1]
  /\ \/ wk' = [wk EXCEPT ![t].pc = "effect"]
     \/ UNCHANGED wk
  /\ UNCHANGED <<run, held, outcomes, call, approval, active, snap>>

\* execute_approved_tool: the resolver runs outside every transaction.
ExecuteApprovedTool(t) ==
  /\ At(t, {"exec"})
  /\ ran' = [ran EXCEPT ![CallOf(t)] = @ + 1]
  /\ wk' = [wk EXCEPT ![t].pc = "effect"]
  /\ UNCHANGED <<run, held, outcomes, call, approval, active, snap>>

\* finish_tool_call: the result is recorded and the lease renewed.  Only a
\* resumed call is then checkpointed as a batch.
FinishToolCall(t, e) ==
  /\ At(t, {"effect"})
  /\ MyRow(t).state = "running"
  /\ Heartbeat(t, e)
  /\ active
  /\ call[CallOf(t)].state = "executing"
  /\ SetCall(CallOf(t), "completed")
  /\ Goes(t, IF wk[t].direct THEN "plan" ELSE "batch")
  /\ UNCHANGED <<approval, active, snap, ran>>

\* persist_supervised_tool_batch; the same worker then adopts the batch.
PersistBatch(t, e) ==
  /\ At(t, {"batch"})
  /\ call[CallOf(t)].state = "completed"
  /\ approval[CallOf(t)].state = "consumed"
  /\ LinkCheckpoint(t, e, "supervised_tool_batch_persisted")
  /\ Goes(t, "plan")
  /\ UNCHANGED <<call, approval, active, snap, ran>>
---------------------------------------------------------------------------
(***************************************************************************)
(* The wait reconciler                                                     *)
(***************************************************************************)

\* load_candidates, in a transaction of its own.
LoadCandidate(r) ==
  /\ snap = NoSnap
  /\ run[r].state = "waiting_approval"
  /\ snap' = [run |-> r, version |-> run[r].version, call |-> None,
              seen |-> "none", close |-> FALSE]
  /\ UNCHANGED <<run, held, outcomes, wk, call, approval, active, ran>>

\* approval_wait_linkage_is_valid: the one waiting call of the run's
\* generation, under the checkpoint of its provider turn.
Linked(r) ==
  /\ Cardinality(Waiting(r)) = 1
  /\ run[r].ckpt = [gen |-> run[r].gen, kind |-> "provider_turn_persisted"]
  /\ \A c \in Waiting(r) : approval[c].state # "consumed"

\* The state in which a cancelled wait leaves its call, by its approval's.
Closes == [denied |-> "approval_denied", revoked |-> "approval_revoked",
           expired |-> "approval_expired", pending |-> "approval_expired",
           approved |-> "approval_expired"]

\* Mutant: an expired approval does not end the wait.
MayWaitOnUnexpiring(c, e) ==
  approval[c].state \in {"pending", "approved"} /\ active

\* The wait may go on, if cutoff and deployment policy agree.
MayWaitOn(c, e) ==
  /\ approval[c].state \in {"pending", "approved"}
  /\ active
  /\ ~Reached(approval[c].left, e)

\* load_snapshot and the decision.  (It is made on the run row read before; if
\* that has changed, the write below will notice.)
LoadSnapshot(e) ==
  LET r == snap.run IN
  /\ snap # NoSnap /\ ~snap.close
  /\ IF Linked(r)
     THEN \E c \in Waiting(r) :
            \/ MayWaitOn(c, e) /\ snap' = NoSnap
            \/ /\ approval[c].state \in DOMAIN Closes
               /\ snap' = [snap EXCEPT !.call = c, !.close = TRUE,
                                       !.seen = approval[c].state]
            \/ /\ approval[c].state \notin DOMAIN Closes
               /\ snap' = [snap EXCEPT !.close = TRUE]
     ELSE snap' = [snap EXCEPT !.close = TRUE]
  /\ UNCHANGED <<run, held, outcomes, wk, call, approval, active, ran>>

\* Rows that changed since they were read lose the race.
Current ==
  /\ run[snap.run].version = snap.version
  /\ snap.call # None =>
       /\ call[snap.call].state = "waiting_approval"
       /\ approval[snap.call].state = snap.seen

\* Mutant: a wait is cancelled without expiring its approval.
ReconcileKeepsApproval ==
  /\ snap # NoSnap /\ snap.close
  /\ Current
  /\ IF snap.call = None
     THEN ReconcileApprovalWait(snap.run, "recovery_required") /\ UNCHANGED calls
     ELSE /\ ReconcileApprovalWait(snap.run, "cancelled")
          /\ SetCall(snap.call, Closes[snap.seen])
          /\ UNCHANGED approval
  /\ snap' = NoSnap
  /\ UNCHANGED <<wk, active, ran>>

\* reconcile_approval_wait: cancel the wait with its call and approval, or, when
\* its linkage cannot be proved, close only the run.
Reconcile ==
  /\ snap # NoSnap /\ snap.close
  /\ Current
  /\ IF snap.call = None
     THEN ReconcileApprovalWait(snap.run, "recovery_required") /\ UNCHANGED calls
     ELSE /\ ReconcileApprovalWait(snap.run, "cancelled")
          /\ SetCall(snap.call, Closes[snap.seen])
          /\ IF snap.seen \in {"pending", "approved"}
             THEN SetApproval(snap.call, "expired") ELSE UNCHANGED approval
  /\ snap' = NoSnap
  /\ UNCHANGED <<wk, active, ran>>

Raced ==
  /\ snap # NoSnap /\ snap.close /\ ~Current
  /\ snap' = NoSnap
  /\ UNCHANGED <<run, held, outcomes, wk, call, approval, active, ran>>

\* The reconciler stops or fails between its reads and its write.
Forget ==
  /\ snap # NoSnap
  /\ snap' = NoSnap
  /\ UNCHANGED <<run, held, outcomes, wk, call, approval, active, ran>>
---------------------------------------------------------------------------
Recover(e) ==
  /\ RecoverExpiredLeases(e)
  /\ UNCHANGED <<wk, call, approval, active, snap, ran>>

Open(c) == approval[c].state \in {"pending", "approved", "resume_claimed"}

STick ==
  /\ Tick
  /\ approval' = [c \in Call |->
       IF Open(c) THEN [approval[c] EXCEPT !.left = Later(@)] ELSE approval[c]]
  /\ UNCHANGED <<wk, call, active, snap, ran>>

SInit ==
  /\ Init
  /\ wk = [t \in Task |-> Idle]
  /\ call = [c \in Call |-> NoCall]
  /\ approval = [c \in Call |-> NoApproval]
  /\ active = TRUE
  /\ snap = NoSnap
  /\ ran = [c \in Call |-> 0]

TaskStep(t, e) ==
  \/ \E w \in WorkerId : Claim(t, w, e)
  \/ StartRun(t, e)
  \/ BeginTurn(t, e)
  \/ TurnHeartbeat(t, e)
  \/ \E next \in {"stage", "output"} : PersistProviderTurn(t, e, next)
  \/ \E c \in Call : BeginToolCall(t, e, c)
  \/ Request(t, e)
  \/ PersistOutput(t, e)
  \/ End(t, e)
  \/ \E w \in WorkerId : ClaimNextApproved(t, w, e)
  \/ Consume(t, e)
  \/ FinishToolCall(t, e)
  \/ PersistBatch(t, e)

ReconcilerStep ==
  \/ \E r \in Run : LoadCandidate(r)
  \/ \E e \in Reading : LoadSnapshot(e)
  \/ Reconcile
  \/ Raced

SNext ==
  \/ \E t \in Task, e \in Reading : TaskStep(t, e)
  \/ \E t \in Task : ExecuteApprovedTool(t) \/ Drop(t)
  \/ \E c \in Call, e \in Reading : DecideApproval(c, e) \/ RevokeApproval(c, e)
  \/ \E e \in Reading : ExpireApproved(e) \/ Recover(e)
  \/ ReconcilerStep
  \/ Forget
  \/ ToggleSession
  \/ STick

SSpec == SInit /\ [][SNext]_svars

\* Time passes, the host keeps running the reconciler, and its passes are not
\* interrupted every single time before they write.
SFairSpec == /\ SSpec
             /\ WF_svars(STick)
             /\ WF_svars(ReconcilerStep)
             /\ SF_svars(\E e \in Reading : LoadSnapshot(e))
             /\ SF_svars(Reconcile)
---------------------------------------------------------------------------
(***************************************************************************)
(* Properties                                                              *)
(***************************************************************************)

Snapshot == [run : Run, version : Nat, call : Call \cup {None},
             seen : ApprovalStates, close : BOOLEAN]

STypeOK ==
  /\ TypeOK
  /\ wk \in [Task -> [pc : PC, call : Call \cup {None}, direct : BOOLEAN]]
  /\ call \in [Call -> [state : CallStates, run : Run \cup {None}, gen : Nat]]
  /\ approval \in [Call -> [state : ApprovalStates, left : Int]]
  /\ active \in BOOLEAN
  /\ snap \in Snapshot \cup {NoSnap}
  /\ ran \in [Call -> Nat]

\* The mutation runs at most once, whatever crashes, is resumed, recovered or
\* adopted by a later attempt, and only under an approval that was consumed
\* for it: one withdrawn before the consumption never leads to an execution.
ExecutedOnceUnderApproval ==
  \A c \in Call : ran[c] > 0 => ran[c] = 1 /\ approval[c].state = "consumed"

\* "The consumed approval and mutation are never automatically replayed": once
\* a call was released for execution and its result is not on record, its run
\* is still in the executing attempt or is left to an operator; it is never
\* requeued, failed or completed as if nothing were open.
UnrecordedEffectNeedsRecovery ==
  \A c \in Call :
    approval[c].state = "consumed" /\ call[c].state = "executing" =>
      LET row == run[call[c].run] IN
      \/ row.state = "running" /\ row.gen = call[c].gen
      \/ row.state = "recovery_required"

\* claim_next_approved never meets an approval whose run has moved on, so one
\* approval cannot make it fail for all the others.
ApprovedHasWaiter == \A c \in Approved : Resumable(c)

\* A parked run can be proved: the reconciler finds one waiting call with its
\* approval under the checkpoint of its turn, never linkage it must give up on.
ParkedWaitIsProvable ==
  \A r \in Run : run[r].state = "waiting_approval" =>
    Linked(r) /\ \A c \in Waiting(r) : approval[c].state # "resume_claimed"

\* A wait is cancelled as a whole: run, call and approval in one step, and
\* never once a worker has been given the approved call.
WaitsCloseAsAWhole ==
  [][\A c \in Call :
       call[c].state = "waiting_approval" /\ call'[c].state \in ClosedCall =>
         /\ run[call[c].run].state = "waiting_approval"
         /\ run'[call[c].run].state = "cancelled"
         /\ approval[c].state # "resume_claimed"
         /\ approval'[c].state \in Withdrawn]_svars

\* A denied, revoked, expired or consumed approval stays so, and a call that
\* was closed or completed stays so.
DecisionsAreFinal ==
  [][\A c \in Call :
       /\ approval[c].state \in Withdrawn \cup {"consumed"} =>
            approval'[c].state = approval[c].state
       /\ call[c].state \in ClosedCall \cup {"completed"} =>
            call'[c] = call[c]]_svars

\* No run waits for a person for ever: the approval is used, or the wait is
\* closed after it was denied, revoked or ran out.
WaitsEnd ==
  \A r \in Run :
    run[r].state = "waiting_approval" ~> run[r].state # "waiting_approval"

\* Whoever looks at a wait finds it in order: claim_next_approved the run of
\* every approval, the reconciler the one call of every parked run.
WaitsAreInOrder == STypeOK /\ ApprovedHasWaiter /\ ParkedWaitIsProvable

\* A decision stands and a wait closes with everything that belongs to it, the
\* people, the coordinator and the reconciler racing for them.
DecisionsStand == WaitsCloseAsAWhole /\ DecisionsAreFinal
===========================================================================
