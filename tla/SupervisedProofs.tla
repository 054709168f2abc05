------------------------- MODULE SupervisedProofs -------------------------
(***************************************************************************)
(* What holds of supervised mutations for every number of runs, tasks and  *)
(* calls and every limit.                                                  *)
(*                                                                         *)
(* First, the supervised deployment implements the run table: each of its  *)
(* steps is a step of RunLease or leaves the table alone, so what is       *)
(* proved of RunLease holds here.  Second, a mutation is executed at most  *)
(* once; the inductive invariant says that between the consumption of an   *)
(* approval and the call of the resolver exactly one task is committed to  *)
(* that call.  Third, calls, approvals, runs, tasks and the reconciler's   *)
(* snapshot agree about every wait and every released call, so that no     *)
(* wait has lost a part, no decision is undone, and no released call is    *)
(* forgotten.                                                              *)
(***************************************************************************)
EXTENDS Supervised, RunLeaseProofs, FiniteSetTheorems

USE SupervisedAssumption

\* Where a task handles a tool call.
Handling == {"staged", "waiting", "resume", "exec", "effect", "batch"}

\* Calls and snapshots refer to runs.
LinkInv ==
  /\ call \in [Call -> [state : CallStates, run : Run \cup {None}, gen : Nat]]
  /\ \A c \in Call : call[c].state # "none" => call[c].run \in Run
  /\ snap \in Snapshot \cup {NoSnap}
  /\ snap # NoSnap /\ snap.call # None => snap.seen \in DOMAIN Closes

ExecInv ==
  /\ wk \in [Task -> [pc : PC, call : Call \cup {None}, direct : BOOLEAN]]
  /\ approval \in [Call -> [state : ApprovalStates, left : Int]]
  /\ ran \in [Call -> Nat]
  /\ \A t \in Task : wk[t].pc \in Handling => wk[t].call \in Call
  /\ \A t \in Task : wk[t].pc = "exec" =>
       /\ approval[wk[t].call].state = "consumed"
       /\ ran[wk[t].call] = 0
  /\ \A t, u \in Task :
       wk[t].pc = "exec" /\ wk[u].pc = "exec" /\ wk[t].call = wk[u].call => t = u
  /\ ExecutedOnceUnderApproval
---------------------------------------------------------------------------
(***************************************************************************)
(* The supervised deployment implements the run table                      *)
(***************************************************************************)

\* What a task does to the run table is a worker's step of RunLease.
LEMMA TaskStepRefines ==
  ASSUME LinkInv, NEW t \in Task, NEW e \in Reading, TaskStep(t, e)
  PROVE  [Next]_vars
<1>1. CASE \E w \in WorkerId : Claim(t, w, e)
  BY <1>1 DEF Claim, Next, WorkerStep
<1>2. CASE StartRun(t, e)
  BY <1>2 DEF StartRun, Next, WorkerStep
<1>3. CASE BeginTurn(t, e)
  BY <1>3 DEF BeginTurn, Next, WorkerStep
<1>4. CASE TurnHeartbeat(t, e)
  BY <1>4 DEF TurnHeartbeat, Next, WorkerStep
<1>5. CASE \E next \in {"stage", "output"} : PersistProviderTurn(t, e, next)
  BY <1>5 DEF PersistProviderTurn, Next, WorkerStep, CheckpointKinds, CoordinatorKinds
<1>6. CASE \E c \in Call : BeginToolCall(t, e, c)
  BY <1>6 DEF BeginToolCall, vars
<1>7. CASE Request(t, e)
  BY <1>7 DEF Request, Next, WorkerStep
<1>8. CASE PersistOutput(t, e)
  BY <1>8 DEF PersistOutput, Next, WorkerStep, CheckpointKinds
<1>9. CASE End(t, e)
  <2>1. PICK final \in Endings(wk[t].pc) :
          Finish(t, e, final, IF final = "completed" THEN None ELSE "other")
    BY <1>9 DEF End
  <2>2. final \in CompletionStates
    BY DEF Endings, CompletionStates, Terminal
  <2> QED
    BY <2>1, <2>2 DEF Next, WorkerStep
<1>10. CASE \E w \in WorkerId : ClaimNextApproved(t, w, e)
  <2>1. PICK w \in WorkerId : ClaimNextApproved(t, w, e)
    BY <1>10
  <2>2. PICK c \in Call : Resumable(c) /\ ClaimApproved(t, w, e, call[c].run)
    BY <2>1 DEF ClaimNextApproved, Approved
  <2>3. call[c].run \in Run
    BY <2>2 DEF Resumable, LinkInv
  <2> QED
    BY <2>2, <2>3 DEF Next, WorkerStep
<1>11. CASE Consume(t, e)
  BY <1>11 DEF Consume, Next, WorkerStep
<1>12. CASE FinishToolCall(t, e)
  BY <1>12 DEF FinishToolCall, Next, WorkerStep
<1>13. CASE PersistBatch(t, e)
  BY <1>13 DEF PersistBatch, Next, WorkerStep, CheckpointKinds, CoordinatorKinds,
               AdoptableKinds
<1> QED
  BY <1>1, <1>2, <1>3, <1>4, <1>5, <1>6, <1>7, <1>8, <1>9, <1>10, <1>11,
     <1>12, <1>13 DEF TaskStep

\* Every step is a step of the run table, or leaves it alone.
LEMMA StepRefines == LinkInv /\ [SNext]_svars => [Next]_vars
<1> SUFFICES ASSUME LinkInv, [SNext]_svars PROVE [Next]_vars
  OBVIOUS
<1>1. CASE \E t \in Task, e \in Reading : TaskStep(t, e)
  BY <1>1, TaskStepRefines
<1>2. CASE \E t \in Task : ExecuteApprovedTool(t) \/ Drop(t)
  BY <1>2 DEF ExecuteApprovedTool, Drop, Next, vars
<1>3. CASE \E c \in Call, e \in Reading : DecideApproval(c, e) \/ RevokeApproval(c, e)
  BY <1>3 DEF DecideApproval, RevokeApproval, Decide, vars
<1>4. CASE \E e \in Reading : ExpireApproved(e) \/ Recover(e)
  BY <1>4 DEF ExpireApproved, Recover, Next, vars
<1>5. CASE ReconcilerStep
  <2>1. CASE \E r \in Run : LoadCandidate(r)
    BY <2>1 DEF LoadCandidate, vars
  <2>2. CASE \E e \in Reading : LoadSnapshot(e)
    BY <2>2 DEF LoadSnapshot, vars
  <2>3. CASE Reconcile
    <3>1. snap.run \in Run
      BY <2>3 DEF Reconcile, LinkInv, Snapshot, NoSnap
    <3>2. \E final \in {"cancelled", "recovery_required"} :
            ReconcileApprovalWait(snap.run, final)
      BY <2>3 DEF Reconcile
    <3> QED
      BY <3>1, <3>2 DEF Next, ServiceStep
  <2>4. CASE Raced
    BY <2>4 DEF Raced, vars
  <2> QED
    BY <1>5, <2>1, <2>2, <2>3, <2>4 DEF ReconcilerStep
<1>6. CASE Forget \/ ToggleSession
  BY <1>6 DEF Forget, ToggleSession, vars
<1>7. CASE STick
  BY <1>7 DEF STick, Next
<1>8. CASE UNCHANGED svars
  BY <1>8 DEF svars, vars
<1> QED
  BY <1>1, <1>2, <1>3, <1>4, <1>5, <1>6, <1>7, <1>8 DEF SNext

\* A fenced task's lease is of a run.
LEMMA FencedRun ==
  ASSUME IInv, NEW t \in Task, NEW e \in Reading, Fenced(t, e)
  PROVE  held[t].run \in Run /\ held[t].gen \in Nat
BY DEF IInv, HeldInv, Fenced, Matches, Lease

\* Giving a row of a known call another state keeps the links.
LEMMA SetCallLinks ==
  ASSUME LinkInv, NEW c \in Call, NEW state \in CallStates,
         call[c].state # "none", SetCall(c, state)
  PROVE  /\ call' \in [Call -> [state : CallStates, run : Run \cup {None}, gen : Nat]]
         /\ \A d \in Call : call'[d].state # "none" => call'[d].run \in Run
BY DEF LinkInv, SetCall

\* Every step of a task keeps the links.
LEMMA TaskStepLinks ==
  ASSUME IInv, LinkInv, ExecInv, NEW t \in Task, NEW e \in Reading, TaskStep(t, e)
  PROVE  LinkInv'
<1> USE DEF LinkInv
<1>1. CASE \E c \in Call : BeginToolCall(t, e, c)
  <2>1. PICK c \in Call : BeginToolCall(t, e, c)
    BY <1>1
  <2>2. held[t].run \in Run /\ held[t].gen \in Nat
    BY <2>1, FencedRun DEF BeginToolCall
  <2>3. call' = [call EXCEPT ![c] = [state |-> "executing", run |-> held[t].run,
                                     gen |-> held[t].gen]]
    BY <2>1 DEF BeginToolCall
  <2>4. UNCHANGED snap
    BY <2>1 DEF BeginToolCall
  <2> QED
    BY <2>2, <2>3, <2>4 DEF CallStates
<1>2. CASE Request(t, e)
  <2>1. CallOf(t) \in Call
    BY <1>2 DEF Request, ExecInv, CallOf, At, Handling
  <2> QED
    BY <1>2, <2>1, SetCallLinks DEF Request, CallStates
<1>3. CASE Consume(t, e)
  <2>1. CallOf(t) \in Call
    BY <1>3 DEF Consume, ExecInv, CallOf, At, Handling
  <2> QED
    BY <1>3, <2>1, SetCallLinks DEF Consume, CallStates
<1>4. CASE FinishToolCall(t, e)
  <2>1. CallOf(t) \in Call
    BY <1>4 DEF FinishToolCall, ExecInv, CallOf, At, Handling
  <2> QED
    BY <1>4, <2>1, SetCallLinks DEF FinishToolCall, CallStates
<1>5. CASE /\ ~\E c \in Call : BeginToolCall(t, e, c)
           /\ ~Request(t, e) /\ ~Consume(t, e) /\ ~FinishToolCall(t, e)
  <2>1. UNCHANGED <<call, snap>>
    BY <1>5 DEF TaskStep, Claim, StartRun, BeginTurn, TurnHeartbeat,
      PersistProviderTurn, PersistOutput, End, ClaimNextApproved, PersistBatch
  <2> QED
    BY <2>1
<1> QED
  BY <1>1, <1>2, <1>3, <1>4, <1>5

\* Every step keeps the links.
LEMMA StepLinks == IInv /\ LinkInv /\ ExecInv /\ [SNext]_svars => LinkInv'
<1> SUFFICES ASSUME IInv, LinkInv, ExecInv, [SNext]_svars PROVE LinkInv'
  OBVIOUS
<1>1. CASE \E t \in Task, e \in Reading : TaskStep(t, e)
  BY <1>1, TaskStepLinks
<1>2. CASE \E r \in Run : LoadCandidate(r)
  <2>1. PICK r \in Run : LoadCandidate(r)
    BY <1>2
  <2>2. run[r].version \in Nat
    BY DEF IInv, Row
  <2>3. snap' \in Snapshot /\ snap'.call = None
    BY <2>1, <2>2 DEF LoadCandidate, Snapshot, ApprovalStates
  <2> QED
    BY <2>1, <2>3 DEF LoadCandidate, LinkInv
<1>3. CASE \E e \in Reading : LoadSnapshot(e)
  <2>1. PICK e \in Reading : LoadSnapshot(e)
    BY <1>3
  <2>2. snap \in Snapshot
    BY <2>1 DEF LoadSnapshot, LinkInv
  <2>3. \/ snap' = NoSnap
        \/ snap' = [snap EXCEPT !.close = TRUE]
        \/ \E c \in Call : /\ approval[c].state \in DOMAIN Closes
                          /\ snap' = [snap EXCEPT !.call = c, !.close = TRUE,
                                                  !.seen = approval[c].state]
    BY <2>1 DEF LoadSnapshot, Waiting
  <2>4. \A c \in Call : approval[c].state \in ApprovalStates
    BY DEF ExecInv
  <2>5. snap' \in Snapshot \cup {NoSnap}
    BY <2>2, <2>3, <2>4 DEF Snapshot
  <2>6. snap' # NoSnap /\ snap'.call # None => snap'.seen \in DOMAIN Closes
    BY <2>2, <2>3 DEF Snapshot, LinkInv, NoSnap
  <2> QED
    BY <2>1, <2>5, <2>6 DEF LoadSnapshot, LinkInv
<1>4. CASE Reconcile
  <2>1. snap' = NoSnap
    BY <1>4 DEF Reconcile
  <2>2. CASE snap.call = None
    BY <1>4, <2>1, <2>2 DEF Reconcile, calls, LinkInv
  <2>3. CASE snap.call # None
    <3>1. snap.call \in Call /\ call[snap.call].state = "waiting_approval"
      BY <1>4, <2>3 DEF Reconcile, LinkInv, Snapshot, NoSnap, Current
    <3>2. SetCall(snap.call, Closes[snap.seen])
      BY <1>4, <2>3 DEF Reconcile
    <3>3. Closes[snap.seen] \in CallStates
      BY <1>4, <2>3 DEF Reconcile, LinkInv, Closes, CallStates, ClosedCall
    <3> QED
      BY <2>1, <3>1, <3>2, <3>3, SetCallLinks DEF LinkInv
  <2> QED
    BY <2>2, <2>3
<1>5. CASE \/ \E t \in Task : ExecuteApprovedTool(t) \/ Drop(t)
           \/ \E c \in Call, e \in Reading : DecideApproval(c, e) \/ RevokeApproval(c, e)
           \/ \E e \in Reading : ExpireApproved(e) \/ Recover(e)
           \/ Raced \/ Forget \/ ToggleSession \/ STick \/ UNCHANGED svars
  <2>1. UNCHANGED call /\ snap' \in {snap, NoSnap}
    BY <1>5 DEF ExecuteApprovedTool, Drop, DecideApproval, RevokeApproval, Decide,
      ExpireApproved, Recover, Raced, Forget, ToggleSession, STick, svars
  <2> QED
    BY <2>1 DEF LinkInv
<1> QED
  BY <1>1, <1>2, <1>3, <1>4, <1>5 DEF SNext, ReconcilerStep
---------------------------------------------------------------------------
(***************************************************************************)
(* A mutation is executed at most once                                     *)
(***************************************************************************)

TaskState == [pc : PC, call : Call \cup {None}, direct : BOOLEAN]
Approvals == [Call -> [state : ApprovalStates, left : Int]]

\* A consumed approval stays consumed.
ConsumedStays ==
  /\ approval' \in Approvals
  /\ \A c \in Call :
       approval[c].state = "consumed" => approval'[c].state = "consumed"

\* A step that invokes no resolver and commits no task to one.
LEMMA ExecKept ==
  ASSUME ExecInv, ConsumedStays, UNCHANGED ran, NEW t \in Task,
         NEW w \in TaskState, w.pc # "exec",
         w.pc \in Handling => w.call \in Call,
         wk' = [wk EXCEPT ![t] = w]
  PROVE  ExecInv'
<1>1. wk' \in [Task -> TaskState] /\ wk'[t] = w
  BY DEF ExecInv, TaskState
<1>2. \A u \in Task : wk'[u].pc = "exec" => wk'[u] = wk[u]
  BY <1>1 DEF ExecInv, TaskState
<1>3. \A u \in Task : wk'[u].pc \in Handling => wk'[u].call \in Call
  BY <1>1 DEF ExecInv, TaskState
<1>4. \A u \in Task : wk'[u].pc = "exec" => wk'[u].call \in Call
  BY <1>3 DEF Handling
<1>5. \A u, v \in Task :
        wk'[u].pc = "exec" /\ wk'[v].pc = "exec" /\ wk'[u].call = wk'[v].call => u = v
  BY <1>2 DEF ExecInv
<1>6. \A u \in Task : wk'[u].pc = "exec" =>
        approval'[wk'[u].call].state = "consumed" /\ ran'[wk'[u].call] = 0
  BY <1>2, <1>4 DEF ExecInv, ConsumedStays
<1>7. ExecutedOnceUnderApproval'
  BY DEF ExecInv, ConsumedStays, ExecutedOnceUnderApproval
<1> QED
  BY <1>1, <1>3, <1>5, <1>6, <1>7 DEF ExecInv, ConsumedStays, TaskState, Approvals

\* The same for a step that moves no task.
LEMMA ExecKeptIdle ==
  ASSUME ExecInv, ConsumedStays, UNCHANGED <<ran, wk>>
  PROVE  ExecInv'
<1>1. ExecutedOnceUnderApproval'
  BY DEF ExecInv, ConsumedStays, ExecutedOnceUnderApproval
<1>2. \A u \in Task : wk[u].pc = "exec" => wk[u].call \in Call
  BY DEF ExecInv, Handling
<1>3. \A u \in Task : wk'[u].pc = "exec" =>
        approval'[wk'[u].call].state = "consumed" /\ ran'[wk'[u].call] = 0
  BY <1>2 DEF ExecInv, ConsumedStays
<1> QED
  BY <1>1, <1>3 DEF ExecInv, ConsumedStays, Approvals

\* An unchanged approval table keeps what was consumed.
LEMMA ApprovalsUnchanged ==
  ASSUME ExecInv, UNCHANGED approval
  PROVE  ConsumedStays
BY DEF ExecInv, ConsumedStays, Approvals

\* Giving an approval that is not consumed another state keeps the others.
LEMMA SetApprovalKeeps ==
  ASSUME ExecInv, NEW c \in Call, NEW state \in ApprovalStates,
         approval[c].state # "consumed" \/ state = "consumed",
         SetApproval(c, state)
  PROVE  ConsumedStays /\ approval'[c].state = state
BY DEF ExecInv, ConsumedStays, Approvals, SetApproval

\* Where Goes leads.
LEMMA GoesKeeps ==
  ASSUME ExecInv, ConsumedStays, UNCHANGED ran, NEW t \in Task,
         NEW pc \in PC \ {"exec"}, Goes(t, pc),
         pc \in Handling => wk[t].call \in Call
  PROVE  ExecInv'
<1> DEFINE w == [wk[t] EXCEPT !.pc = IF held'[t] = held[t] THEN "lost" ELSE pc]
<1>1. wk[t] \in TaskState
  BY DEF ExecInv, TaskState
<1>2. w \in TaskState /\ w.pc # "exec" /\ (w.pc \in Handling => w.call \in Call)
  BY <1>1 DEF TaskState, PC, Handling
<1>3. wk' = [wk EXCEPT ![t] = w]
  BY DEF Goes
<1> HIDE DEF w
<1> QED
  BY <1>2, <1>3, ExecKept

\* Where Returns leads.
LEMMA ReturnsKeeps ==
  ASSUME ExecInv, ConsumedStays, UNCHANGED ran, NEW t \in Task, Returns(t)
  PROVE  ExecInv'
<1> DEFINE w == IF held'[t] = NoLease THEN Idle ELSE [wk[t] EXCEPT !.pc = "lost"]
<1>1. wk[t] \in TaskState
  BY DEF ExecInv, TaskState
<1>2. w \in TaskState /\ w.pc # "exec" /\ w.pc \notin Handling
  BY <1>1 DEF TaskState, PC, Handling, Idle
<1>3. wk' = [wk EXCEPT ![t] = w]
  BY DEF Returns
<1> HIDE DEF w
<1> QED
  BY <1>2, <1>3, ExecKept

\* consume_approval commits exactly one task to the call: before it, the
\* approval was not consumed, so no task was committed and nothing had run.
LEMMA ConsumeExec ==
  ASSUME ExecInv, NEW t \in Task, NEW e \in Reading, Consume(t, e)
  PROVE  ExecInv'
<1> DEFINE c == CallOf(t)
           w == [wk[t] EXCEPT !.pc = IF held'[t] = held[t] THEN "lost" ELSE "exec",
                              !.direct = wk[t].pc = "waiting"]
<1>1. c \in Call /\ wk[t] \in TaskState
  BY DEF Consume, ExecInv, CallOf, At, Handling, TaskState
<1>2. approval[c].state # "consumed"
  BY DEF Consume, Consumable
<1>3. ConsumedStays /\ approval'[c].state = "consumed"
  BY <1>1, <1>2, SetApprovalKeeps DEF Consume, ApprovalStates
<1>4. UNCHANGED ran /\ wk' = [wk EXCEPT ![t] = w]
  BY DEF Consume
<1>5. ran[c] = 0
  BY <1>1, <1>2 DEF ExecInv, ExecutedOnceUnderApproval
<1>6. w \in TaskState /\ w.call = c /\ w.pc \in {"lost", "exec"}
  BY <1>1 DEF TaskState, PC, CallOf
<1>7. CASE w.pc = "lost"
  <2> HIDE DEF w, c
  <2> QED
    BY <1>3, <1>4, <1>6, <1>7, ExecKept DEF Handling
<1>8. CASE w.pc = "exec"
  <2>1. wk' \in [Task -> TaskState] /\ wk'[t] = w
    BY <1>4, <1>6 DEF ExecInv, TaskState
  <2>2. \A u \in Task : u # t => wk'[u] = wk[u]
    BY <1>4 DEF ExecInv
  <2>3. \A u \in Task : u # t /\ wk[u].pc = "exec" => wk[u].call # c
    BY <1>2 DEF ExecInv
  <2> HIDE DEF w, c
  <2>4. \A u \in Task : wk'[u].pc \in Handling => wk'[u].call \in Call
    BY <1>1, <1>6, <2>1, <2>2 DEF ExecInv
  <2>5. \A u, v \in Task :
          wk'[u].pc = "exec" /\ wk'[v].pc = "exec" /\ wk'[u].call = wk'[v].call => u = v
    BY <1>6, <2>1, <2>2, <2>3 DEF ExecInv
  <2>6. \A u \in Task : wk'[u].pc = "exec" => wk'[u].call \in Call
    BY <2>4 DEF Handling
  <2>7. \A u \in Task : wk'[u].pc = "exec" =>
          approval'[wk'[u].call].state = "consumed" /\ ran'[wk'[u].call] = 0
    BY <1>3, <1>4, <1>5, <1>6, <2>1, <2>2, <2>6 DEF ExecInv, ConsumedStays
  <2>8. ExecutedOnceUnderApproval'
    BY <1>3, <1>4 DEF ExecInv, ConsumedStays, ExecutedOnceUnderApproval
  <2> QED
    BY <1>3, <1>4, <2>1, <2>4, <2>5, <2>7, <2>8
    DEF ExecInv, ConsumedStays, TaskState, Approvals
<1> QED
  BY <1>6, <1>7, <1>8

\* The resolver is invoked by the one task committed to it, which then is not.
LEMMA ExecuteExec ==
  ASSUME ExecInv, NEW t \in Task, ExecuteApprovedTool(t)
  PROVE  ExecInv'
<1> DEFINE c == CallOf(t)
           w == [wk[t] EXCEPT !.pc = "effect"]
<1>1. c \in Call /\ wk[t] \in TaskState /\ wk[t].pc = "exec" /\ wk[t].call = c
  BY DEF ExecuteApprovedTool, ExecInv, CallOf, At, Handling, TaskState
<1>2. approval[c].state = "consumed" /\ ran[c] = 0
  BY <1>1 DEF ExecInv
<1>3. ran' = [ran EXCEPT ![c] = 1]
  BY <1>2 DEF ExecuteApprovedTool
<1>4. UNCHANGED approval /\ wk' = [wk EXCEPT ![t] = w]
  BY DEF ExecuteApprovedTool
<1>5. w \in TaskState /\ w.call = c /\ w.pc = "effect"
  BY <1>1 DEF TaskState, PC
<1> HIDE DEF c, w
<1>6. wk' \in [Task -> TaskState] /\ wk'[t] = w
  BY <1>4, <1>5 DEF ExecInv, TaskState
<1>7. \A u \in Task : u # t => wk'[u] = wk[u]
  BY <1>4 DEF ExecInv
<1>8. \A u \in Task : wk'[u].pc = "exec" => u # t /\ wk'[u].call # c
  BY <1>1, <1>5, <1>6, <1>7 DEF ExecInv
<1>9. \A u \in Task : wk'[u].pc \in Handling => wk'[u].call \in Call
  BY <1>1, <1>5, <1>6, <1>7 DEF ExecInv
<1>10. \A u \in Task : wk'[u].pc = "exec" =>
         approval'[wk'[u].call].state = "consumed" /\ ran'[wk'[u].call] = 0
  BY <1>3, <1>4, <1>7, <1>8 DEF ExecInv
<1>11. ExecutedOnceUnderApproval'
  BY <1>1, <1>2, <1>3, <1>4 DEF ExecInv, ExecutedOnceUnderApproval
<1>12. ran' \in [Call -> Nat]
  BY <1>3 DEF ExecInv
<1>13. \A u, v \in Task :
         wk'[u].pc = "exec" /\ wk'[v].pc = "exec" /\ wk'[u].call = wk'[v].call => u = v
  BY <1>7, <1>8 DEF ExecInv
<1> QED
  BY <1>4, <1>6, <1>9, <1>10, <1>11, <1>12, <1>13 DEF ExecInv, TaskState

\* A new approval is inserted for a call that has none.
LEMMA RequestExec ==
  ASSUME ExecInv, NEW t \in Task, NEW e \in Reading, Request(t, e)
  PROVE  ExecInv'
<1>1. CallOf(t) \in Call /\ wk[t].call = CallOf(t)
  BY DEF Request, ExecInv, CallOf, At, Handling
<1>2. ApprovalTtl + e \in Int
  BY LimitAssumption, SupervisedAssumption DEF Reading
<1>3. approval[CallOf(t)].state # "consumed"
  BY DEF Request, NoApproval
<1>4. approval' = [approval EXCEPT ![CallOf(t)] =
                     [state |-> "pending", left |-> ApprovalTtl + e]]
  BY DEF Request
<1>5. ConsumedStays
  BY <1>1, <1>2, <1>3, <1>4 DEF ExecInv, ConsumedStays, Approvals, ApprovalStates
<1> QED
  BY <1>1, <1>5, GoesKeeps DEF Request, PC

\* claim_next_approved gives an approved call to a task.
LEMMA ClaimApprovedExec ==
  ASSUME ExecInv, NEW t \in Task, NEW w \in WorkerId, NEW e \in Reading,
         ClaimNextApproved(t, w, e)
  PROVE  ExecInv'
<1>1. PICK passed \in SUBSET {c \in Approved : Reached(approval[c].left, e)},
           c \in Approved :
        /\ approval' = [d \in Call |->
             IF d \in passed THEN [approval[d] EXCEPT !.state = "expired"]
             ELSE IF d = c THEN [approval[d] EXCEPT !.state = "resume_claimed"]
             ELSE approval[d]]
        /\ wk' = IF held'[t] = NoLease THEN wk
                 ELSE [wk EXCEPT ![t] = [pc |-> "resume", call |-> c,
                                         direct |-> FALSE]]
  BY DEF ClaimNextApproved
<1>2. ConsumedStays
  BY <1>1 DEF ExecInv, ConsumedStays, Approvals, ApprovalStates, Withdrawn, Approved
<1>3. UNCHANGED ran
  BY DEF ClaimNextApproved
<1>4. CASE wk' = wk
  BY <1>2, <1>3, <1>4, ExecKeptIdle
<1>5. CASE wk' = [wk EXCEPT ![t] = [pc |-> "resume", call |-> c, direct |-> FALSE]]
  <2>1. c \in Call
    BY DEF Approved
  <2>2. [pc |-> "resume", call |-> c, direct |-> FALSE] \in TaskState
    BY <2>1 DEF TaskState, PC
  <2> QED
    BY <1>2, <1>3, <1>5, <2>1, <2>2, ExecKept
<1> QED
  BY <1>1, <1>4, <1>5

\* The steps of a task that neither request, claim nor consume an approval.
LEMMA OtherTaskStepExec ==
  ASSUME ExecInv, NEW t \in Task, NEW e \in Reading,
         UNCHANGED <<approval, ran>>,
         \/ \E w \in WorkerId : Claim(t, w, e)
         \/ StartRun(t, e)
         \/ BeginTurn(t, e)
         \/ TurnHeartbeat(t, e)
         \/ \E next \in {"stage", "output"} : PersistProviderTurn(t, e, next)
         \/ \E c \in Call : BeginToolCall(t, e, c)
         \/ PersistOutput(t, e)
         \/ End(t, e)
         \/ FinishToolCall(t, e)
         \/ PersistBatch(t, e)
  PROVE  ExecInv'
<1>1. ConsumedStays
  BY ApprovalsUnchanged
<1>2. wk[t] \in TaskState
  BY DEF ExecInv, TaskState
<1>3. CASE \E w \in WorkerId : Claim(t, w, e)
  <2>1. wk' = wk \/ wk' = [wk EXCEPT ![t] = [wk[t] EXCEPT !.pc = "leased"]]
    BY <1>3 DEF Claim
  <2>2. [wk[t] EXCEPT !.pc = "leased"] \in TaskState
    BY <1>2 DEF TaskState, PC
  <2>3. [wk[t] EXCEPT !.pc = "leased"].pc = "leased"
    BY <1>2 DEF TaskState
  <2> QED
    BY <1>1, <2>1, <2>2, <2>3, ExecKept, ExecKeptIdle DEF Handling
<1>4. CASE BeginTurn(t, e)
  <2>1. CASE Goes(t, "turn")
    BY <1>1, <2>1, GoesKeeps DEF PC, Handling
  <2>2. CASE wk' = [wk EXCEPT ![t].pc = "turn"]
    <3>1. wk' = [wk EXCEPT ![t] = [wk[t] EXCEPT !.pc = "turn"]]
      BY <2>2
    <3>2. [wk[t] EXCEPT !.pc = "turn"] \in TaskState
      BY <1>2 DEF TaskState, PC
    <3>3. [wk[t] EXCEPT !.pc = "turn"].pc = "turn"
      BY <1>2 DEF TaskState
    <3> QED
      BY <1>1, <3>1, <3>2, <3>3, ExecKept DEF Handling
  <2> QED
    BY <1>4, <2>1, <2>2 DEF BeginTurn
<1>5. CASE \E c \in Call : BeginToolCall(t, e, c)
  <2>1. PICK c \in Call : BeginToolCall(t, e, c)
    BY <1>5
  <2>2. CASE wk' = [wk EXCEPT ![t] = [@ EXCEPT !.pc = "staged", !.call = c]]
    <3> DEFINE w == [wk[t] EXCEPT !.pc = "staged", !.call = c]
    <3>1. wk' = [wk EXCEPT ![t] = w]
      BY <2>2
    <3>2. w \in TaskState /\ w.pc # "exec" /\ w.call \in Call
      BY <1>2 DEF TaskState, PC
    <3> HIDE DEF w
    <3> QED
      BY <1>1, <3>1, <3>2, ExecKept
  <2>3. CASE wk' = [wk EXCEPT ![t].pc = "lost"]
    <3>1. wk' = [wk EXCEPT ![t] = [wk[t] EXCEPT !.pc = "lost"]]
      BY <2>3
    <3>2. [wk[t] EXCEPT !.pc = "lost"] \in TaskState
      BY <1>2 DEF TaskState, PC
    <3>3. [wk[t] EXCEPT !.pc = "lost"].pc = "lost"
      BY <1>2 DEF TaskState
    <3> QED
      BY <1>1, <3>1, <3>2, <3>3, ExecKept DEF Handling
  <2> QED
    BY <2>1, <2>2, <2>3 DEF BeginToolCall
<1>6. CASE End(t, e)
  BY <1>1, <1>6, ReturnsKeeps DEF End
<1>7. CASE FinishToolCall(t, e)
  <2>1. wk[t].call \in Call
    BY <1>7 DEF FinishToolCall, At, ExecInv, Handling
  <2>2. \/ Goes(t, "plan")
        \/ Goes(t, "batch")
    BY <1>7 DEF FinishToolCall
  <2> QED
    BY <1>1, <2>1, <2>2, GoesKeeps DEF PC
<1>8. CASE \/ StartRun(t, e) \/ TurnHeartbeat(t, e) \/ PersistOutput(t, e)
           \/ PersistBatch(t, e)
           \/ \E next \in {"stage", "output"} : PersistProviderTurn(t, e, next)
  <2>1. \E pc \in {"plan", "turn", "done", "stage", "output"} : Goes(t, pc)
    BY <1>8 DEF StartRun, TurnHeartbeat, PersistOutput, PersistBatch,
      PersistProviderTurn
  <2> QED
    BY <1>1, <2>1, GoesKeeps DEF PC, Handling
<1> QED
  BY <1>3, <1>4, <1>5, <1>6, <1>7, <1>8

\* Every step of a task.
LEMMA TaskStepExec ==
  ASSUME ExecInv, NEW t \in Task, NEW e \in Reading, TaskStep(t, e)
  PROVE  ExecInv'
<1>1. CASE Request(t, e)
  BY <1>1, RequestExec
<1>2. CASE \E w \in WorkerId : ClaimNextApproved(t, w, e)
  BY <1>2, ClaimApprovedExec
<1>3. CASE Consume(t, e)
  BY <1>3, ConsumeExec
<1>4. CASE /\ ~Request(t, e) /\ ~Consume(t, e)
           /\ ~\E w \in WorkerId : ClaimNextApproved(t, w, e)
  <2>1. UNCHANGED <<approval, ran>>
    BY <1>4 DEF TaskStep, Claim, StartRun, BeginTurn, TurnHeartbeat,
      PersistProviderTurn, BeginToolCall, PersistOutput, End, FinishToolCall,
      PersistBatch
  <2> QED
    BY <1>4, <2>1, OtherTaskStepExec DEF TaskStep
<1> QED
  BY <1>1, <1>2, <1>3, <1>4

\* What happens to approvals without a task never takes a consumption back.
LEMMA ServiceKeeps ==
  ASSUME ExecInv, LinkInv,
         \/ \E c \in Call, e \in Reading : DecideApproval(c, e) \/ RevokeApproval(c, e)
         \/ \E e \in Reading : ExpireApproved(e)
         \/ Reconcile
         \/ STick
  PROVE  ConsumedStays
<1>1. CASE \E c \in Call, e \in Reading : DecideApproval(c, e) \/ RevokeApproval(c, e)
  <2>1. PICK c \in Call, e \in Reading :
          \E to \in {"approved", "denied", "revoked"} :
            /\ approval[c].state \in {"pending", "approved", "resume_claimed"}
            /\ SetApproval(c, to)
    BY <1>1 DEF DecideApproval, RevokeApproval, Decide
  <2> QED
    BY <2>1, SetApprovalKeeps DEF ApprovalStates, Withdrawn
<1>2. CASE \E e \in Reading : ExpireApproved(e)
  BY <1>2 DEF ExpireApproved, Approved, ExecInv, ConsumedStays, Approvals,
    ApprovalStates, Withdrawn
<1>3. CASE Reconcile
  <2>1. CASE UNCHANGED approval
    BY <2>1, ApprovalsUnchanged
  <2>2. CASE /\ snap.call # None /\ snap.seen \in {"pending", "approved"}
             /\ SetApproval(snap.call, "expired")
    <3>1. snap.call \in Call
      BY <1>3, <2>2 DEF Reconcile, LinkInv, Snapshot
    <3>2. approval[snap.call].state = snap.seen
      BY <1>3, <2>2 DEF Reconcile, Current
    <3> QED
      BY <2>2, <3>1, <3>2, SetApprovalKeeps DEF ApprovalStates, Withdrawn
  <2> QED
    BY <1>3, <2>1, <2>2 DEF Reconcile, calls
<1>4. CASE STick
  <2>1. \A c \in Call : Later(approval[c].left) \in Int
    <3> SUFFICES ASSUME NEW c \in Call PROVE Later(approval[c].left) \in Int
      OBVIOUS
    <3>1. approval[c].left \in Int
      BY DEF ExecInv
    <3> QED
      BY <3>1, NoneAssumption, LimitAssumption DEF Later
  <2> QED
    BY <1>4, <2>1 DEF STick, ExecInv, ConsumedStays, Approvals, Open
<1> QED
  BY <1>1, <1>2, <1>3, <1>4

\* Every step.
LEMMA StepExec == LinkInv /\ ExecInv /\ [SNext]_svars => ExecInv'
<1> SUFFICES ASSUME LinkInv, ExecInv, [SNext]_svars PROVE ExecInv'
  OBVIOUS
<1>1. CASE \E t \in Task, e \in Reading : TaskStep(t, e)
  BY <1>1, TaskStepExec
<1>2. CASE \E t \in Task : ExecuteApprovedTool(t)
  BY <1>2, ExecuteExec
<1>3. CASE \E t \in Task : Drop(t)
  <2>1. PICK t \in Task : Drop(t)
    BY <1>3
  <2>2. Idle \in TaskState /\ Idle.pc = "idle"
    BY DEF Idle, TaskState, PC
  <2>3. wk' = [wk EXCEPT ![t] = Idle] /\ UNCHANGED ran /\ UNCHANGED approval
    BY <2>1 DEF Drop
  <2> QED
    BY <2>2, <2>3, ApprovalsUnchanged, ExecKept DEF Handling
<1>4. CASE \/ \E c \in Call, e \in Reading : DecideApproval(c, e) \/ RevokeApproval(c, e)
           \/ \E e \in Reading : ExpireApproved(e)
           \/ Reconcile
           \/ STick
  <2>1. UNCHANGED <<ran, wk>>
    BY <1>4 DEF DecideApproval, RevokeApproval, Decide, ExpireApproved, Reconcile,
      STick
  <2> QED
    BY <1>4, <2>1, ServiceKeeps, ExecKeptIdle
<1>5. CASE \/ \E e \in Reading : Recover(e)
           \/ \E r \in Run : LoadCandidate(r)
           \/ \E e \in Reading : LoadSnapshot(e)
           \/ Raced \/ Forget \/ ToggleSession \/ UNCHANGED svars
  <2>1. UNCHANGED <<ran, wk>> /\ UNCHANGED approval
    BY <1>5 DEF Recover, LoadCandidate, LoadSnapshot, Raced, Forget, ToggleSession,
      svars
  <2> QED
    BY <2>1, ApprovalsUnchanged, ExecKeptIdle
<1> QED
  BY <1>1, <1>2, <1>3, <1>4, <1>5 DEF SNext, ReconcilerStep
---------------------------------------------------------------------------
(***************************************************************************)
(* Theorems                                                                *)
(***************************************************************************)

SInv == IInv /\ LinkInv /\ ExecInv

\* In the beginning nothing is staged, approved or executed.
LEMMA InitSInv == SInit => SInv
<1> SUFFICES ASSUME SInit PROVE SInv
  OBVIOUS
<1>1. IInv
  BY InitInv DEF SInit
<1>2. LinkInv
  BY DEF SInit, LinkInv, NoCall, CallStates, NoSnap
<1>3. wk \in [Task -> [pc : PC, call : Call \cup {None}, direct : BOOLEAN]]
  BY DEF SInit, Idle, PC
<1>4. approval \in [Call -> [state : ApprovalStates, left : Int]]
  BY DEF SInit, NoApproval, ApprovalStates
<1>5. \A t \in Task : wk[t].pc = "idle"
  BY DEF SInit, Idle
<1>6. \A c \in Call : ran[c] = 0
  BY DEF SInit
<1> QED
  BY <1>1, <1>2, <1>3, <1>4, <1>5, <1>6
  DEF SInv, ExecInv, SInit, Handling, ExecutedOnceUnderApproval

\* Every step keeps the invariant of the supervised deployment.
LEMMA StepSInv == SInv /\ [SNext]_svars => SInv'
<1> SUFFICES ASSUME SInv, [SNext]_svars PROVE SInv'
  OBVIOUS
<1>1. [Next]_vars
  BY StepRefines DEF SInv
<1> QED
  BY <1>1, NextInv, StepLinks, StepExec DEF SInv

\* The strengthened invariant holds of every supervised deployment.
THEOREM SupervisedInvariance == SSpec => []SInv
<1> QED
  BY InitSInv, StepSInv, PTL DEF SSpec

\* A supervised deployment, with its approvals, decisions and reconciler,
\* makes no change to a run row that the run service's own rules do not allow:
\* it implements the run table.
THEOREM ImplementsRunLease == SSpec => Spec
<1>1. SInit => Init
  BY DEF SInit
<1>2. SInv /\ [SNext]_svars => [Next]_vars
  BY StepRefines DEF SInv
<1> QED
  BY <1>1, <1>2, SupervisedInvariance, PTL DEF SSpec, Spec

\* execute_approved_tool invokes the resolver of a call at most once, and only
\* after the call's approval was consumed for it, with any number of workers
\* crashing, losing replies or resuming at any point.
THEOREM MutationsRunOnce == SSpec => []ExecutedOnceUnderApproval
<1>1. SInv => ExecutedOnceUnderApproval
  BY DEF SInv, ExecInv
<1> QED
  BY <1>1, SupervisedInvariance, PTL
---------------------------------------------------------------------------
(***************************************************************************)
(* Waits, decisions and released calls                                     *)
(*                                                                         *)
(* What the call, its approval and the run row say of one wait agrees:     *)
(* PairInv of the call and its approval, ParkInv of the call and its run,  *)
(* RowsInv of the run alone.  ReleasedInv is about calls whose mutation may *)
(* be under way.  TaskInv is what a task whose lease is current may rely   *)
(* on, SnapInv what the reconciler may still do with what it has read.     *)
(***************************************************************************)

TurnOf(row) == [gen |-> row.gen, kind |-> "provider_turn_persisted"]

\* The call was given away for execution and its result is not on record.
CallReleased(c) == call[c].state = "executing" /\ approval[c].state = "consumed"

PairInv ==
  \A c \in Call :
    /\ call[c].state = "none" => approval[c].state = "none"
    /\ Open(c) => call[c].state = "waiting_approval"
    /\ call[c].state = "waiting_approval" =>
         approval[c].state \notin {"none", "consumed"}

\* A waiting call waits with its run, until a worker is given the call.
Parked(c) ==
  LET row == run[call[c].run] IN
  /\ row.gen = call[c].gen
  /\ \/ row.state = "waiting_approval" /\ approval[c].state # "resume_claimed"
     \/ /\ row.state \in {"waiting_tool", "recovery_required"}
        /\ approval[c].state \in {"resume_claimed", "revoked"}

ParkInv ==
  /\ \A c \in Call : call[c].state = "waiting_approval" => Parked(c)
  /\ \A c, d \in Call :
       /\ call[c].state = "waiting_approval"
       /\ call[d].state = "waiting_approval"
       /\ call[c].run = call[d].run
       => c = d
  /\ \A r \in Run : run[r].state = "waiting_approval" =>
       \E c \in Call : call[c].state = "waiting_approval" /\ call[c].run = r

RowsInv ==
  \A r \in Run :
    /\ run[r].state \in {"leased", "running", "waiting_approval"} =>
         run[r].err = None
    /\ run[r].state \in {"waiting_approval", "waiting_tool"} =>
         run[r].ckpt = TurnOf(run[r])

ReleasedInv ==
  \A c \in Call : CallReleased(c) =>
    LET row == run[call[c].run] IN
    \/ /\ row.state = "running" /\ row.gen = call[c].gen
       /\ ~Final(row) /\ ~Adoptable(row)
    \/ row.state = "recovery_required"

RunningPCs ==
  {"plan", "turn", "stage", "staged", "exec", "effect", "batch", "output", "done"}

TaskGood(t) ==
  /\ wk[t].pc = "leased" => MyRow(t).state = "leased"
  /\ wk[t].pc \in RunningPCs => MyRow(t).state = "running"
  /\ wk[t].pc = "waiting" => MyRow(t).state = "waiting_approval"
  /\ wk[t].pc = "resume" => MyRow(t).state = "waiting_tool"
  /\ wk[t].pc \in {"stage", "staged"} => MyRow(t).ckpt = TurnOf(MyRow(t))
  /\ wk[t].pc \in Handling =>
       /\ call[wk[t].call].run = held[t].run
       /\ call[wk[t].call].gen = held[t].gen
  /\ \A c \in Call :
       /\ CallReleased(c) /\ call[c].run = held[t].run
       /\ call[c].gen = held[t].gen
       => wk[t].pc \in {"exec", "effect"} /\ wk[t].call = c

TaskInv == \A t \in Task : Matches(held[t]) => TaskGood(t)

SnapInv ==
  snap # NoSnap =>
    /\ snap.version <= run[snap.run].version
    /\ ~snap.close => snap.call = None
    /\ snap.version = run[snap.run].version =>
         /\ run[snap.run].state = "waiting_approval"
         /\ snap.close => snap.call # None /\ call[snap.call].run = snap.run

\* All that is said of rows and calls, without the tasks.
TableInv == ParkInv /\ RowsInv /\ ReleasedInv /\ SnapInv
---------------------------------------------------------------------------
(* What a step does to rows and calls *)

\* A row no wait and no released call depends on moves on, or an expired
\* resumed call is left to an operator.
Moved(r) ==
  /\ run'[r].version = run[r].version + 1
  /\ \/ /\ run[r].state \notin {"waiting_approval", "waiting_tool", "recovery_required"}
        /\ run'[r].state \notin {"waiting_approval", "waiting_tool"}
        /\ run'[r].state \in {"leased", "running"} => run'[r].err = None
        /\ \A c \in Call : CallReleased(c) /\ call[c].run = r =>
             \/ run'[r].state = "recovery_required"
             \/ /\ run'[r].state = "running" /\ run'[r].gen = run[r].gen
                /\ run'[r].ckpt = run[r].ckpt
     \/ /\ run[r].state = "waiting_tool"
        /\ run'[r].state = "recovery_required"
        /\ run'[r].gen = run[r].gen

RowsCalm == \A r \in Run : run'[r] = run[r] \/ Aged(r) \/ Moved(r)

\* No call begins or ends to wait, or is released; decisions are taken.
CallsCalm ==
  \A c \in Call :
    /\ call[c].run # None => call'[c].run = call[c].run /\ call'[c].gen = call[c].gen
    /\ "waiting_approval" \in {call[c].state, call'[c].state} => call'[c] = call[c]
    /\ approval[c].state # "resume_claimed" => approval'[c].state # "resume_claimed"
    /\ approval[c].state \in {"resume_claimed", "revoked"} =>
         approval'[c].state \in {"resume_claimed", "revoked"}
         \/ call[c].state # "waiting_approval"
    /\ CallReleased(c)' => CallReleased(c) /\ call'[c] = call[c]

\* Every write of a row shows in its version.
RowsMove ==
  \A r \in Run :
    run'[r] = run[r] \/ Aged(r) \/ run'[r].version = run[r].version + 1

\* A call is only released together with a write of its run.
CallsMove ==
  \A c \in Call :
    /\ call[c].run # None => call'[c].run = call[c].run /\ call'[c].gen = call[c].gen
    /\ CallReleased(c)' =>
         \/ CallReleased(c) /\ call'[c] = call[c]
         \/ /\ call'[c].run \in Run
            /\ run'[call'[c].run].version = run[call'[c].run].version + 1

LEMMA CalmMoves == RowsCalm /\ CallsCalm => RowsMove /\ CallsMove
BY DEF RowsCalm, CallsCalm, RowsMove, CallsMove, Moved

\* The passing of time changes deadlines only.
LEMMA AgedFacts ==
  ASSUME IInv, NEW r \in Run, Aged(r)
  PROVE  /\ run'[r].state = run[r].state /\ run'[r].gen = run[r].gen
         /\ run'[r].err = run[r].err /\ run'[r].ckpt = run[r].ckpt
         /\ run'[r].version = run[r].version
         /\ run'[r].attempt = run[r].attempt /\ run'[r].owner = run[r].owner
         /\ run'[r].retry = run[r].retry
<1>1. run[r] \in Row
  BY DEF IInv
<1> QED
  BY <1>1 DEF Aged, Row

\* What the reconciler has read goes stale, or still says what it said.
LEMMA SnapKept ==
  ASSUME IInv, LinkInv, SnapInv, RowsMove, CallsMove, snap' \in {snap, NoSnap}
  PROVE  SnapInv'
<1> SUFFICES ASSUME snap # NoSnap, snap' = snap
    PROVE  /\ snap.version <= run'[snap.run].version
           /\ ~snap.close => snap.call = None
           /\ snap.version = run'[snap.run].version =>
                /\ run'[snap.run].state = "waiting_approval"
                /\ snap.close => snap.call # None /\ call'[snap.call].run = snap.run
  BY DEF SnapInv
<1>1. snap \in Snapshot
  BY DEF LinkInv
<1>2. snap.run \in Run /\ snap.version \in Nat /\ snap.call \in Call \cup {None}
  BY <1>1 DEF Snapshot
<1>3. run[snap.run].version \in Nat
  BY <1>2 DEF IInv, Row
<1>4. /\ snap.version <= run[snap.run].version
      /\ ~snap.close => snap.call = None
      /\ snap.version = run[snap.run].version =>
           /\ run[snap.run].state = "waiting_approval"
           /\ snap.close => snap.call # None /\ call[snap.call].run = snap.run
  BY DEF SnapInv
<1>5. CASE run'[snap.run] = run[snap.run] \/ Aged(snap.run)
  <2>1. /\ run'[snap.run].version = run[snap.run].version
        /\ run'[snap.run].state = run[snap.run].state
    BY <1>2, <1>5, AgedFacts
  <2>2. \A q \in Run : q \in Int
    BY RunAssumption
  <2>3. snap.run # None
    BY <1>2, <2>2, NoneAssumption
  <2>4. \A c \in Call : call[c].run = snap.run => call'[c].run = snap.run
    BY <2>3 DEF CallsMove
  <2> QED
    BY <1>2, <1>4, <2>1, <2>4
<1>6. CASE run'[snap.run].version = run[snap.run].version + 1
  BY <1>2, <1>3, <1>4, <1>6
<1> QED
  BY <1>2, <1>5, <1>6 DEF RowsMove

\* What the tables say of waits and released calls survives a calm step.
LEMMA CalmKept ==
  ASSUME IInv, LinkInv, TableInv, RowsCalm, CallsCalm, snap' \in {snap, NoSnap}
  PROVE  TableInv'
<1> DEFINE Same(r) == /\ run'[r].state = run[r].state /\ run'[r].gen = run[r].gen
                      /\ run'[r].err = run[r].err /\ run'[r].ckpt = run[r].ckpt
                      /\ run'[r].version = run[r].version
<1>1. \A r \in Run : Same(r) \/ Moved(r)
  BY AgedFacts DEF RowsCalm
<1>2. \A c \in Call : call'[c].state = "waiting_approval" =>
        call'[c] = call[c] /\ call[c].state = "waiting_approval" /\ call[c].run \in Run
  BY DEF CallsCalm, LinkInv
<1>3. ParkInv'
  <2>1. ASSUME NEW c \in Call, call'[c].state = "waiting_approval" PROVE Parked(c)'
    <3>1. Parked(c) /\ call'[c] = call[c] /\ call[c].run \in Run
      BY <1>2, <2>1 DEF TableInv, ParkInv
    <3>2. CASE Same(call[c].run)
      BY <1>2, <2>1, <3>1, <3>2 DEF Parked, CallsCalm
    <3>3. CASE Moved(call[c].run)
      BY <1>2, <2>1, <3>1, <3>3 DEF Parked, CallsCalm, Moved
    <3> QED
      BY <1>1, <3>1, <3>2, <3>3
  <2>2. \A c, d \in Call :
          /\ call'[c].state = "waiting_approval"
          /\ call'[d].state = "waiting_approval"
          /\ call'[c].run = call'[d].run
          => c = d
    BY <1>2 DEF TableInv, ParkInv
  <2>3. ASSUME NEW r \in Run, run'[r].state = "waiting_approval"
        PROVE  \E c \in Call : call'[c].state = "waiting_approval" /\ call'[c].run = r
    <3>1. run[r].state = "waiting_approval"
      BY <1>1, <2>3 DEF Moved
    <3> QED
      BY <3>1 DEF TableInv, ParkInv, CallsCalm
  <2> QED
    BY <2>1, <2>2, <2>3 DEF ParkInv
<1>4. RowsInv'
  BY <1>1 DEF TableInv, RowsInv, TurnOf, Moved
<1>5. ReleasedInv'
  <2> SUFFICES ASSUME NEW c \in Call, CallReleased(c)'
      PROVE  LET row == run'[call'[c].run] IN
             \/ /\ row.state = "running" /\ row.gen = call'[c].gen
                /\ ~Final(row) /\ ~Adoptable(row)
             \/ row.state = "recovery_required"
    BY DEF ReleasedInv, Final, Adoptable
  <2>1. CallReleased(c) /\ call'[c] = call[c]
    BY DEF CallsCalm
  <2>2. call[c].run \in Run
    BY <2>1 DEF CallReleased, LinkInv
  <2> DEFINE r == call[c].run
  <2>3. \/ /\ run[r].state = "running" /\ run[r].gen = call[c].gen
           /\ ~Final(run[r]) /\ ~Adoptable(run[r])
        \/ run[r].state = "recovery_required"
    BY <2>1 DEF TableInv, ReleasedInv
  <2>4. CASE Same(r)
    BY SMTT(30), <2>1, <2>3, <2>4 DEF Final, Adoptable
  <2>5. CASE Moved(r)
    BY <2>1, <2>3, <2>5 DEF Moved, Final, Adoptable
  <2> QED
    BY <1>1, <2>2, <2>4, <2>5
<1>6. SnapInv'
  BY CalmMoves, SnapKept DEF TableInv
<1> QED
  BY <1>3, <1>4, <1>5, <1>6 DEF TableInv
---------------------------------------------------------------------------
(* What a step leaves of a task's lease *)

\* A current copy shows its row.
LEMMA MatchFacts ==
  ASSUME IInv, NEW t \in Task, Matches(held[t])
  PROVE  /\ held[t] \in Lease /\ held[t].run \in Run /\ held[t].run # None
         /\ MyRow(t) \in Row /\ MyRow(t) = run[held[t].run]
         /\ MyRow(t).version \in Nat
         /\ held[t].gen = MyRow(t).gen /\ held[t].version = MyRow(t).version
<1>1. held[t] # NoLease /\ held[t] = LeaseOf(held[t].run, run[held[t].run])
  BY DEF Matches
<1>2. held[t] \in Lease /\ held[t].run \in Run
  BY <1>1, HeldRun
<1>3. MyRow(t) \in Row
  BY <1>2 DEF IInv, MyRow
<1>4. MyRow(t).version \in Nat
  BY <1>3 DEF Row
<1>5. held[t].gen = MyRow(t).gen /\ held[t].version = MyRow(t).version
  BY <1>1 DEF LeaseOf, MyRow
<1>6. \A q \in Run : q \in Int
  BY RunAssumption
<1>7. held[t].run # None
  BY <1>2, <1>6, NoneAssumption
<1> QED
  BY <1>2, <1>3, <1>4, <1>5, <1>7 DEF MyRow

\* A task that keeps its copy either sees it go stale or nothing it relies on
\* changes.
LEMMA TaskStill ==
  ASSUME IInv, LinkInv, ExecInv, TaskInv, RowsMove, CallsMove, NEW u \in Task,
         held'[u] = held[u], wk'[u] = wk[u], Matches(held[u])'
  PROVE  TaskGood(u)'
<1> DEFINE r == held[u].run
<1>1. held[u] # NoLease /\ held[u] = LeaseOf(r, run'[r])
  BY DEF Matches
<1>2. r \in Run /\ held[u] \in Lease
  BY <1>1, HeldRun
<1>3. held[u].version = run'[r].version
  BY <1>1 DEF LeaseOf
<1>4. held[u].version <= run[r].version /\ held[u].version \in Nat
  BY <1>1, <1>2 DEF IInv, HeldInv, Lease
<1>5. run[r] \in Row /\ run[r].version \in Nat
  BY <1>2 DEF IInv, Row
<1>6. run'[r].version # run[r].version + 1
  BY <1>3, <1>4, <1>5
<1>7. run'[r] = run[r] \/ Aged(r)
  BY <1>2, <1>6 DEF RowsMove
<1>8. /\ run'[r].state = run[r].state /\ run'[r].gen = run[r].gen
      /\ run'[r].ckpt = run[r].ckpt
      /\ LeaseOf(r, run'[r]) = LeaseOf(r, run[r])
  BY <1>2, <1>7, AgedFacts DEF LeaseOf
<1>9. TaskGood(u)
  BY <1>1, <1>8 DEF TaskInv, Matches
<1>10. r # None
  BY <1>1, <1>8, MatchFacts DEF Matches
<1>11. wk[u].pc \in Handling =>
         call'[wk[u].call].run = r /\ call'[wk[u].call].gen = held[u].gen
  <2>1. wk[u].pc \in Handling => wk[u].call \in Call
    BY DEF ExecInv
  <2> QED
    BY <1>9, <1>10, <2>1 DEF TaskGood, CallsMove
<1>12. ASSUME NEW c \in Call, CallReleased(c)', call'[c].run = r,
              call'[c].gen = held[u].gen
       PROVE  wk[u].pc \in {"exec", "effect"} /\ wk[u].call = c
  <2>1. CallReleased(c) /\ call'[c] = call[c]
    BY <1>6, <1>12 DEF CallsMove
  <2> QED
    BY <1>9, <1>12, <2>1 DEF TaskGood
<1>13. MyRow(u)' = run'[r] /\ MyRow(u) = run[r]
  BY DEF MyRow
<1> HIDE DEF r
<1>14. TurnOf(MyRow(u))' = TurnOf(MyRow(u))
  BY <1>8, <1>13 DEF TurnOf
<1> QED
  BY <1>8, <1>9, <1>11, <1>12, <1>13, <1>14 DEF TaskGood, r

\* A task that writes its row knows the new row, or its copy is stale.
LEMMA OwnWrite ==
  ASSUME IInv, NEW t \in Task, Matches(held[t]), NEW new \in Row,
         new.version = MyRow(t).version, Write(t, new)
  PROVE  /\ \A r \in Run : r # held[t].run => run'[r] = run[r]
         /\ run'[held[t].run] = Bumped(new)
         /\ run'[held[t].run].version = run[held[t].run].version + 1
         /\ \A u \in Task : u # t => held'[u] = held[u]
         /\ Matches(held[t])' =>
              /\ held'[t] # held[t] /\ held'[t].run = held[t].run
              /\ held'[t].gen = new.gen /\ MyRow(t)' = Bumped(new)
<1> DEFINE r == held[t].run
<1>1. /\ r \in Run /\ MyRow(t) = run[r] /\ run[r].version \in Nat
      /\ held[t].version = run[r].version
  BY MatchFacts
<1>2. run \in [Run -> Row] /\ held \in [Task -> Lease \cup {NoLease}]
  BY DEF IInv, HeldInv
<1>3. run' = [run EXCEPT ![r] = Bumped(new)]
  BY DEF Write
<1>4. Bumped(new).version = run[r].version + 1 /\ Bumped(new).gen = new.gen
  BY <1>1 DEF Bumped, Row
<1>5. run'[r] = Bumped(new)
  BY <1>1, <1>2, <1>3
<1>6. CASE held' = held
  <2>1. ~Matches(held[t])'
    <3>1. held'[t] = held[t]
      BY <1>6
    <3>2. LeaseOf(r, run'[r]).version = run[r].version + 1
      BY <1>4, <1>5 DEF LeaseOf
    <3> QED
      BY <1>1, <3>1, <3>2 DEF Matches
  <2> QED
    BY <1>1, <1>2, <1>3, <1>4, <1>5, <1>6, <2>1
<1>7. CASE held' = [held EXCEPT ![t] = LeaseOf(r, Bumped(new))]
  <2>1. held'[t] = LeaseOf(r, Bumped(new)) /\ \A u \in Task : u # t => held'[u] = held[u]
    BY <1>2, <1>7
  <2>2. /\ held'[t].run = r /\ held'[t].gen = new.gen
        /\ held'[t].version = run[r].version + 1
    BY <1>4, <2>1 DEF LeaseOf
  <2>3. held'[t] # held[t]
    BY <1>1, <2>2
  <2>4. MyRow(t)' = Bumped(new)
    BY <1>5, <2>2 DEF MyRow
  <2> QED
    BY <1>1, <1>2, <1>3, <1>4, <1>5, <2>1, <2>2, <2>3, <2>4
<1> QED
  BY <1>6, <1>7 DEF Write

\* A task that gives its row up has no current copy of it.
LEMMA OwnGiveUp ==
  ASSUME IInv, NEW t \in Task, Matches(held[t]), NEW new \in Row,
         new.version = MyRow(t).version, GiveUp(t, new)
  PROVE  /\ \A r \in Run : r # held[t].run => run'[r] = run[r]
         /\ run'[held[t].run] = Bumped(new)
         /\ run'[held[t].run].version = run[held[t].run].version + 1
         /\ \A u \in Task : u # t => held'[u] = held[u]
         /\ ~Matches(held[t])'
<1> DEFINE r == held[t].run
<1>1. /\ r \in Run /\ MyRow(t) = run[r] /\ run[r].version \in Nat
      /\ held[t].version = run[r].version
  BY MatchFacts
<1>2. run \in [Run -> Row] /\ held \in [Task -> Lease \cup {NoLease}]
  BY DEF IInv, HeldInv
<1>3. run' = [run EXCEPT ![r] = Bumped(new)]
  BY DEF GiveUp
<1>4. Bumped(new).version = run[r].version + 1
  BY <1>1 DEF Bumped, Row
<1>5. run'[r] = Bumped(new)
  BY <1>1, <1>2, <1>3
<1>6. ~Matches(held[t])'
  <2>1. held'[t] = held[t] \/ held'[t] = NoLease
    BY <1>2 DEF GiveUp
  <2>2. LeaseOf(r, run'[r]).version = run[r].version + 1
    BY <1>4, <1>5 DEF LeaseOf
  <2> QED
    BY <1>1, <2>1, <2>2 DEF Matches
<1> QED
  BY <1>1, <1>2, <1>3, <1>4, <1>5, <1>6 DEF GiveUp

\* While a task that executes no call owns a run, the run has no released call.
LEMMA NoneReleased ==
  ASSUME IInv, LinkInv, TableInv, TaskInv, NEW t \in Task, Matches(held[t]),
         MyRow(t).state # "recovery_required", wk[t].pc \notin {"exec", "effect"}
  PROVE  \A c \in Call : CallReleased(c) => call[c].run # held[t].run
<1> SUFFICES ASSUME NEW c \in Call, CallReleased(c), call[c].run = held[t].run
             PROVE  FALSE
  OBVIOUS
<1>1. MyRow(t).gen = call[c].gen
  BY DEF TableInv, ReleasedInv, MyRow
<1>2. held[t].gen = MyRow(t).gen
  BY MatchFacts
<1> QED
  BY <1>1, <1>2 DEF TaskInv, TaskGood

\* A task keeps a run that does not wait, and goes on.
LEMMA OwnStep ==
  ASSUME IInv, LinkInv, ExecInv, TableInv, TaskInv, NEW t \in Task,
         Matches(held[t]), NEW new \in Row,
         new.version = MyRow(t).version, new.gen = MyRow(t).gen,
         MyRow(t).state \in {"leased", "running"},
         new.state \in {"leased", "running"}, new.err = None,
         Write(t, new), CallsCalm, UNCHANGED snap,
         \A c \in Call : CallReleased(c) /\ call[c].run = held[t].run =>
           new.state = "running" /\ new.ckpt = MyRow(t).ckpt,
         \A c \in Call : CallReleased(c)' => call'[c].run # held[t].run,
         NEW pc \in PC, Goes(t, pc),
         pc = "leased" => new.state = "leased",
         pc \in RunningPCs => new.state = "running",
         pc \notin {"waiting", "resume"},
         pc \in {"stage", "staged"} => new.ckpt = TurnOf(new),
         pc \in Handling => wk[t].pc \in Handling
  PROVE  TableInv' /\ TaskInv'
<1> DEFINE r == held[t].run
<1>1. /\ r \in Run /\ r # None /\ MyRow(t) = run[r]
      /\ held[t].gen = MyRow(t).gen
  BY MatchFacts
<1>2. /\ \A s \in Run : s # r => run'[s] = run[s]
      /\ run'[r] = Bumped(new)
      /\ run'[r].version = run[r].version + 1
      /\ \A u \in Task : u # t => held'[u] = held[u]
      /\ Matches(held[t])' =>
              /\ held'[t] # held[t] /\ held'[t].run = r
              /\ held'[t].gen = new.gen /\ MyRow(t)' = Bumped(new)
  BY OwnWrite
<1>3. /\ Bumped(new).state = new.state /\ Bumped(new).gen = new.gen
      /\ Bumped(new).err = new.err /\ Bumped(new).ckpt = new.ckpt
  BY DEF Bumped, Row
<1> HIDE DEF r
<1>4. Moved(r)
  BY <1>1, <1>2, <1>3 DEF Moved, r
<1>5. RowsCalm
  BY <1>2, <1>4 DEF RowsCalm
<1>6. TableInv'
  BY <1>5, CalmKept
<1>7. RowsMove /\ CallsMove
  BY <1>5, CalmMoves
<1>8. wk \in [Task -> TaskState]
  BY DEF ExecInv, TaskState
<1>9. ASSUME NEW u \in Task, u # t, Matches(held[u])' PROVE TaskGood(u)'
  <2>1. wk'[u] = wk[u] /\ held'[u] = held[u]
    BY <1>2, <1>8, <1>9 DEF Goes
  <2> QED
    BY <1>7, <1>9, <2>1, TaskStill
<1>10. ASSUME Matches(held[t])' PROVE TaskGood(t)'
  <2>1. /\ held'[t] # held[t] /\ held'[t].run = r
        /\ held'[t].gen = held[t].gen /\ MyRow(t)' = Bumped(new)
    BY <1>1, <1>2, <1>10
  <2>2. wk'[t].pc = pc /\ wk'[t].call = wk[t].call
    BY <1>8, <2>1 DEF Goes, TaskState
  <2>3. pc \in Handling => call'[wk[t].call].run = r /\ call'[wk[t].call].gen = held[t].gen
    <3>1. wk[t].pc \in Handling => wk[t].call \in Call
      BY DEF ExecInv
    <3>2. wk[t].pc \in Handling =>
            call[wk[t].call].run = held[t].run /\ call[wk[t].call].gen = held[t].gen
      BY DEF TaskInv, TaskGood
    <3> QED
      BY <1>1, <3>1, <3>2 DEF CallsCalm, r
  <2>4. TurnOf(Bumped(new)) = TurnOf(new)
    BY <1>3 DEF TurnOf
  <2>5. \A c \in Call : CallReleased(c)' => call'[c].run # r
    BY DEF r
  <2>6. TurnOf(MyRow(t))' = TurnOf(new)
    BY <2>1, <2>4 DEF TurnOf
  <2> QED
    BY <1>3, <2>1, <2>2, <2>3, <2>5, <2>6 DEF TaskGood
<1> QED
  BY <1>6, <1>9, <1>10 DEF TaskInv

\* Calls that do not change are calm.
LEMMA SameCalls ==
  ASSUME UNCHANGED calls
  PROVE  CallsCalm
BY DEF calls, CallsCalm, CallReleased

\* The same for a task that executes no call and leaves the calls alone.
LEMMA PlainStep ==
  ASSUME IInv, LinkInv, ExecInv, TableInv, TaskInv, NEW t \in Task,
         Matches(held[t]), NEW new \in Row,
         new.version = MyRow(t).version, new.gen = MyRow(t).gen,
         MyRow(t).state \in {"leased", "running"},
         new.state \in {"leased", "running"}, new.err = None,
         Write(t, new), UNCHANGED calls, UNCHANGED snap,
         wk[t].pc \notin {"exec", "effect"},
         NEW pc \in PC, Goes(t, pc),
         pc = "leased" => new.state = "leased",
         pc \in RunningPCs => new.state = "running",
         pc \notin {"waiting", "resume"},
         pc \in {"stage", "staged"} => new.ckpt = TurnOf(new),
         pc \notin Handling
  PROVE  TableInv' /\ TaskInv'
<1>1. \A c \in Call : CallReleased(c) => call[c].run # held[t].run
  BY NoneReleased
<1>2. \A c \in Call : CallReleased(c)' => call'[c].run # held[t].run
  BY <1>1 DEF calls, CallReleased
<1>3. CallsCalm
  BY SameCalls
<1> QED
  BY <1>1, <1>2, <1>3, OwnStep
---------------------------------------------------------------------------
(* What the tasks do *)

LEMMA RenewedRow ==
  ASSUME NEW row \in Row, NEW e \in Reading
  PROVE  LET n == Renewed(row, e) IN
         /\ n \in Row
         /\ n.state = row.state /\ n.gen = row.gen /\ n.version = row.version
         /\ n.err = row.err /\ n.ckpt = row.ckpt /\ n.attempt = row.attempt
<1>1. LeaseTtl + e \in Deadline
  BY LimitAssumption DEF Reading, Deadline
<1> QED
  BY <1>1 DEF Renewed, Row

LEMMA RenewedInState ==
  ASSUME NEW row \in Row, NEW e \in Reading, NEW s \in AiRunStates
  PROVE  LET n == [Renewed(row, e) EXCEPT !.state = s] IN
         /\ n \in Row
         /\ n.state = s /\ n.gen = row.gen /\ n.version = row.version
         /\ n.err = row.err /\ n.ckpt = row.ckpt
<1>1. LeaseTtl + e \in Deadline
  BY LimitAssumption DEF Reading, Deadline
<1> QED
  BY <1>1 DEF Renewed, Row

LEMMA RenewedWithCheckpoint ==
  ASSUME NEW row \in Row, NEW e \in Reading, NEW k \in Checkpoint \cup {None}
  PROVE  LET n == [Renewed(row, e) EXCEPT !.ckpt = k] IN
         /\ n \in Row
         /\ n.state = row.state /\ n.gen = row.gen /\ n.version = row.version
         /\ n.err = row.err /\ n.ckpt = k
<1>1. LeaseTtl + e \in Deadline
  BY LimitAssumption DEF Reading, Deadline
<1> QED
  BY <1>1 DEF Renewed, Row

States == {"leased", "running", "waiting_tool", "waiting_approval",
           "recovery_required", "cancelled", "failed", "completed"}

LEMMA StatesAreStates == States \subseteq AiRunStates
BY DEF States, AiRunStates, Terminal, CompletionStates

\* The row of a fenced task in one of the two states in which nothing waits.
LEMMA OwnRow ==
  ASSUME IInv, TableInv, NEW t \in Task, NEW e \in Reading, Fenced(t, e)
  PROVE  /\ Matches(held[t]) /\ MyRow(t) \in Row
         /\ MyRow(t).state \in {"leased", "running"} => MyRow(t).err = None
         /\ MyRow(t).state \in {"leased", "running"} =>
              MyRow(t).attempt = MyRow(t).gen
<1>1. Matches(held[t]) /\ held[t].run \in Run /\ RowInv(MyRow(t))
  BY FencedFacts DEF Fenced
<1>2. MyRow(t).state \in {"leased", "running"} =>
        MyRow(t).attempt = MyRow(t).gen
  BY <1>1 DEF RowInv, WellFormed, LeasedStates, WorkerStates
<1> QED
  BY <1>1, <1>2 DEF TableInv, RowsInv, MyRow, RowInv

\* start
LEMMA StartTable ==
  ASSUME IInv, LinkInv, ExecInv, TableInv, TaskInv, NEW t \in Task,
         NEW e \in Reading, StartRun(t, e)
  PROVE  TableInv' /\ TaskInv'
<1> DEFINE new == [Renewed(MyRow(t), e) EXCEPT !.state = "running"]
<1>1. /\ Fenced(t, e) /\ MyRow(t).state = "leased" /\ wk[t].pc = "leased"
      /\ Write(t, new) /\ Goes(t, "plan") /\ UNCHANGED calls /\ UNCHANGED snap
  BY DEF StartRun, Start, At, calls
<1>2. Matches(held[t]) /\ MyRow(t) \in Row /\ MyRow(t).err = None
  BY <1>1, OwnRow
<1>3. /\ new \in Row /\ new.state = "running" /\ new.gen = MyRow(t).gen
      /\ new.version = MyRow(t).version /\ new.err = MyRow(t).err
  BY <1>2, RenewedInState, StatesAreStates DEF States
<1> HIDE DEF new
<1>4. "plan" \in PC
  BY DEF PC
<1> QED
  BY <1>1, <1>2, <1>3, <1>4, PlainStep DEF Handling

\* A heartbeat, in the turn.
LEMMA HeartbeatTable ==
  ASSUME IInv, LinkInv, ExecInv, TableInv, TaskInv, NEW t \in Task,
         NEW e \in Reading, TurnHeartbeat(t, e)
  PROVE  TableInv' /\ TaskInv'
<1> DEFINE new == Renewed(MyRow(t), e)
<1>1. /\ Fenced(t, e) /\ wk[t].pc = "turn" /\ MyRow(t).state \in {"leased", "running"}
      /\ Write(t, new) /\ Goes(t, "turn") /\ UNCHANGED calls /\ UNCHANGED snap
  BY DEF TurnHeartbeat, Heartbeat, At, calls
<1>2. Matches(held[t]) /\ MyRow(t) \in Row /\ MyRow(t).err = None
  BY <1>1, OwnRow
<1>3. MyRow(t).state = "running"
  BY <1>1, <1>2 DEF TaskInv, TaskGood, RunningPCs
<1>4. /\ new \in Row /\ new.state = "running" /\ new.gen = MyRow(t).gen
      /\ new.version = MyRow(t).version /\ new.err = MyRow(t).err
  BY <1>2, <1>3, RenewedRow
<1> HIDE DEF new
<1>5. "turn" \in PC
  BY DEF PC
<1> QED
  BY <1>1, <1>2, <1>3, <1>4, <1>5, PlainStep DEF Handling

\* Linking a checkpoint and going on.
LEMMA CheckpointTable ==
  ASSUME IInv, LinkInv, ExecInv, TableInv, TaskInv, NEW t \in Task,
         NEW e \in Reading, NEW kind \in CheckpointKinds, LinkCheckpoint(t, e, kind),
         NEW pc \in {"stage", "output", "done", "plan"}, Goes(t, pc),
         UNCHANGED calls, UNCHANGED snap,
         wk[t].pc \notin {"exec", "effect"},
         pc = "stage" => kind = "provider_turn_persisted"
  PROVE  TableInv' /\ TaskInv'
<1> DEFINE k == [gen |-> MyRow(t).attempt, kind |-> kind]
           new == [Renewed(MyRow(t), e) EXCEPT !.ckpt = k]
<1>1. Fenced(t, e) /\ MyRow(t).state = "running" /\ Write(t, new)
  BY DEF LinkCheckpoint
<1>2. /\ Matches(held[t]) /\ MyRow(t) \in Row /\ MyRow(t).err = None
      /\ MyRow(t).attempt = MyRow(t).gen
  BY <1>1, OwnRow
<1>3. MyRow(t).attempt \in Nat
  BY <1>2 DEF Row
<1>4. k \in Checkpoint \cup {None}
  BY <1>3 DEF Checkpoint
<1>5. k.gen = MyRow(t).gen /\ k.kind = kind
  BY <1>2
<1>6. kind = "provider_turn_persisted" =>
        k = [gen |-> MyRow(t).gen, kind |-> "provider_turn_persisted"]
  BY <1>2
<1> HIDE DEF k
<1>7. /\ new \in Row /\ new.state = "running" /\ new.gen = MyRow(t).gen
      /\ new.version = MyRow(t).version /\ new.err = None /\ new.ckpt = k
  BY <1>1, <1>2, <1>4, RenewedWithCheckpoint
<1> HIDE DEF new
<1>8. pc = "stage" => new.ckpt = TurnOf(new)
  BY <1>6, <1>7 DEF TurnOf
<1>9. pc \in PC /\ pc \notin Handling /\ pc \in RunningPCs
  BY DEF PC, Handling, RunningPCs
<1>10. pc \in {"stage", "staged"} => new.ckpt = TurnOf(new)
  BY <1>8
<1>11. pc # "leased" /\ pc \notin {"waiting", "resume"}
  OBVIOUS
<1> QED
  BY <1>1, <1>2, <1>7, <1>9, <1>10, <1>11, PlainStep

\* begin_turn, which consumes an adopted batch.
LEMMA BeginTurnTable ==
  ASSUME IInv, LinkInv, ExecInv, TableInv, TaskInv, NEW t \in Task,
         NEW e \in Reading, BeginTurn(t, e)
  PROVE  TableInv' /\ TaskInv'
<1>1. wk[t].pc = "plan" /\ UNCHANGED calls /\ UNCHANGED snap
  BY DEF BeginTurn, At, calls
<1>2. CASE ConsumeAdoptionCheckpoint(t, e) /\ Goes(t, "turn")
  <2> DEFINE new == [Renewed(MyRow(t), e) EXCEPT !.ckpt = None]
  <2>1. /\ Fenced(t, e) /\ MyRow(t).state = "running" /\ Write(t, new)
        /\ Goes(t, "turn")
    BY <1>2 DEF ConsumeAdoptionCheckpoint
  <2>2. Matches(held[t]) /\ MyRow(t) \in Row /\ MyRow(t).err = None
    BY <2>1, OwnRow
  <2>3. /\ new \in Row /\ new.state = "running" /\ new.gen = MyRow(t).gen
        /\ new.version = MyRow(t).version /\ new.err = None
    BY <2>1, <2>2, RenewedWithCheckpoint
  <2> HIDE DEF new
  <2>4. "turn" \in PC
    BY DEF PC
  <2> QED
    BY <1>1, <2>1, <2>2, <2>3, <2>4, PlainStep DEF Handling
<1>3. CASE UNCHANGED vars /\ wk' = [wk EXCEPT ![t].pc = "turn"]
  <2>1. UNCHANGED <<run, held>>
    BY <1>3 DEF vars
  <2>2. RowsCalm /\ CallsCalm
    BY <1>1, <2>1, SameCalls DEF RowsCalm
  <2>3. TableInv' /\ RowsMove /\ CallsMove
    BY <1>1, <2>2, CalmKept, CalmMoves
  <2>4. wk \in [Task -> TaskState]
    BY DEF ExecInv, TaskState
  <2>5. ASSUME NEW u \in Task, u # t, Matches(held[u])' PROVE TaskGood(u)'
    <3>1. held'[u] = held[u] /\ wk'[u] = wk[u]
      BY <1>3, <2>1, <2>4, <2>5
    <3> QED
      BY <2>3, <2>5, <3>1, TaskStill
  <2>6. ASSUME Matches(held[t])' PROVE TaskGood(t)'
    <3>1. wk'[t].pc = "turn" /\ held'[t] = held[t] /\ MyRow(t)' = MyRow(t)
      BY <1>3, <2>1, <2>4 DEF TaskState, MyRow
    <3>2. TaskGood(t)
      BY <2>1, <2>6 DEF Matches, TaskInv
    <3>3. MyRow(t).state = "running"
      BY <1>1, <3>2 DEF TaskGood, RunningPCs
    <3>4. \A c \in Call : ~(CallReleased(c) /\ call[c].run = held[t].run
                              /\ call[c].gen = held[t].gen)
      BY <1>1, <3>2 DEF TaskGood
    <3>5. \A c \in Call : ~(CallReleased(c)' /\ call'[c].run = held[t].run
                              /\ call'[c].gen = held[t].gen)
      BY <1>1, <3>4 DEF CallReleased, calls
    <3> QED
      BY <3>1, <3>3, <3>5 DEF TaskGood, Handling, RunningPCs
  <2> QED
    BY <2>3, <2>5, <2>6 DEF TaskInv
<1> QED
  BY <1>2, <1>3 DEF BeginTurn
\* claim_next
LEMMA ClaimTable ==
  ASSUME IInv, LinkInv, ExecInv, TableInv, TaskInv, NEW t \in Task,
         NEW w \in WorkerId, NEW e \in Reading, Claim(t, w, e)
  PROVE  TableInv' /\ TaskInv'
<1>0. ClaimNext(t, w, e) /\ UNCHANGED calls /\ UNCHANGED snap
  BY DEF Claim, calls
<1>1. PICK r \in Run :
        /\ run[r].state \in ClaimableStates
        /\ run' = [run EXCEPT ![r] = Bumped(ClaimedRow(run[r], w, e))]
        /\ \/ held' = [held EXCEPT ![t] =
                          LeaseOf(r, Bumped(ClaimedRow(run[r], w, e)))]
           \/ UNCHANGED held
  BY <1>0 DEF ClaimNext, Scans, InState, ClaimableStates
<1> DEFINE new == Bumped(ClaimedRow(run[r], w, e))
<1>2. run[r] \in Row /\ run \in [Run -> Row] /\ held \in [Task -> Lease \cup {NoLease}]
  BY DEF IInv, HeldInv
<1>3. new.state = "leased" /\ new.err = None /\ new.version = run[r].version + 1
  BY <1>2 DEF ClaimedRow, Renewed, Bumped, Row
<1>4. run' = [run EXCEPT ![r] = new]
      /\ (held' = [held EXCEPT ![t] = LeaseOf(r, new)] \/ held' = held)
  BY <1>1
<1>5. held[t] = NoLease /\ wk[t].pc = "idle"
      /\ (wk' = IF held'[t] = NoLease THEN wk ELSE [wk EXCEPT ![t].pc = "leased"])
  BY <1>0 DEF Claim, ClaimNext, At
<1> HIDE DEF new
<1>6. \A c \in Call : CallReleased(c) => call[c].run # r
  BY <1>1 DEF TableInv, ReleasedInv, ClaimableStates
<1>7. Moved(r) /\ \A s \in Run : s # r => run'[s] = run[s]
  BY <1>1, <1>2, <1>3, <1>4, <1>6 DEF Moved, ClaimableStates
<1>8. RowsCalm /\ CallsCalm
  BY <1>0, <1>7, SameCalls DEF RowsCalm
<1>9. TableInv' /\ RowsMove /\ CallsMove
  BY <1>0, <1>8, CalmKept, CalmMoves
<1>10. wk \in [Task -> TaskState]
  BY DEF ExecInv, TaskState
<1>11. ASSUME NEW u \in Task, u # t, Matches(held[u])' PROVE TaskGood(u)'
  <2>1. held'[u] = held[u] /\ wk'[u] = wk[u]
    BY <1>2, <1>4, <1>5, <1>10, <1>11
  <2> QED
    BY <1>9, <1>11, <2>1, TaskStill
<1>12. ASSUME Matches(held[t])' PROVE TaskGood(t)'
  <2>1. held'[t] = LeaseOf(r, new) /\ held'[t] # NoLease
    BY <1>2, <1>4, <1>5, <1>12 DEF Matches
  <2>2. wk'[t].pc = "leased"
    BY <1>5, <1>10, <2>1 DEF TaskState
  <2>3. held'[t].run = r
    BY <2>1 DEF LeaseOf
  <2>4. MyRow(t)' = new
    BY <1>2, <1>4, <2>3 DEF MyRow
  <2>5. \A c \in Call : CallReleased(c)' => call'[c].run # r
    BY <1>0, <1>6 DEF CallReleased, calls
  <2> QED
    BY <1>3, <2>2, <2>3, <2>4, <2>5 DEF TaskGood, RunningPCs, Handling
<1> QED
  BY <1>9, <1>11, <1>12 DEF TaskInv

\* begin_tool_call writes the call, not the run.
LEMMA BeginCallTable ==
  ASSUME IInv, LinkInv, ExecInv, PairInv, TableInv, TaskInv, NEW t \in Task,
         NEW e \in Reading, NEW c \in Call, BeginToolCall(t, e, c)
  PROVE  TableInv' /\ TaskInv'
<1>1. /\ wk[t].pc = "stage" /\ Fenced(t, e) /\ call[c] = NoCall
      /\ call' = [call EXCEPT ![c] =
           [state |-> "executing", run |-> held[t].run, gen |-> held[t].gen]]
      /\ \/ wk' = [wk EXCEPT ![t] = [@ EXCEPT !.pc = "staged", !.call = c]]
         \/ wk' = [wk EXCEPT ![t].pc = "lost"]
      /\ UNCHANGED run /\ UNCHANGED held /\ UNCHANGED approval /\ UNCHANGED snap
  BY DEF BeginToolCall, At
<1>2. call \in [Call -> [state : CallStates, run : Run \cup {None}, gen : Nat]]
  BY DEF LinkInv
<1>3. approval[c].state = "none"
  BY <1>1 DEF PairInv, NoCall
<1>4. /\ call'[c].state = "executing" /\ call'[c].run = held[t].run
      /\ call'[c].gen = held[t].gen
      /\ \A d \in Call : d # c => call'[d] = call[d]
  BY <1>1, <1>2
<1>5. CallsCalm
  BY <1>1, <1>3, <1>4 DEF CallsCalm, CallReleased, NoCall
<1>6. RowsCalm
  BY <1>1 DEF RowsCalm
<1>7. TableInv' /\ RowsMove /\ CallsMove
  BY <1>1, <1>5, <1>6, CalmKept, CalmMoves
<1>8. wk \in [Task -> TaskState]
  BY DEF ExecInv, TaskState
<1>9. ASSUME NEW u \in Task, u # t, Matches(held[u])' PROVE TaskGood(u)'
  <2>1. held'[u] = held[u] /\ wk'[u] = wk[u]
    BY <1>1, <1>8, <1>9
  <2> QED
    BY <1>7, <1>9, <2>1, TaskStill
<1>10. TaskGood(t)'
  <2>1. TaskGood(t)
    BY <1>1 DEF Fenced, TaskInv
  <2>2. MyRow(t)' = MyRow(t) /\ held'[t] = held[t]
    BY <1>1 DEF MyRow
  <2>3. wk'[t].pc \in {"staged", "lost"} /\ (wk'[t].pc = "staged" => wk'[t].call = c)
    BY ZenonT(30), <1>1, <1>8 DEF TaskState
  <2>4. MyRow(t).state = "running" /\ MyRow(t).ckpt = TurnOf(MyRow(t))
    BY <1>1, <2>1 DEF TaskGood, RunningPCs
  <2>5. \A d \in Call : ~(CallReleased(d) /\ call[d].run = held[t].run
                          /\ call[d].gen = held[t].gen)
    BY <1>1, <2>1 DEF TaskGood
  <2>6. \A d \in Call : CallReleased(d)' => CallReleased(d) /\ call'[d] = call[d]
    BY <1>5 DEF CallsCalm
  <2>7. TurnOf(MyRow(t))' = TurnOf(MyRow(t))
    BY <2>2 DEF TurnOf
  <2> QED
    BY <1>4, <2>2, <2>3, <2>4, <2>5, <2>6, <2>7 DEF TaskGood, RunningPCs, Handling
<1> QED
  BY <1>7, <1>9, <1>10 DEF TaskInv

\* finish_completed, finish_failed, finish_recovery
LEMMA EndTable ==
  ASSUME IInv, LinkInv, ExecInv, TableInv, TaskInv, NEW t \in Task,
         NEW e \in Reading, End(t, e)
  PROVE  TableInv' /\ TaskInv'
<1>1. PICK final \in Endings(wk[t].pc), code \in {None, "other"} : Finish(t, e, final, code)
  BY DEF End
<1> DEFINE new == [Released(MyRow(t)) EXCEPT !.state = final, !.err = code]
<1>2. Fenced(t, e) /\ GiveUp(t, new) /\ UNCHANGED calls /\ UNCHANGED snap /\ Returns(t)
  BY <1>1 DEF Finish, Conclude, End, calls
<1>3. /\ wk[t].pc \in RunningPCs
      /\ final \in {"failed", "recovery_required", "completed"}
      /\ wk[t].pc \in {"exec", "effect"} => final = "recovery_required"
  <2>1. wk[t].pc \in {"plan", "stage", "turn", "staged", "output", "exec", "effect",
                      "batch", "done"}
    BY <1>1 DEF Endings
  <2>2. final \in {"failed", "recovery_required", "completed"}
    BY <1>1 DEF Endings
  <2>3. wk[t].pc \in {"exec", "effect"} => final = "recovery_required"
    BY <1>1 DEF Endings
  <2> QED
    BY <2>1, <2>2, <2>3 DEF RunningPCs
<1>4. Matches(held[t]) /\ MyRow(t) \in Row /\ held[t].run \in Run /\ MyRow(t) = run[held[t].run]
  BY <1>2, OwnRow, MatchFacts
<1>5. MyRow(t).state = "running"
  BY <1>3, <1>4 DEF TaskInv, TaskGood
<1>6. final \in AiRunStates /\ code \in ErrorCodes \cup {None}
  BY <1>3 DEF AiRunStates, ErrorCodes
<1>7. /\ new \in Row /\ new.state = final /\ new.version = MyRow(t).version
      /\ Bumped(new).state = final
  BY <1>4, <1>6 DEF Released, Row, Bumped, Deadline
<1> HIDE DEF new
<1>8. /\ \A r \in Run : r # held[t].run => run'[r] = run[r]
      /\ run'[held[t].run] = Bumped(new)
      /\ run'[held[t].run].version = run[held[t].run].version + 1
      /\ \A u \in Task : u # t => held'[u] = held[u]
      /\ ~Matches(held[t])'
  BY <1>2, <1>4, <1>7, OwnGiveUp
<1>9. \A c \in Call : CallReleased(c) /\ call[c].run = held[t].run =>
        final = "recovery_required"
  BY <1>3, <1>4, <1>5, NoneReleased
<1>10. Moved(held[t].run)
  BY <1>3, <1>4, <1>5, <1>7, <1>8, <1>9 DEF Moved
<1>11. RowsCalm /\ CallsCalm
  BY <1>2, <1>8, <1>10, SameCalls DEF RowsCalm
<1>12. TableInv' /\ RowsMove /\ CallsMove
  BY <1>2, <1>11, CalmKept, CalmMoves
<1>13. wk \in [Task -> TaskState]
  BY DEF ExecInv, TaskState
<1>14. ASSUME NEW u \in Task, u # t, Matches(held[u])' PROVE TaskGood(u)'
  <2>1. held'[u] = held[u] /\ wk'[u] = wk[u]
    BY <1>2, <1>8, <1>13, <1>14 DEF Returns
  <2> QED
    BY <1>12, <1>14, <2>1, TaskStill
<1> QED
  BY <1>8, <1>12, <1>14 DEF TaskInv

\* finish_tool_call puts the result of the released call on record.
LEMMA FinishCallTable ==
  ASSUME IInv, LinkInv, ExecInv, TableInv, TaskInv, NEW t \in Task,
         NEW e \in Reading, FinishToolCall(t, e)
  PROVE  TableInv' /\ TaskInv'
<1> DEFINE c == CallOf(t)
           new == Renewed(MyRow(t), e)
<1>1. /\ wk[t].pc = "effect" /\ MyRow(t).state = "running"
      /\ Fenced(t, e) /\ Write(t, new)
      /\ call[c].state = "executing" /\ SetCall(c, "completed")
      /\ UNCHANGED approval /\ UNCHANGED snap
      /\ (Goes(t, "plan") \/ Goes(t, "batch"))
  BY DEF FinishToolCall, Heartbeat, At
<1>2. c \in Call /\ wk[t].call = c
  BY <1>1 DEF ExecInv, CallOf, Handling
<1>3. Matches(held[t]) /\ MyRow(t) \in Row /\ MyRow(t).err = None
  BY <1>1, OwnRow
<1>4. /\ new \in Row /\ new.state = "running" /\ new.gen = MyRow(t).gen
      /\ new.version = MyRow(t).version /\ new.err = None
      /\ new.ckpt = MyRow(t).ckpt
  BY <1>1, <1>3, RenewedRow
<1> HIDE DEF c, new
<1>5. /\ call'[c].state = "completed" /\ call'[c].run = call[c].run
      /\ call'[c].gen = call[c].gen
      /\ \A d \in Call : d # c => call'[d] = call[d]
  BY <1>1, <1>2 DEF LinkInv, SetCall
<1>6. CallsCalm
  BY <1>1, <1>5 DEF CallsCalm, CallReleased
<1>7. \A d \in Call : CallReleased(d) /\ call[d].run = held[t].run => d = c
  <2> TAKE d \in Call
  <2> HAVE CallReleased(d) /\ call[d].run = held[t].run
  <2>1. MyRow(t).gen = call[d].gen
    BY <1>1 DEF TableInv, ReleasedInv, MyRow
  <2>2. held[t].gen = MyRow(t).gen
    BY <1>3, MatchFacts
  <2> QED
    BY <1>2, <1>3, <2>1, <2>2 DEF TaskInv, TaskGood
<1>8. \A d \in Call : CallReleased(d)' => call'[d].run # held[t].run
  BY <1>5, <1>6, <1>7 DEF CallsCalm, CallReleased
<1>9. CASE Goes(t, "plan")
  <2>1. "plan" \in PC
    BY DEF PC
  <2> QED
    BY <1>1, <1>3, <1>4, <1>6, <1>8, <1>9, <2>1, OwnStep DEF Handling
<1>10. CASE Goes(t, "batch")
  <2>1. "batch" \in PC
    BY DEF PC
  <2>2. wk[t].pc \in Handling
    BY <1>1 DEF Handling
  <2> QED
    BY <1>1, <1>3, <1>4, <1>6, <1>8, <1>10, <2>1, <2>2, OwnStep
<1> QED
  BY <1>1, <1>9, <1>10
\* request_approval parks the call and the run together.
LEMMA RequestTable ==
  ASSUME IInv, LinkInv, ExecInv, PairInv, TableInv, TaskInv, NEW t \in Task,
         NEW e \in Reading, Request(t, e)
  PROVE  TableInv' /\ TaskInv'
<1> DEFINE c == CallOf(t)
           r == held[t].run
           new == [Renewed(MyRow(t), e) EXCEPT !.state = "waiting_approval"]
<1>1. /\ wk[t].pc = "staged" /\ MyRow(t).state = "running"
      /\ Fenced(t, e) /\ Write(t, new)
      /\ call[c].state = "executing" /\ SetCall(c, "waiting_approval")
      /\ approval' = [approval EXCEPT ![c] =
           [state |-> "pending", left |-> ApprovalTtl + e]]
      /\ approval[c] = NoApproval
      /\ UNCHANGED snap /\ Goes(t, "waiting")
  BY DEF Request, RequestApproval, At
<1>2. c \in Call /\ wk[t].call = c
  BY <1>1 DEF ExecInv, CallOf, Handling
<1>3. /\ Matches(held[t]) /\ MyRow(t) \in Row /\ MyRow(t).err = None
      /\ r \in Run /\ r # None /\ MyRow(t) = run[r] /\ held[t].gen = run[r].gen
  BY <1>1, OwnRow, MatchFacts
<1>4. /\ new \in Row /\ new.state = "waiting_approval" /\ new.gen = run[r].gen
      /\ new.version = MyRow(t).version /\ new.err = None
      /\ new.ckpt = run[r].ckpt
  BY <1>3, RenewedInState, StatesAreStates DEF States
<1>5. TaskGood(t)
  BY <1>3 DEF TaskInv
<1>6. call[c].run = r /\ call[c].gen = run[r].gen /\ run[r].ckpt = TurnOf(run[r])
  BY <1>1, <1>2, <1>3, <1>5 DEF TaskGood, Handling
<1>7. \A d \in Call : CallReleased(d) => call[d].run # r
  BY <1>1, <1>3, NoneReleased
<1> HIDE DEF c, new
<1>8. /\ \A s \in Run : s # r => run'[s] = run[s]
      /\ run'[r] = Bumped(new)
      /\ run'[r].version = run[r].version + 1
      /\ \A u \in Task : u # t => held'[u] = held[u]
      /\ Matches(held[t])' =>
              /\ held'[t] # held[t] /\ held'[t].run = r
              /\ held'[t].gen = new.gen /\ MyRow(t)' = Bumped(new)
  BY <1>1, <1>3, <1>4, OwnWrite
<1> HIDE DEF r
<1>9. /\ Bumped(new).state = new.state /\ Bumped(new).gen = new.gen
      /\ Bumped(new).err = new.err /\ Bumped(new).ckpt = new.ckpt
  BY <1>4 DEF Bumped, Row
<1>10. /\ call'[c].state = "waiting_approval" /\ call'[c].run = r
       /\ call'[c].gen = call[c].gen
       /\ \A d \in Call : d # c => call'[d] = call[d] /\ approval'[d] = approval[d]
       /\ approval'[c].state = "pending"
  BY <1>1, <1>2, <1>6 DEF LinkInv, ExecInv, SetCall
<1>11. RowsMove
  BY <1>8 DEF RowsMove
<1>12. \A d \in Call : CallReleased(d)' => CallReleased(d) /\ call'[d] = call[d]
  BY <1>10 DEF CallReleased
<1>13. CallsMove
  BY <1>6, <1>10, <1>12 DEF CallsMove
<1>14. \A d \in Call : call[d].state = "waiting_approval" =>
         call[d].run \in Run /\ call[d].run # r /\ d # c
  BY <1>1, <1>3 DEF TableInv, ParkInv, Parked, LinkInv
<1>15. ParkInv'
  <2>1. ASSUME NEW d \in Call, call'[d].state = "waiting_approval" PROVE Parked(d)'
    <3>1. CASE d = c
      BY <1>4, <1>6, <1>8, <1>9, <1>10, <3>1 DEF Parked
    <3>2. CASE d # c
      <4>1. /\ call'[d] = call[d] /\ approval'[d] = approval[d]
            /\ run'[call[d].run] = run[call[d].run] /\ Parked(d)
        BY <1>8, <1>10, <1>14, <2>1, <3>2 DEF TableInv, ParkInv
      <4> QED
        BY <4>1 DEF Parked
    <3> QED
      BY <3>1, <3>2
  <2>2. \A d, f \in Call :
          /\ call'[d].state = "waiting_approval"
          /\ call'[f].state = "waiting_approval"
          /\ call'[d].run = call'[f].run
          => d = f
    BY <1>10, <1>14 DEF TableInv, ParkInv
  <2>3. ASSUME NEW s \in Run, run'[s].state = "waiting_approval"
        PROVE  \E d \in Call : call'[d].state = "waiting_approval" /\ call'[d].run = s
    <3>1. CASE s = r
      BY <1>2, <1>10, <3>1
    <3>2. CASE s # r
      <4>1. PICK d \in Call : call[d].state = "waiting_approval" /\ call[d].run = s
        BY <1>8, <2>3, <3>2 DEF TableInv, ParkInv
      <4>2. call'[d] = call[d]
        BY <1>10, <1>14, <4>1
      <4> QED
        BY <4>1, <4>2
    <3> QED
      BY <3>1, <3>2
  <2> QED
    BY <2>1, <2>2, <2>3 DEF ParkInv
<1>16. RowsInv'
  <2>1. Bumped(new).ckpt = TurnOf(Bumped(new))
    BY <1>4, <1>6, <1>9 DEF TurnOf
  <2>2. TurnOf(run'[r]) = TurnOf(Bumped(new))
    BY <1>8
  <2>3. \A s \in Run : s # r => TurnOf(run'[s]) = TurnOf(run[s])
    BY <1>8
  <2> QED
    BY ZenonT(30), <1>4, <1>8, <1>9, <2>1, <2>2, <2>3 DEF TableInv, RowsInv, TurnOf
<1>17. ReleasedInv'
  <2> SUFFICES ASSUME NEW d \in Call, CallReleased(d)'
      PROVE  LET row == run'[call'[d].run] IN
             \/ /\ row.state = "running" /\ row.gen = call'[d].gen
                /\ ~Final(row) /\ ~Adoptable(row)
             \/ row.state = "recovery_required"
    BY DEF ReleasedInv, Final, Adoptable
  <2>1. CallReleased(d) /\ call'[d] = call[d] /\ call[d].run # r
    BY <1>7, <1>12
  <2>2. call[d].run \in Run
    BY <2>1 DEF CallReleased, LinkInv
  <2> QED
    BY <1>8, <2>1, <2>2 DEF TableInv, ReleasedInv
<1>18. TableInv'
  BY <1>1, <1>11, <1>13, <1>15, <1>16, <1>17, SnapKept DEF TableInv
<1>19. wk \in [Task -> TaskState]
  BY DEF ExecInv, TaskState
<1>20. ASSUME NEW u \in Task, u # t, Matches(held[u])' PROVE TaskGood(u)'
  <2>1. held'[u] = held[u] /\ wk'[u] = wk[u]
    BY <1>1, <1>8, <1>19, <1>20 DEF Goes
  <2> QED
    BY <1>11, <1>13, <1>20, <2>1, TaskStill
<1>21. ASSUME Matches(held[t])' PROVE TaskGood(t)'
  <2>1. /\ held'[t] # held[t] /\ held'[t].run = r
        /\ held'[t].gen = run[r].gen /\ MyRow(t)' = Bumped(new)
    BY <1>4, <1>8, <1>21
  <2>2. wk'[t].pc = "waiting" /\ wk'[t].call = c
    BY <1>1, <1>2, <1>19, <2>1 DEF Goes, TaskState
  <2>3. \A d \in Call : CallReleased(d)' => call'[d].run # r
    BY <1>7, <1>12
  <2> QED
    BY <1>4, <1>6, <1>9, <1>10, <2>1, <2>2, <2>3 DEF TaskGood, RunningPCs
<1> QED
  BY <1>18, <1>20, <1>21 DEF TaskInv

\* claim_next_approved gives one approved call and its run to a task.
LEMMA ClaimApprovedTable ==
  ASSUME IInv, LinkInv, ExecInv, PairInv, TableInv, TaskInv, NEW t \in Task,
         NEW w \in WorkerId, NEW e \in Reading, ClaimNextApproved(t, w, e)
  PROVE  TableInv' /\ TaskInv'
<1>1. PICK passed \in SUBSET {d \in Approved : Reached(approval[d].left, e)},
           c \in Approved :
        /\ Resumable(c)
        /\ ClaimApproved(t, w, e, call[c].run)
        /\ c \notin passed
        /\ approval' = [d \in Call |->
             IF d \in passed THEN [approval[d] EXCEPT !.state = "expired"]
             ELSE IF d = c THEN [approval[d] EXCEPT !.state = "resume_claimed"]
             ELSE approval[d]]
        /\ wk' = IF held'[t] = NoLease THEN wk
                 ELSE [wk EXCEPT ![t] = [pc |-> "resume", call |-> c,
                                         direct |-> FALSE]]
  BY DEF ClaimNextApproved
<1> DEFINE r == call[c].run
           new == Bumped([Renewed(run[r], e) EXCEPT
                   !.state = "waiting_tool", !.owner = w,
                   !.err = "approval_resume_claimed"])
<1>2. c \in Call /\ approval[c].state = "approved" /\ UNCHANGED call /\ UNCHANGED snap
  BY DEF Approved, ClaimNextApproved
<1>3. /\ call[c].state = "waiting_approval" /\ run[r].state = "waiting_approval"
      /\ run[r].gen = call[c].gen /\ r \in Run
  BY <1>1, <1>2 DEF Resumable, LinkInv
<1>4. run[r] \in Row /\ run \in [Run -> Row] /\ held \in [Task -> Lease \cup {NoLease}]
  BY <1>3 DEF IInv, HeldInv
<1>5. /\ run' = [run EXCEPT ![r] = new]
      /\ held[t] = NoLease
      /\ (held' = [held EXCEPT ![t] = LeaseOf(r, new)] \/ held' = held)
  BY <1>1 DEF ClaimApproved
<1>6. /\ new.state = "waiting_tool" /\ new.gen = run[r].gen
      /\ new.version = run[r].version + 1 /\ new.ckpt = run[r].ckpt
  BY <1>4 DEF Renewed, Bumped, Row
<1> HIDE DEF new, r
<1>7. run'[r] = new /\ \A s \in Run : s # r => run'[s] = run[s]
  BY <1>3, <1>4, <1>5
<1>8. /\ approval'[c].state = "resume_claimed"
      /\ \A d \in Call : d # c =>
           \/ approval'[d].state = approval[d].state
           \/ approval[d].state = "approved" /\ approval'[d].state = "expired"
  BY <1>1, <1>2 DEF ExecInv, Approved
<1>9. RowsMove
  BY <1>6, <1>7 DEF RowsMove
<1>10. \A d \in Call : CallReleased(d)' => CallReleased(d) /\ call'[d] = call[d]
  BY <1>2, <1>3, <1>8 DEF CallReleased
<1>11. CallsMove
  BY <1>2, <1>10 DEF CallsMove
<1>12. \A d \in Call : CallReleased(d) => call[d].run # r
  BY <1>3 DEF TableInv, ReleasedInv
<1>13. \A d \in Call : call[d].state = "waiting_approval" /\ d # c =>
         call[d].run \in Run /\ call[d].run # r
  BY <1>2, <1>3 DEF TableInv, ParkInv, LinkInv, r
<1>14. ParkInv'
  <2>1. ASSUME NEW d \in Call, call'[d].state = "waiting_approval" PROVE Parked(d)'
    <3>1. CASE d = c
      <4>1. call'[d].run = r /\ call'[d].gen = run[r].gen
        BY <1>2, <1>3, <3>1 DEF r
      <4> QED
        BY <1>6, <1>7, <1>8, <3>1, <4>1 DEF Parked
    <3>2. CASE d # c
      <4>1. /\ call'[d] = call[d]
            /\ run'[call[d].run] = run[call[d].run] /\ Parked(d)
        BY <1>2, <1>7, <1>13, <2>1, <3>2 DEF TableInv, ParkInv
      <4> QED
        BY <1>8, <3>2, <4>1 DEF Parked
    <3> QED
      BY <3>1, <3>2
  <2>2. ASSUME NEW s \in Run, run'[s].state = "waiting_approval"
        PROVE  \E d \in Call : call'[d].state = "waiting_approval" /\ call'[d].run = s
    <3>1. s # r /\ run[s].state = "waiting_approval"
      BY <1>6, <1>7, <2>2
    <3> QED
      BY <1>2, <3>1 DEF TableInv, ParkInv
  <2> QED
    BY <1>2, <2>1, <2>2 DEF TableInv, ParkInv
<1>15. RowsInv'
  <2>1. run[r].ckpt = TurnOf(run[r])
    BY <1>3 DEF TableInv, RowsInv, r
  <2>2. new.ckpt = TurnOf(new)
    BY <1>6, <2>1 DEF TurnOf
  <2> QED
    BY <1>6, <1>7, <2>2 DEF TableInv, RowsInv, TurnOf
<1>16. ReleasedInv'
  <2> SUFFICES ASSUME NEW d \in Call, CallReleased(d)'
      PROVE  LET row == run'[call'[d].run] IN
             \/ /\ row.state = "running" /\ row.gen = call'[d].gen
                /\ ~Final(row) /\ ~Adoptable(row)
             \/ row.state = "recovery_required"
    BY DEF ReleasedInv, Final, Adoptable
  <2>1. CallReleased(d) /\ call'[d] = call[d] /\ call[d].run # r
    BY <1>10, <1>12
  <2>2. call[d].run \in Run
    BY <2>1 DEF CallReleased, LinkInv
  <2> QED
    BY <1>7, <2>1, <2>2 DEF TableInv, ReleasedInv
<1>17. TableInv'
  BY <1>2, <1>9, <1>11, <1>14, <1>15, <1>16, SnapKept DEF TableInv
<1>18. wk \in [Task -> TaskState]
  BY DEF ExecInv, TaskState
<1>19. ASSUME NEW u \in Task, u # t, Matches(held[u])' PROVE TaskGood(u)'
  <2>1. held'[u] = held[u] /\ wk'[u] = wk[u]
    BY <1>1, <1>4, <1>5, <1>18, <1>19
  <2> QED
    BY <1>9, <1>11, <1>19, <2>1, TaskStill
<1>20. ASSUME Matches(held[t])' PROVE TaskGood(t)'
  <2>1. held'[t] = LeaseOf(r, new) /\ held'[t] # NoLease
    BY <1>4, <1>5, <1>20 DEF Matches
  <2>2. wk'[t].pc = "resume" /\ wk'[t].call = c
    BY <1>1, <1>18, <2>1
  <2>3. held'[t].run = r /\ held'[t].gen = new.gen
    BY <2>1 DEF LeaseOf
  <2>4. MyRow(t)' = new
    BY <1>7, <2>3 DEF MyRow
  <2>5. \A d \in Call : CallReleased(d)' => call'[d].run # r
    BY <1>10, <1>12
  <2>6. call'[c].run = r /\ call'[c].gen = new.gen
    BY <1>2, <1>3, <1>6 DEF r
  <2> QED
    BY <1>6, <2>2, <2>3, <2>4, <2>5, <2>6 DEF TaskGood, RunningPCs
<1> QED
  BY <1>17, <1>19, <1>20 DEF TaskInv
\* consume_approval releases the call its run waits with.
LEMMA ConsumeTable ==
  ASSUME IInv, LinkInv, ExecInv, PairInv, TableInv, TaskInv, NEW t \in Task,
         NEW e \in Reading, Consume(t, e)
  PROVE  TableInv' /\ TaskInv'
<1> DEFINE c == CallOf(t)
           r == held[t].run
           new == [Renewed(MyRow(t), e) EXCEPT !.state = "running", !.err = None]
<1>1. /\ wk[t].pc \in {"resume", "waiting"}
      /\ MyRow(t).state \in {"waiting_approval", "waiting_tool"}
      /\ Fenced(t, e) /\ Write(t, new)
      /\ call[c].state = "waiting_approval" /\ call[c].gen = held[t].gen
      /\ SetCall(c, "executing") /\ SetApproval(c, "consumed")
      /\ UNCHANGED snap
      /\ wk' = [wk EXCEPT ![t] =
           [@ EXCEPT !.pc = IF held'[t] = held[t] THEN "lost" ELSE "exec",
                     !.direct = wk[t].pc = "waiting"]]
  BY DEF Consume, ConsumeApproval, At
<1>2. c \in Call /\ wk[t].call = c
  BY <1>1 DEF ExecInv, CallOf, Handling
<1>3. /\ Matches(held[t]) /\ MyRow(t) \in Row
      /\ r \in Run /\ r # None /\ MyRow(t) = run[r] /\ held[t].gen = run[r].gen
  BY <1>1, OwnRow, MatchFacts
<1>4. /\ new \in Row /\ new.state = "running" /\ new.gen = run[r].gen
      /\ new.version = MyRow(t).version /\ new.err = None
      /\ new.ckpt = run[r].ckpt
  <2>1. LeaseTtl + e \in Deadline /\ "running" \in AiRunStates
    BY LimitAssumption DEF Reading, Deadline, AiRunStates
  <2> QED
    BY <1>3, <2>1 DEF Renewed, Row
<1>5. call[c].run = r
  BY <1>1, <1>2, <1>3 DEF TaskInv, TaskGood, Handling
<1>6. run[r].ckpt = TurnOf(run[r])
  BY <1>1, <1>3 DEF TableInv, RowsInv
<1>7. \A d \in Call : CallReleased(d) => call[d].run # r
  BY <1>1, <1>3 DEF TableInv, ReleasedInv
<1> HIDE DEF c, new
<1>8. /\ \A s \in Run : s # r => run'[s] = run[s]
      /\ run'[r] = Bumped(new)
      /\ run'[r].version = run[r].version + 1
      /\ \A u \in Task : u # t => held'[u] = held[u]
      /\ Matches(held[t])' =>
              /\ held'[t] # held[t] /\ held'[t].run = r
              /\ held'[t].gen = new.gen /\ MyRow(t)' = Bumped(new)
  BY <1>1, <1>3, <1>4, OwnWrite
<1> HIDE DEF r
<1>9. /\ Bumped(new).state = new.state /\ Bumped(new).gen = new.gen
      /\ Bumped(new).err = new.err /\ Bumped(new).ckpt = new.ckpt
  BY <1>4 DEF Bumped, Row
<1>10. /\ call'[c].state = "executing" /\ call'[c].run = r
       /\ call'[c].gen = call[c].gen
       /\ \A d \in Call : d # c => call'[d] = call[d] /\ approval'[d] = approval[d]
       /\ approval'[c].state = "consumed"
  BY <1>1, <1>2, <1>5 DEF LinkInv, ExecInv, SetCall, SetApproval
<1>11. RowsMove
  BY <1>8 DEF RowsMove
<1>12. \A d \in Call : d # c /\ CallReleased(d)' =>
         CallReleased(d) /\ call'[d] = call[d] /\ call[d].run # r
  BY <1>7, <1>10 DEF CallReleased
<1>13. CallsMove
  BY <1>3, <1>5, <1>8, <1>10, <1>12 DEF CallsMove
<1>14. \A d \in Call : call'[d].state = "waiting_approval" =>
         /\ d # c /\ call'[d] = call[d] /\ approval'[d] = approval[d]
         /\ call[d].run \in Run /\ call[d].run # r
  BY <1>1, <1>2, <1>5, <1>10 DEF TableInv, ParkInv, LinkInv
<1>15. ParkInv'
  <2>1. ASSUME NEW d \in Call, call'[d].state = "waiting_approval" PROVE Parked(d)'
    <3>1. /\ call'[d] = call[d] /\ approval'[d] = approval[d]
          /\ run'[call[d].run] = run[call[d].run] /\ Parked(d)
      BY <1>8, <1>14, <2>1 DEF TableInv, ParkInv
    <3> QED
      BY <3>1 DEF Parked
  <2>2. \A d, f \in Call :
          /\ call'[d].state = "waiting_approval"
          /\ call'[f].state = "waiting_approval"
          /\ call'[d].run = call'[f].run
          => d = f
    BY <1>14 DEF TableInv, ParkInv
  <2>3. ASSUME NEW s \in Run, run'[s].state = "waiting_approval"
        PROVE  \E d \in Call : call'[d].state = "waiting_approval" /\ call'[d].run = s
    <3>1. s # r
      BY <1>4, <1>8, <1>9, <2>3
    <3>2. PICK d \in Call : call[d].state = "waiting_approval" /\ call[d].run = s
      BY <1>8, <2>3, <3>1 DEF TableInv, ParkInv
    <3>3. call'[d] = call[d]
      BY <1>5, <1>10, <3>1, <3>2
    <3> QED
      BY <3>2, <3>3
  <2> QED
    BY <2>1, <2>2, <2>3 DEF ParkInv
<1>16. RowsInv'
  BY <1>4, <1>8, <1>9 DEF TableInv, RowsInv, TurnOf
<1>17. ReleasedInv'
  <2> SUFFICES ASSUME NEW d \in Call, CallReleased(d)'
      PROVE  LET row == run'[call'[d].run] IN
             \/ /\ row.state = "running" /\ row.gen = call'[d].gen
                /\ ~Final(row) /\ ~Adoptable(row)
             \/ row.state = "recovery_required"
    BY DEF ReleasedInv, Final, Adoptable
  <2>1. CASE d = c
    <3>1. run'[r].ckpt.kind = "provider_turn_persisted"
      BY <1>4, <1>6, <1>8, <1>9 DEF TurnOf
    <3>2. ~Final(run'[r]) /\ ~Adoptable(run'[r])
      BY <3>1 DEF Final, Adoptable, FinalKind, AdoptableKinds
    <3> QED
      BY <1>1, <1>3, <1>4, <1>8, <1>9, <1>10, <2>1, <3>2
  <2>2. CASE d # c
    <3>1. CallReleased(d) /\ call'[d] = call[d] /\ call[d].run # r
      BY <1>12, <2>2
    <3>2. call[d].run \in Run
      BY <3>1 DEF CallReleased, LinkInv
    <3> QED
      BY <1>8, <3>1, <3>2 DEF TableInv, ReleasedInv
  <2> QED
    BY <2>1, <2>2
<1>18. TableInv'
  BY <1>1, <1>11, <1>13, <1>15, <1>16, <1>17, SnapKept DEF TableInv
<1>19. wk \in [Task -> TaskState]
  BY DEF ExecInv, TaskState
<1>20. ASSUME NEW u \in Task, u # t, Matches(held[u])' PROVE TaskGood(u)'
  <2>1. held'[u] = held[u] /\ wk'[u] = wk[u]
    BY <1>1, <1>8, <1>19, <1>20
  <2> QED
    BY <1>11, <1>13, <1>20, <2>1, TaskStill
<1>21. ASSUME Matches(held[t])' PROVE TaskGood(t)'
  <2>1. /\ held'[t] # held[t] /\ held'[t].run = r
        /\ held'[t].gen = run[r].gen /\ MyRow(t)' = Bumped(new)
    BY <1>4, <1>8, <1>21
  <2>2. wk'[t].pc = "exec" /\ wk'[t].call = c
    BY <1>1, <1>2, <1>19, <2>1 DEF TaskState
  <2>3. \A d \in Call : CallReleased(d)' /\ call'[d].run = r => d = c
    BY <1>12
  <2> QED
    BY <1>1, <1>3, <1>4, <1>9, <1>10, <2>1, <2>2, <2>3 DEF TaskGood, RunningPCs
<1> QED
  BY <1>18, <1>20, <1>21 DEF TaskInv

\* Every step of a task.
LEMMA TaskStepTable ==
  ASSUME IInv, LinkInv, ExecInv, PairInv, TableInv, TaskInv, NEW t \in Task,
         NEW e \in Reading, TaskStep(t, e)
  PROVE  TableInv' /\ TaskInv'
<1>1. CASE \E next \in {"stage", "output"} : PersistProviderTurn(t, e, next)
  <2>1. PICK next \in {"stage", "output"} : PersistProviderTurn(t, e, next)
    BY <1>1
  <2>2. /\ LinkCheckpoint(t, e, "provider_turn_persisted") /\ Goes(t, next)
        /\ UNCHANGED calls /\ UNCHANGED snap /\ wk[t].pc = "turn"
    BY <2>1 DEF PersistProviderTurn, At, calls
  <2>3. "provider_turn_persisted" \in CheckpointKinds
    BY DEF CheckpointKinds, CoordinatorKinds
  <2> QED
    BY <2>2, <2>3, CheckpointTable
<1>2. CASE PersistOutput(t, e)
  <2>1. /\ LinkCheckpoint(t, e, FinalKind) /\ Goes(t, "done")
        /\ UNCHANGED calls /\ UNCHANGED snap /\ wk[t].pc = "output"
    BY <1>2 DEF PersistOutput, At, calls
  <2>2. FinalKind \in CheckpointKinds
    BY DEF CheckpointKinds
  <2> QED
    BY <2>1, <2>2, CheckpointTable
<1>3. CASE PersistBatch(t, e)
  <2>1. /\ LinkCheckpoint(t, e, "supervised_tool_batch_persisted") /\ Goes(t, "plan")
        /\ UNCHANGED calls /\ UNCHANGED snap /\ wk[t].pc = "batch"
    BY <1>3 DEF PersistBatch, At, calls
  <2>2. "supervised_tool_batch_persisted" \in CheckpointKinds
    BY DEF CheckpointKinds, CoordinatorKinds, AdoptableKinds
  <2> QED
    BY <2>1, <2>2, CheckpointTable
<1> QED
  BY <1>1, <1>2, <1>3, ClaimTable, StartTable, BeginTurnTable, HeartbeatTable,
     BeginCallTable, RequestTable, EndTable, ClaimApprovedTable, ConsumeTable,
     FinishCallTable DEF TaskStep
---------------------------------------------------------------------------
(* What happens without a task *)

\* A calm step in which no task moves.
LEMMA StillStep ==
  ASSUME IInv, LinkInv, ExecInv, TableInv, TaskInv, RowsCalm, CallsCalm,
         snap' \in {snap, NoSnap}, UNCHANGED wk, UNCHANGED held
  PROVE  TableInv' /\ TaskInv'
<1>1. TableInv' /\ RowsMove /\ CallsMove
  BY CalmKept, CalmMoves
<1> QED
  BY <1>1, TaskStill DEF TaskInv

\* The resolver is called, or a task gives up its copy.
LEMMA ExecuteTable ==
  ASSUME IInv, LinkInv, ExecInv, TableInv, TaskInv, NEW t \in Task,
         ExecuteApprovedTool(t) \/ Drop(t)
  PROVE  TableInv' /\ TaskInv'
<1>1. UNCHANGED run /\ UNCHANGED calls /\ UNCHANGED snap
  BY DEF ExecuteApprovedTool, Drop, Crash, calls
<1>2. RowsCalm /\ CallsCalm
  BY <1>1, SameCalls DEF RowsCalm
<1>3. TableInv' /\ RowsMove /\ CallsMove
  BY <1>1, <1>2, CalmKept, CalmMoves
<1>4. wk \in [Task -> TaskState] /\ held \in [Task -> Lease \cup {NoLease}]
  BY DEF ExecInv, TaskState, IInv, HeldInv
<1>5. ASSUME NEW u \in Task, u # t, Matches(held[u])' PROVE TaskGood(u)'
  <2>1. held'[u] = held[u] /\ wk'[u] = wk[u]
    BY <1>4, <1>5 DEF ExecuteApprovedTool, Drop, Crash
  <2> QED
    BY <1>3, <1>5, <2>1, TaskStill
<1>6. ASSUME Matches(held[t])' PROVE TaskGood(t)'
  <2>1. CASE Drop(t)
    <3>1. held'[t] = NoLease
      BY <1>4, <2>1 DEF Drop, Crash
    <3> QED
      BY <1>6, <3>1 DEF Matches
  <2>2. CASE ExecuteApprovedTool(t)
    <3>1. /\ wk[t].pc = "exec" /\ wk'[t].pc = "effect" /\ wk'[t].call = wk[t].call
          /\ held'[t] = held[t]
      BY <1>4, <2>2 DEF ExecuteApprovedTool, At, TaskState
    <3>2. MyRow(t)' = MyRow(t)
      BY <1>1, <3>1 DEF MyRow
    <3>3. TaskGood(t)
      BY <1>1, <1>6, <3>1 DEF Matches, TaskInv
    <3> QED
      BY <1>1, <3>1, <3>2, <3>3 DEF TaskGood, RunningPCs, Handling, CallReleased, calls
  <2> QED
    BY <2>1, <2>2
<1> QED
  BY <1>3, <1>5, <1>6 DEF TaskInv

\* What recovery makes of the row of an expired lease.
LEMMA RecoveredState ==
  ASSUME NEW row \in Row, NEW e \in Reading
  PROVE  LET new == Bumped(RecoveredRow(row, e)) IN
         /\ new.version = row.version + 1 /\ new.gen = row.gen
         /\ new.state \in {"failed", "completed", "recovery_required", "retry_scheduled"}
         /\ row.state # "leased" /\ ~Final(row) /\ ~Adoptable(row) =>
              new.state = "recovery_required"
<1> DEFINE new == Bumped(RecoveredRow(row, e))
<1>1. \A code : LET n == Bumped(Requeued(row, e, code)) IN
        n.state = "retry_scheduled" /\ n.gen = row.gen /\ n.version = row.version + 1
  BY DEF Bumped, Requeued, Released, Row
<1>2. \A s, code : LET n == Bumped(Settled(row, s, code)) IN
        n.state = s /\ n.gen = row.gen /\ n.version = row.version + 1
  BY DEF Bumped, Settled, Released, Row
<1>3. CASE row.state = "leased"
  <2>1. RecoveredRow(row, e) = IF row.retry >= MaxRunRetries
         THEN Settled(row, "failed", "other")
         ELSE Requeued(row, e, "other")
    BY <1>3 DEF RecoveredRow
  <2> QED
    BY <1>1, <1>2, <1>3, <2>1
<1>4. CASE row.state # "leased" /\ Final(row)
  <2>1. RecoveredRow(row, e) = Settled(row, "completed", None)
    BY <1>4 DEF RecoveredRow, Final, Adoptable, AdoptableKinds, FinalKind
  <2> QED
    BY <1>2, <1>4, <2>1
<1>5. CASE row.state # "leased" /\ ~Final(row) /\ Adoptable(row)
  <2>1. RecoveredRow(row, e) = IF row.retry >= MaxRunRetries
              THEN Settled(row, "recovery_required", "other")
              ELSE Requeued(row, e, "checkpoint_adoption_ready")
    BY <1>5 DEF RecoveredRow
  <2> QED
    BY <1>1, <1>2, <1>5, <2>1
<1>6. CASE row.state # "leased" /\ ~Final(row) /\ ~Adoptable(row)
  <2>1. RecoveredRow(row, e) = Settled(row, "recovery_required", "other")
    BY <1>6 DEF RecoveredRow
  <2> QED
    BY <1>2, <1>6, <2>1
<1> QED
  BY <1>3, <1>4, <1>5, <1>6

\* recover_expired_leases leaves an expired released call to an operator.
LEMMA RecoverTable ==
  ASSUME IInv, LinkInv, ExecInv, TableInv, TaskInv, NEW e \in Reading, Recover(e)
  PROVE  TableInv' /\ TaskInv'
<1>1. PICK W \in RecoveryWindows :
        run' = [r \in Run |->
            IF r \in Expired(W, e) THEN Bumped(RecoveredRow(run[r], e))
                                   ELSE run[r]]
  BY DEF Recover, RecoverExpiredLeases
<1>2. \A r \in Expired(W, e) : r \in Run /\ run[r].state \in RecoverableStates
  <2>1. PICK P \in SUBSET Recoverable :
          W = {r \in P : Cardinality({q \in P : q < r}) < MaxCandidateScan}
    BY Zenon DEF RecoveryWindows
  <2>2. \A r \in W : r \in Recoverable
    BY <2>1
  <2> QED
    BY <2>2 DEF Expired, Recoverable, InState
<1>3. \A r \in Expired(W, e) : run[r].state \in WorkerStates
  BY <1>2 DEF IInv, RowInv, WellFormed, RecoverableStates, WorkerStates
<1>4. ASSUME NEW r \in Run, r \in Expired(W, e) PROVE Moved(r)
  <2>1. run[r] \in Row
    BY DEF IInv
  <2>2. /\ run'[r].version = run[r].version + 1 /\ run'[r].gen = run[r].gen
        /\ run'[r].state \in {"failed", "completed", "recovery_required", "retry_scheduled"}
        /\ run[r].state # "leased" /\ ~Final(run[r]) /\ ~Adoptable(run[r]) =>
             run'[r].state = "recovery_required"
    BY <1>1, <1>4, <2>1, RecoveredState
  <2>3. run[r].state \in {"leased", "running", "waiting_tool"}
    BY <1>3, <1>4 DEF WorkerStates
  <2>4. CASE run[r].state = "waiting_tool"
    <3>0. run[r].ckpt = TurnOf(run[r])
      BY <2>4 DEF TableInv, RowsInv
    <3>1. run[r].ckpt.kind = "provider_turn_persisted"
      BY <3>0 DEF TurnOf
    <3>2. ~Final(run[r]) /\ ~Adoptable(run[r])
      BY <3>1 DEF Final, Adoptable, FinalKind, AdoptableKinds
    <3> QED
      BY <2>2, <2>4, <3>2 DEF Moved
  <2>5. CASE run[r].state \in {"leased", "running"}
    <3>1. \A c \in Call : CallReleased(c) /\ call[c].run = r =>
            run[r].state # "leased" /\ ~Final(run[r]) /\ ~Adoptable(run[r])
      BY <2>5 DEF TableInv, ReleasedInv
    <3> QED
      BY <2>2, <2>5, <3>1 DEF Moved
  <2> QED
    BY <2>3, <2>4, <2>5
<1>5. RowsCalm
  BY <1>1, <1>4 DEF RowsCalm
<1>6. UNCHANGED calls /\ UNCHANGED snap /\ UNCHANGED wk /\ UNCHANGED held
  BY DEF Recover, RecoverExpiredLeases, calls
<1>7. CallsCalm
  BY <1>6, SameCalls
<1> QED
  BY <1>5, <1>6, <1>7, StillStep
\* Decisions, expiry, time and a session that is archived or restored.
LEMMA PeopleTable ==
  ASSUME IInv, LinkInv, ExecInv, PairInv, TableInv, TaskInv,
         \/ \E c \in Call, e \in Reading : DecideApproval(c, e) \/ RevokeApproval(c, e)
         \/ \E e \in Reading : ExpireApproved(e)
         \/ STick
         \/ Raced \/ Forget \/ ToggleSession \/ UNCHANGED svars
  PROVE  TableInv' /\ TaskInv'
<1>1. UNCHANGED call /\ UNCHANGED wk /\ UNCHANGED held /\ snap' \in {snap, NoSnap}
  BY DEF DecideApproval, RevokeApproval, Decide, ExpireApproved, STick, Tick, Raced,
    Forget, ToggleSession, svars
<1>2. RowsCalm
  <2>1. CASE STick
    BY <2>1 DEF STick, Tick, RowsCalm, Aged
  <2>2. CASE ~STick
    <3>1. UNCHANGED run
      BY <2>2 DEF DecideApproval, RevokeApproval, Decide, ExpireApproved, Raced,
        Forget, ToggleSession, svars
    <3> QED
      BY <3>1 DEF RowsCalm
  <2> QED
    BY <2>1, <2>2
<1>3. \A c \in Call :
        \/ approval'[c].state = approval[c].state
        \/ /\ approval[c].state = "pending"
           /\ approval'[c].state \in {"approved", "denied"}
        \/ /\ approval[c].state \in {"approved", "resume_claimed"}
           /\ approval'[c].state = "revoked"
        \/ approval[c].state = "approved" /\ approval'[c].state = "expired"
  <2>1. CASE \E c \in Call, e \in Reading : DecideApproval(c, e) \/ RevokeApproval(c, e)
    <3>1. PICK d \in Call, e \in Reading : DecideApproval(d, e) \/ RevokeApproval(d, e)
      BY <2>1
    <3>2. PICK to \in {"approved", "denied", "revoked"} :
            /\ SetApproval(d, to)
            /\ \/ approval[d].state = "pending" /\ to # "revoked"
               \/ approval[d].state \in {"approved", "resume_claimed"} /\ to = "revoked"
      BY <3>1 DEF DecideApproval, RevokeApproval, Decide
    <3>3. approval'[d].state = to /\ \A c \in Call : c # d => approval'[c] = approval[c]
      BY <3>2 DEF SetApproval, ExecInv
    <3> QED
      BY <3>2, <3>3
  <2>2. CASE \E e \in Reading : ExpireApproved(e)
    BY <2>2 DEF ExpireApproved, Approved, ExecInv
  <2>3. CASE STick
    BY <2>3 DEF STick, ExecInv
  <2>4. CASE Raced \/ Forget \/ ToggleSession \/ UNCHANGED svars
    BY <2>4 DEF Raced, Forget, ToggleSession, svars
  <2> QED
    BY <2>1, <2>2, <2>3, <2>4
<1>4. CallsCalm
  BY <1>1, <1>3 DEF CallsCalm, CallReleased
<1> QED
  BY <1>1, <1>2, <1>4, StillStep

\* The rows of a parked run are what the reconciler and a resuming worker
\* expect.
LEMMA ParkedIsLinked ==
  ASSUME LinkInv, PairInv, TableInv, NEW r \in Run, run[r].state = "waiting_approval"
  PROVE  /\ Linked(r)
         /\ \A c \in Waiting(r) : approval[c].state # "resume_claimed"
<1>1. PICK c \in Call : call[c].state = "waiting_approval" /\ call[c].run = r
  BY DEF TableInv, ParkInv
<1>2. Parked(c)
  BY <1>1 DEF TableInv, ParkInv
<1>3. Waiting(r) = {c}
  BY <1>1, <1>2 DEF TableInv, ParkInv, Parked, Waiting
<1>4. Cardinality({c}) = 1
  BY FS_Singleton
<1>5. run[r].ckpt = [gen |-> run[r].gen, kind |-> "provider_turn_persisted"]
  BY DEF TableInv, RowsInv, TurnOf
<1>6. approval[c].state # "consumed" /\ approval[c].state # "resume_claimed"
  BY <1>1, <1>2 DEF PairInv, Parked
<1> QED
  BY <1>3, <1>4, <1>5, <1>6 DEF Linked

\* The approval of a call a parked run waits with can be closed.
LEMMA ParkedIsClosable ==
  ASSUME LinkInv, ExecInv, PairInv, TableInv, NEW r \in Run,
         run[r].state = "waiting_approval", NEW c \in Waiting(r)
  PROVE  approval[c].state \in DOMAIN Closes
<1>1. c \in Call /\ call[c].state = "waiting_approval"
  BY DEF Waiting
<1>2. /\ approval[c].state # "resume_claimed"
      /\ approval[c].state \notin {"none", "consumed"}
      /\ approval[c].state \in ApprovalStates
  BY <1>1, ParkedIsLinked DEF PairInv, ExecInv
<1> QED
  BY <1>2 DEF ApprovalStates, Withdrawn, Closes

\* load_candidates and load_snapshot only read.
LEMMA LoadTable ==
  ASSUME IInv, LinkInv, ExecInv, PairInv, TableInv, TaskInv,
         \/ \E r \in Run : LoadCandidate(r)
         \/ \E e \in Reading : LoadSnapshot(e)
  PROVE  TableInv' /\ TaskInv'
<1>1. UNCHANGED run /\ UNCHANGED calls /\ UNCHANGED wk /\ UNCHANGED held
  BY DEF LoadCandidate, LoadSnapshot, calls
<1>2. RowsCalm /\ CallsCalm
  BY <1>1, SameCalls DEF RowsCalm
<1>3. TaskInv'
  BY <1>1, <1>2, CalmMoves, TaskStill DEF TaskInv
<1>4. ParkInv' /\ RowsInv' /\ ReleasedInv'
  BY <1>1 DEF TableInv, calls, ParkInv, Parked, RowsInv, TurnOf, ReleasedInv,
    CallReleased, Final, Adoptable
<1>5. CASE \E r \in Run : LoadCandidate(r)
  <2>1. PICK r \in Run : LoadCandidate(r)
    BY <1>5
  <2>2. run[r].version \in Nat
    BY DEF IInv, Row
  <2>3. SnapInv'
    BY <1>1, <2>1, <2>2 DEF LoadCandidate, SnapInv
  <2> QED
    BY <1>3, <1>4, <2>3 DEF TableInv
<1>6. CASE \E e \in Reading : LoadSnapshot(e)
  <2>1. PICK e \in Reading : LoadSnapshot(e)
    BY <1>6
  <2> DEFINE r == snap.run
  <2>2. snap # NoSnap /\ ~snap.close /\ snap \in Snapshot /\ r \in Run
    BY <2>1 DEF LoadSnapshot, LinkInv, Snapshot
  <2>3. /\ snap.version <= run[r].version
        /\ snap.version = run[r].version => run[r].state = "waiting_approval"
    BY <2>2 DEF TableInv, SnapInv
  <2>4. CASE snap' = NoSnap
    BY <1>3, <1>4, <2>4 DEF TableInv, SnapInv
  <2>5. CASE \E c \in Waiting(r) : snap' = [snap EXCEPT !.call = c, !.close = TRUE,
                                       !.seen = approval[c].state]
    <3>1. PICK c \in Waiting(r) : snap' = [snap EXCEPT !.call = c, !.close = TRUE,
                                       !.seen = approval[c].state]
      BY <2>5
    <3>2. /\ snap'.run = r /\ snap'.version = snap.version /\ snap'.call = c
          /\ snap'.close = TRUE
      BY <2>2, <3>1 DEF Snapshot
    <3>3. c \in Call /\ c # None /\ call[c].run = r
      BY SupervisedAssumption DEF Waiting
    <3> HIDE DEF r
    <3>4. SnapInv'
      BY <1>1, <2>3, <3>2, <3>3 DEF SnapInv, calls
    <3> QED
      BY <1>3, <1>4, <3>4 DEF TableInv
  <2>6. CASE snap' = [snap EXCEPT !.close = TRUE] /\ run[r].state # "waiting_approval"
    <3>1. /\ snap'.run = r /\ snap'.version = snap.version
          /\ snap'.close = TRUE
      BY <2>2, <2>6 DEF Snapshot
    <3> HIDE DEF r
    <3>2. SnapInv'
      BY <1>1, <2>3, <2>6, <3>1 DEF SnapInv
    <3> QED
      BY <1>3, <1>4, <3>2 DEF TableInv
  <2>7. CASE run[r].state = "waiting_approval"
    <3>1. Linked(r) /\ \A c \in Waiting(r) : approval[c].state \in DOMAIN Closes
      BY <2>2, <2>7, ParkedIsLinked, ParkedIsClosable
    <3>2. snap' = NoSnap \/ \E c \in Waiting(r) :
            snap' = [snap EXCEPT !.call = c, !.close = TRUE, !.seen = approval[c].state]
      BY <2>1, <3>1 DEF LoadSnapshot
    <3> QED
      BY <2>4, <2>5, <3>2
  <2>8. \/ snap' = NoSnap
        \/ \E c \in Waiting(r) : snap' = [snap EXCEPT !.call = c, !.close = TRUE,
                                                      !.seen = approval[c].state]
        \/ snap' = [snap EXCEPT !.close = TRUE]
    BY <2>1 DEF LoadSnapshot
  <2> QED
    BY <2>4, <2>5, <2>6, <2>7, <2>8
<1> QED
  BY <1>5, <1>6

\* What reconcile_approval_wait closes: always the wait it has read, whole.
LEMMA ReconcileFacts ==
  ASSUME LinkInv, ExecInv, PairInv, TableInv, Reconcile
  PROVE  /\ snap \in Snapshot /\ snap.run \in Run /\ snap.call \in Call
         /\ run[snap.run].state = "waiting_approval"
         /\ ReconcileApprovalWait(snap.run, "cancelled")
         /\ call[snap.call].state = "waiting_approval"
         /\ call[snap.call].run = snap.run
         /\ approval[snap.call].state = snap.seen /\ snap.seen \in DOMAIN Closes
         /\ call'[snap.call].state \in ClosedCall
         /\ call'[snap.call].run = call[snap.call].run
         /\ call'[snap.call].gen = call[snap.call].gen
         /\ approval'[snap.call].state \in Withdrawn
         /\ snap.seen \in Withdrawn => approval' = approval
         /\ \A c \in Call : c # snap.call =>
              call'[c] = call[c] /\ approval'[c] = approval[c]
<1>1. snap # NoSnap /\ snap.close /\ Current
  BY DEF Reconcile
<1>2. snap \in Snapshot
  BY <1>1 DEF LinkInv
<1>3. snap.run \in Run /\ snap.call \in Call \cup {None}
  BY <1>2 DEF Snapshot
<1>4. /\ run[snap.run].state = "waiting_approval"
      /\ snap.call # None /\ call[snap.call].run = snap.run
  BY <1>1 DEF TableInv, SnapInv, Current
<1>5. snap.call \in Call
  BY <1>3, <1>4
<1>6. /\ call[snap.call].state = "waiting_approval"
      /\ approval[snap.call].state = snap.seen /\ snap.seen \in DOMAIN Closes
  BY <1>1, <1>4 DEF Current, LinkInv
<1>7. /\ ReconcileApprovalWait(snap.run, "cancelled")
      /\ SetCall(snap.call, Closes[snap.seen])
      /\ IF snap.seen \in {"pending", "approved"}
         THEN SetApproval(snap.call, "expired") ELSE UNCHANGED approval
  BY <1>4 DEF Reconcile
<1>8. Closes[snap.seen] \in ClosedCall
  BY <1>6 DEF Closes, ClosedCall
<1>9. /\ call'[snap.call].state \in ClosedCall
      /\ call'[snap.call].run = call[snap.call].run
      /\ call'[snap.call].gen = call[snap.call].gen
      /\ \A c \in Call : c # snap.call => call'[c] = call[c]
  BY <1>5, <1>7, <1>8 DEF LinkInv, SetCall
<1>10. CASE snap.seen \in {"pending", "approved"}
  <2>1. /\ approval'[snap.call].state = "expired"
        /\ \A c \in Call : c # snap.call => approval'[c] = approval[c]
    BY <1>5, <1>7, <1>10 DEF ExecInv, SetApproval
  <2> QED
    BY <1>2, <1>3, <1>4, <1>5, <1>6, <1>7, <1>9, <1>10, <2>1 DEF Withdrawn
<1>11. CASE snap.seen \notin {"pending", "approved"}
  <2>1. approval' = approval /\ snap.seen \in Withdrawn
    BY <1>6, <1>7, <1>11 DEF Closes, Withdrawn
  <2> QED
    BY <1>2, <1>3, <1>4, <1>5, <1>6, <1>7, <1>9, <2>1
<1> QED
  BY <1>10, <1>11

LEMMA ReconcileTable ==
  ASSUME IInv, LinkInv, ExecInv, PairInv, TableInv, TaskInv, Reconcile
  PROVE  TableInv' /\ TaskInv'
<1> DEFINE r == snap.run
           c == snap.call
           new == Bumped([Released(run[r]) EXCEPT !.state = "cancelled", !.err = "other"])
<1>1. /\ r \in Run /\ c \in Call /\ run[r].state = "waiting_approval"
      /\ call[c].state = "waiting_approval" /\ call[c].run = r
      /\ call'[c].state \in ClosedCall
      /\ call'[c].run = call[c].run /\ call'[c].gen = call[c].gen
      /\ approval'[c].state \in Withdrawn
      /\ \A d \in Call : d # c => call'[d] = call[d] /\ approval'[d] = approval[d]
  BY ReconcileFacts
<1>2. run' = [run EXCEPT ![r] = new] /\ UNCHANGED held /\ UNCHANGED wk /\ snap' = NoSnap
  BY ReconcileFacts DEF ReconcileApprovalWait, Reconcile
<1>3. run \in [Run -> Row] /\ run[r] \in Row
  BY <1>1 DEF IInv
<1>4. new.state = "cancelled" /\ new.version = run[r].version + 1
  BY <1>3 DEF Bumped, Released, Row
<1> HIDE DEF new, r, c
<1>5. run'[r] = new /\ \A s \in Run : s # r => run'[s] = run[s]
  BY <1>1, <1>2, <1>3
<1>6. RowsMove
  BY <1>4, <1>5 DEF RowsMove
<1>7. \A d \in Call : CallReleased(d)' => CallReleased(d) /\ call'[d] = call[d]
  BY <1>1 DEF CallReleased, ClosedCall
<1>8. CallsMove
  BY <1>1, <1>7 DEF CallsMove
<1>9. TaskInv'
  BY <1>2, <1>6, <1>8, TaskStill DEF TaskInv
<1>10. \A d \in Call : call'[d].state = "waiting_approval" =>
         /\ d # c /\ call'[d] = call[d] /\ approval'[d] = approval[d]
         /\ call[d].run \in Run /\ call[d].run # r
  BY <1>1 DEF TableInv, ParkInv, LinkInv, ClosedCall
<1>11. ParkInv'
  <2>1. ASSUME NEW d \in Call, call'[d].state = "waiting_approval" PROVE Parked(d)'
    <3>1. /\ call'[d] = call[d] /\ approval'[d] = approval[d]
          /\ run'[call[d].run] = run[call[d].run] /\ Parked(d)
      BY <1>5, <1>10, <2>1 DEF TableInv, ParkInv
    <3> QED
      BY <3>1 DEF Parked
  <2>2. \A d, f \in Call :
          /\ call'[d].state = "waiting_approval"
          /\ call'[f].state = "waiting_approval"
          /\ call'[d].run = call'[f].run
          => d = f
    BY <1>10 DEF TableInv, ParkInv
  <2>3. ASSUME NEW s \in Run, run'[s].state = "waiting_approval"
        PROVE  \E d \in Call : call'[d].state = "waiting_approval" /\ call'[d].run = s
    <3>1. s # r
      BY <1>4, <1>5, <2>3
    <3>2. PICK d \in Call : call[d].state = "waiting_approval" /\ call[d].run = s
      BY <1>5, <2>3, <3>1 DEF TableInv, ParkInv
    <3>3. call'[d] = call[d]
      BY <1>1, <3>1, <3>2
    <3> QED
      BY <3>2, <3>3
  <2> QED
    BY <2>1, <2>2, <2>3 DEF ParkInv
<1>12. RowsInv'
  BY <1>4, <1>5 DEF TableInv, RowsInv, TurnOf
<1>13. ReleasedInv'
  <2> SUFFICES ASSUME NEW d \in Call, CallReleased(d)'
      PROVE  LET row == run'[call'[d].run] IN
             \/ /\ row.state = "running" /\ row.gen = call'[d].gen
                /\ ~Final(row) /\ ~Adoptable(row)
             \/ row.state = "recovery_required"
    BY DEF ReleasedInv, Final, Adoptable
  <2>1. CallReleased(d) /\ call'[d] = call[d] /\ call[d].run # r
    BY <1>1, <1>7 DEF TableInv, ReleasedInv
  <2>2. call[d].run \in Run
    BY <2>1 DEF CallReleased, LinkInv
  <2> QED
    BY <1>5, <2>1, <2>2 DEF TableInv, ReleasedInv
<1>14. SnapInv'
  BY <1>2 DEF SnapInv
<1> QED
  BY <1>9, <1>11, <1>12, <1>13, <1>14 DEF TableInv

\* Every step keeps what is said of rows, calls and tasks.
LEMMA StepTable ==
  IInv /\ LinkInv /\ ExecInv /\ PairInv /\ TableInv /\ TaskInv /\ [SNext]_svars
    => TableInv' /\ TaskInv'
<1> SUFFICES ASSUME IInv, LinkInv, ExecInv, PairInv, TableInv, TaskInv, [SNext]_svars
             PROVE  TableInv' /\ TaskInv'
  OBVIOUS
<1>1. CASE \E t \in Task, e \in Reading : TaskStep(t, e)
  BY <1>1, TaskStepTable
<1>2. CASE \E t \in Task : ExecuteApprovedTool(t) \/ Drop(t)
  BY <1>2, ExecuteTable
<1>3. CASE \E e \in Reading : Recover(e)
  BY <1>3, RecoverTable
<1>4. CASE Reconcile
  BY <1>4, ReconcileTable
<1>5. CASE (\E r \in Run : LoadCandidate(r)) \/ (\E e \in Reading : LoadSnapshot(e))
  BY <1>5, LoadTable
<1>6. CASE \/ \E c \in Call, e \in Reading : DecideApproval(c, e) \/ RevokeApproval(c, e)
           \/ \E e \in Reading : ExpireApproved(e)
           \/ STick
           \/ Raced \/ Forget \/ ToggleSession \/ UNCHANGED svars
  BY <1>6, PeopleTable
<1> QED
  BY <1>1, <1>2, <1>3, <1>4, <1>5, <1>6 DEF SNext, ReconcilerStep
---------------------------------------------------------------------------
(* Calls and their approvals *)

\* One call and its approval after a step that leaves the others alone.
LEMMA OnePair ==
  ASSUME PairInv, NEW c \in Call,
         \A d \in Call : d # c => call'[d] = call[d] /\ approval'[d].state = approval[d].state,
         /\ call'[c].state = "none" => approval'[c].state = "none"
         /\ Open(c)' => call'[c].state = "waiting_approval"
         /\ call'[c].state = "waiting_approval" =>
              approval'[c].state \notin {"none", "consumed"}
  PROVE  PairInv'
<1> SUFFICES ASSUME NEW d \in Call
    PROVE  /\ call'[d].state = "none" => approval'[d].state = "none"
           /\ Open(d)' => call'[d].state = "waiting_approval"
           /\ call'[d].state = "waiting_approval" =>
                approval'[d].state \notin {"none", "consumed"}
  BY DEF PairInv
<1>1. CASE d = c
  BY <1>1
<1>2. CASE d # c
  BY SMTT(30), <1>2 DEF PairInv, Open
<1> QED
  BY <1>1, <1>2

\* A step that touches no call changes approvals only while they are open.
LEMMA OpenOnly ==
  ASSUME ExecInv, [SNext]_svars, ~Reconcile,
         ~\E t \in Task, e \in Reading :
            \/ \E c \in Call : BeginToolCall(t, e, c)
            \/ Request(t, e) \/ Consume(t, e) \/ FinishToolCall(t, e)
  PROVE  \A c \in Call :
           \/ approval'[c].state = approval[c].state
           \/ /\ Open(c)
              /\ approval'[c].state \in {"approved", "resume_claimed"} \cup Withdrawn
<1>0. approval \in Approvals
  BY DEF ExecInv, Approvals
<1>1. CASE \E t \in Task, e \in Reading, w \in WorkerId : ClaimNextApproved(t, w, e)
  <2>1. PICK t \in Task, e \in Reading, w \in WorkerId : ClaimNextApproved(t, w, e)
    BY <1>1
  <2>2. PICK passed \in SUBSET {d \in Approved : Reached(approval[d].left, e)},
             c \in Approved :
          approval' = [d \in Call |->
            IF d \in passed THEN [approval[d] EXCEPT !.state = "expired"]
            ELSE IF d = c THEN [approval[d] EXCEPT !.state = "resume_claimed"]
            ELSE approval[d]]
    BY <2>1 DEF ClaimNextApproved
  <2> QED
    BY <1>0, <2>2 DEF Approvals, Approved, Open, Withdrawn
<1>2. CASE \E c \in Call, e \in Reading : DecideApproval(c, e) \/ RevokeApproval(c, e)
  <2>1. PICK d \in Call, e \in Reading : DecideApproval(d, e) \/ RevokeApproval(d, e)
    BY <1>2
  <2>2. PICK to \in {"approved", "denied", "revoked"} :
          /\ SetApproval(d, to)
          /\ approval[d].state \in {"pending", "approved", "resume_claimed"}
    BY <2>1 DEF DecideApproval, RevokeApproval, Decide
  <2>3. approval'[d].state = to /\ \A c \in Call : c # d => approval'[c] = approval[c]
    BY <1>0, <2>2 DEF SetApproval, Approvals
  <2> QED
    BY <2>2, <2>3 DEF Open, Withdrawn
<1>3. CASE \E e \in Reading : ExpireApproved(e)
  BY <1>0, <1>3 DEF ExpireApproved, Approvals, Approved, Open, Withdrawn
<1>4. CASE STick
  BY <1>0, <1>4 DEF STick, Approvals
<1>5. CASE UNCHANGED approval
  BY <1>5
<1> QED
  BY ZenonT(30), <1>1, <1>2, <1>3, <1>4, <1>5
  DEF SNext, svars, TaskStep, ReconcilerStep, Claim, StartRun, BeginTurn,
    TurnHeartbeat, PersistProviderTurn, PersistOutput, End,
    PersistBatch, ExecuteApprovedTool, Drop, Recover, LoadCandidate, LoadSnapshot,
    Raced, Forget, ToggleSession

\* Every step keeps calls and approvals in agreement.
LEMMA StepPair ==
  IInv /\ LinkInv /\ ExecInv /\ PairInv /\ TableInv /\ [SNext]_svars => PairInv'
<1> SUFFICES ASSUME IInv, LinkInv, ExecInv, PairInv, TableInv, [SNext]_svars
             PROVE  PairInv'
  OBVIOUS
<1>0. call \in [Call -> [state : CallStates, run : Run \cup {None}, gen : Nat]]
      /\ approval \in Approvals
  BY DEF LinkInv, ExecInv, Approvals
<1>1. ASSUME NEW t \in Task, NEW e \in Reading, NEW c \in Call, BeginToolCall(t, e, c)
      PROVE  PairInv'
  <2>1. /\ call'[c].state = "executing" /\ UNCHANGED approval
        /\ \A d \in Call : d # c => call'[d] = call[d]
        /\ call[c].state = "none"
    BY <1>0, <1>1 DEF BeginToolCall, NoCall
  <2>2. approval'[c].state = "none"
    BY <2>1 DEF PairInv
  <2> QED
    BY <2>1, <2>2, OnePair DEF Open
<1>2. ASSUME NEW t \in Task, NEW e \in Reading, Request(t, e) PROVE PairInv'
  <2>1. CallOf(t) \in Call
    BY <1>2 DEF Request, At, ExecInv, CallOf, Handling
  <2>2. /\ call'[CallOf(t)].state = "waiting_approval"
        /\ approval'[CallOf(t)].state = "pending"
        /\ \A d \in Call : d # CallOf(t) =>
             call'[d] = call[d] /\ approval'[d] = approval[d]
    BY <1>0, <1>2, <2>1 DEF Request, SetCall, Approvals
  <2> QED
    BY <2>1, <2>2, OnePair DEF Open
<1>3. ASSUME NEW t \in Task, NEW e \in Reading, Consume(t, e) PROVE PairInv'
  <2>1. CallOf(t) \in Call
    BY <1>3 DEF Consume, At, ExecInv, CallOf, Handling
  <2>2. /\ call'[CallOf(t)].state = "executing"
        /\ approval'[CallOf(t)].state = "consumed"
        /\ \A d \in Call : d # CallOf(t) =>
             call'[d] = call[d] /\ approval'[d] = approval[d]
    BY <1>0, <1>3, <2>1 DEF Consume, SetCall, SetApproval, Approvals
  <2> QED
    BY <2>1, <2>2, OnePair DEF Open
<1>4. ASSUME NEW t \in Task, NEW e \in Reading, FinishToolCall(t, e) PROVE PairInv'
  <2>1. PICK c \in Call : c = CallOf(t)
    BY <1>4 DEF FinishToolCall, At, ExecInv, CallOf, Handling
  <2>2. /\ call[c].state = "executing"
        /\ call'[c].state = "completed" /\ UNCHANGED approval
        /\ \A d \in Call : d # c => call'[d] = call[d]
    BY <1>0, <1>4, <2>1 DEF FinishToolCall, SetCall
  <2>3. ~Open(c)'
    BY <2>2 DEF PairInv, Open
  <2> QED
    BY <2>2, <2>3, OnePair
<1>5. CASE Reconcile
  <2>1. /\ snap.call \in Call
        /\ call'[snap.call].state \in ClosedCall
        /\ approval'[snap.call].state \in Withdrawn
        /\ \A c \in Call : c # snap.call =>
              call'[c] = call[c] /\ approval'[c] = approval[c]
    BY <1>5, ReconcileFacts
  <2> QED
    BY <2>1, OnePair DEF Open, ClosedCall, Withdrawn
<1>6. CASE /\ ~Reconcile
           /\ ~\E t \in Task, e \in Reading :
                \/ \E c \in Call : BeginToolCall(t, e, c)
                \/ Request(t, e) \/ Consume(t, e) \/ FinishToolCall(t, e)
  <2>1. UNCHANGED call
    BY ZenonT(90), <1>6 DEF SNext, svars, TaskStep, ReconcilerStep, Claim, StartRun, BeginTurn,
      TurnHeartbeat, PersistProviderTurn, PersistOutput, End, ClaimNextApproved,
      PersistBatch, ExecuteApprovedTool, Drop, DecideApproval, RevokeApproval, Decide,
      ExpireApproved, Recover, LoadCandidate, LoadSnapshot, Raced, Forget,
      ToggleSession, STick
  <2>2. \A c \in Call :
          \/ approval'[c].state = approval[c].state
          \/ /\ Open(c)
             /\ approval'[c].state \in {"approved", "resume_claimed"} \cup Withdrawn
    BY <1>6, OpenOnly
  <2> QED
    BY SMTT(30), <2>1, <2>2 DEF PairInv, Open, Withdrawn
<1> QED
  BY <1>1, <1>2, <1>3, <1>4, <1>5, <1>6
---------------------------------------------------------------------------
(* Theorems *)

WInv == active \in BOOLEAN /\ PairInv /\ TableInv /\ TaskInv

LEMMA InitWInv == SInit => WInv
<1> SUFFICES ASSUME SInit PROVE WInv
  OBVIOUS
<1>1. \A c \in Call : call[c].state = "none" /\ approval[c].state = "none"
  BY DEF SInit, NoCall, NoApproval
<1>2. \A r \in Run : run[r].state = "queued"
  BY DEF SInit, Init, QueuedRow
<1>3. \A t \in Task : ~Matches(held[t])
  BY DEF SInit, Init, Matches
<1>4. PairInv
  BY <1>1 DEF PairInv, Open
<1>5. TableInv
  BY <1>1, <1>2 DEF SInit, TableInv, ParkInv, RowsInv, ReleasedInv, CallReleased, SnapInv
<1> QED
  BY <1>3, <1>4, <1>5 DEF WInv, TaskInv, SInit

LEMMA StepWInv == SInv /\ WInv /\ [SNext]_svars => WInv'
<1> SUFFICES ASSUME SInv, WInv, [SNext]_svars PROVE WInv'
  OBVIOUS
<1>1. active' = active \/ active' = ~active
  <2>1. ASSUME NEW t \in Task, NEW e \in Reading, TaskStep(t, e) PROVE active' = active
    BY <2>1, ZenonT(60) DEF TaskStep, Claim, StartRun,
      BeginTurn, TurnHeartbeat, PersistProviderTurn, BeginToolCall, Request,
      PersistOutput, End, ClaimNextApproved, Consume, FinishToolCall, PersistBatch
  <2>2. ASSUME NEW e \in Reading, LoadSnapshot(e) PROVE active' = active
    BY <2>2, ZenonT(60) DEF LoadSnapshot
  <2>3. ASSUME NEW t \in Task, ExecuteApprovedTool(t) \/ Drop(t) PROVE active' = active
    BY <2>3, ZenonT(60) DEF ExecuteApprovedTool, Drop
  <2>4. ASSUME NEW r \in Run, LoadCandidate(r) PROVE active' = active
    BY <2>4, ZenonT(60) DEF LoadCandidate
  <2>5. ASSUME Reconcile \/ Raced \/ Forget \/ STick PROVE active' = active
    BY <2>5, ZenonT(60) DEF Reconcile, Raced, Forget, STick
  <2>6. ASSUME NEW c \in Call, NEW e \in Reading,
                DecideApproval(c, e) \/ RevokeApproval(c, e) PROVE active' = active
    BY <2>6, ZenonT(60) DEF DecideApproval, RevokeApproval, Decide
  <2>7. ASSUME NEW e \in Reading, ExpireApproved(e) \/ Recover(e) PROVE active' = active
    BY <2>7, ZenonT(60) DEF ExpireApproved, Recover
  <2>8. ASSUME UNCHANGED svars PROVE active' = active
    BY <2>8 DEF svars
  <2>9. ASSUME ToggleSession PROVE active' = ~active
    BY <2>9, ZenonT(60) DEF ToggleSession
  <2> QED
    BY <2>1, <2>2, <2>3, <2>4, <2>5, <2>6, <2>7, <2>8, <2>9, ZenonT(60)
    DEF SNext, ReconcilerStep
<1>2. active' \in BOOLEAN
  BY <1>1, Zenon DEF WInv
<1> QED
  BY <1>2, StepPair, StepTable DEF SInv, WInv

\* Calls, approvals, runs, tasks and the reconciler's snapshot agree.
THEOREM SupervisedAgreement == SSpec => [](SInv /\ WInv)
<1>1. SInv /\ WInv /\ [SNext]_svars => WInv'
  BY StepWInv
<1> QED
  BY <1>1, InitWInv, SupervisedInvariance, PTL DEF SSpec

\* Once consume_approval has released a call and finish_tool_call has not put
\* its result on record, the run is in the attempt that executes it or is left
\* to an operator: neither recovery, a later attempt nor the end of the run
\* treats it as if nothing were open, for any number of runs, workers and calls.
THEOREM ReleasedIsNeverForgotten == SSpec => []UnrecordedEffectNeedsRecovery
<1>1. SInv /\ WInv => UnrecordedEffectNeedsRecovery
  BY DEF WInv, TableInv, ReleasedInv, UnrecordedEffectNeedsRecovery, CallReleased
<1> QED
  BY <1>1, SupervisedAgreement, PTL

\* claim_next_approved finds the run of every approved call waiting for it, and
\* the reconciler finds exactly one call with a live approval under every parked
\* run: neither has to give up on rows it cannot account for.
THEOREM WaitsStayInOrder == SSpec => []WaitsAreInOrder
<1>1. SInv /\ WInv => STypeOK
  <2>1. IInv => TypeOK
    BY DEF IInv, HeldInv, TypeOK
  <2> QED
    BY <2>1 DEF SInv, WInv, LinkInv, ExecInv, STypeOK
<1>2. SInv /\ WInv => ApprovedHasWaiter
  <2> SUFFICES ASSUME SInv, WInv, NEW c \in Approved PROVE Resumable(c)
    BY DEF ApprovedHasWaiter
  <2>1. c \in Call /\ call[c].state = "waiting_approval" /\ call[c].run \in Run
    BY DEF Approved, WInv, PairInv, Open, SInv, LinkInv
  <2>2. Parked(c) /\ approval[c].state = "approved"
    BY <2>1 DEF Approved, WInv, TableInv, ParkInv
  <2>3. run[call[c].run].state = "waiting_approval" /\ run[call[c].run].gen = call[c].gen
    BY <2>2 DEF Parked
  <2> QED
    BY <2>1, <2>3 DEF Resumable, WInv, TableInv, RowsInv
<1>3. SInv /\ WInv => ParkedWaitIsProvable
  BY ParkedIsLinked DEF SInv, WInv, ParkedWaitIsProvable
<1> QED
  BY <1>1, <1>2, <1>3, SupervisedAgreement, PTL DEF WaitsAreInOrder

\* What a step may do to a call and its approval.
LEMMA StepDecides ==
  ASSUME SInv, WInv, [SNext]_svars, NEW c \in Call
  PROVE  /\ approval[c].state \in Withdrawn \cup {"consumed"} =>
              approval'[c].state = approval[c].state
         /\ call[c].state \in ClosedCall \cup {"completed"} => call'[c] = call[c]
         /\ call[c].state = "waiting_approval" /\ call'[c].state \in ClosedCall =>
              /\ run[call[c].run].state = "waiting_approval"
              /\ run'[call[c].run].state = "cancelled"
              /\ approval[c].state # "resume_claimed"
              /\ approval'[c].state \in Withdrawn
<1> USE DEF SInv, WInv
<1>0. /\ call \in [Call -> [state : CallStates, run : Run \cup {None}, gen : Nat]]
      /\ approval \in Approvals
  BY DEF LinkInv, ExecInv, Approvals
<1>1. CASE Reconcile
  <2>1. /\ snap.call \in Call /\ snap.run \in Run
        /\ run[snap.run].state = "waiting_approval"
        /\ ReconcileApprovalWait(snap.run, "cancelled")
        /\ call[snap.call].state = "waiting_approval"
        /\ call[snap.call].run = snap.run
        /\ approval[snap.call].state = snap.seen /\ snap.seen \in DOMAIN Closes
        /\ approval'[snap.call].state \in Withdrawn
        /\ snap.seen \in Withdrawn => approval' = approval
        /\ \A d \in Call : d # snap.call =>
              call'[d] = call[d] /\ approval'[d] = approval[d]
    BY <1>1, ReconcileFacts
  <2>2. run[snap.run] \in Row /\ run \in [Run -> Row]
    BY <2>1 DEF IInv
  <2>3. run'[snap.run].state = "cancelled"
    BY <2>1, <2>2 DEF ReconcileApprovalWait, Bumped, Released, Row
  <2>4. approval[snap.call].state \notin {"resume_claimed", "consumed"}
    BY <2>1 DEF Closes
  <2>5. CASE c = snap.call
    BY <2>1, <2>3, <2>4, <2>5 DEF ClosedCall
  <2>6. CASE c # snap.call
    BY <2>1, <2>6 DEF ClosedCall
  <2> QED
    BY <2>5, <2>6
<1>2. ASSUME NEW t \in Task, NEW e \in Reading, NEW d \in Call, BeginToolCall(t, e, d)
      PROVE  /\ UNCHANGED approval /\ call[d].state = "none"
             /\ call'[d].state = "executing"
             /\ \A f \in Call : f # d => call'[f] = call[f]
  BY <1>0, <1>2 DEF BeginToolCall, NoCall
<1>3. ASSUME NEW t \in Task, NEW e \in Reading,
             Request(t, e) \/ Consume(t, e) \/ FinishToolCall(t, e)
      PROVE  \E d \in Call :
               /\ call[d].state \in {"executing", "waiting_approval"}
               /\ call'[d].state \notin ClosedCall
               /\ \A f \in Call : f # d => call'[f] = call[f]
               /\ \A f \in Call :
                    approval[f].state \in Withdrawn \cup {"consumed"} =>
                      approval'[f].state = approval[f].state
  <2>1. PICK d \in Call : d = CallOf(t)
    BY <1>3 DEF Request, Consume, FinishToolCall, At, ExecInv, CallOf, Handling
  <2>2. PICK state \in {"waiting_approval", "executing", "completed"} : SetCall(d, state)
    BY <1>3, <2>1 DEF Request, Consume, FinishToolCall
  <2>3. /\ call'[d].state \notin ClosedCall
        /\ \A f \in Call : f # d => call'[f] = call[f]
    BY <1>0, <2>2 DEF SetCall, ClosedCall
  <2>4. call[d].state \in {"executing", "waiting_approval"}
    BY <1>3, <2>1 DEF Request, Consume, FinishToolCall
  <2>5. \/ UNCHANGED approval
        \/ /\ approval[d].state \notin Withdrawn \cup {"consumed"}
           /\ \A f \in Call : f # d => approval'[f] = approval[f]
    BY <1>0, <1>3, <2>1 DEF Request, Consume, FinishToolCall, SetApproval, Approvals,
      NoApproval, Consumable, Withdrawn
  <2> QED
    BY <2>3, <2>4, <2>5
<1>4. CASE /\ ~Reconcile
           /\ ~\E t \in Task, e \in Reading :
                \/ \E d \in Call : BeginToolCall(t, e, d)
                \/ Request(t, e) \/ Consume(t, e) \/ FinishToolCall(t, e)
  <2>1. UNCHANGED call
    BY ZenonT(90), <1>4 DEF SNext, svars, TaskStep, ReconcilerStep, Claim, StartRun, BeginTurn,
      TurnHeartbeat, PersistProviderTurn, PersistOutput, End, ClaimNextApproved,
      PersistBatch, ExecuteApprovedTool, Drop, DecideApproval, RevokeApproval, Decide,
      ExpireApproved, Recover, LoadCandidate, LoadSnapshot, Raced, Forget,
      ToggleSession, STick
  <2>2. approval'[c].state = approval[c].state \/ Open(c)
    BY <1>4, OpenOnly
  <2> QED
    BY <2>1, <2>2 DEF Open, Withdrawn, ClosedCall
<1> QED
  BY <1>1, <1>2, <1>3, <1>4 DEF ClosedCall

\* A decision stands and a wait closes with everything that belongs to it: what
\* decide_approval, revoke_approval, the coordinators and the wait reconciler
\* do to one approval at the same time never undoes a decision, reopens a call
\* or closes a wait that a worker has been given.
THEOREM DecisionsAlwaysStand == SSpec => DecisionsStand
<1>1. SInv /\ WInv /\ [SNext]_svars =>
        [\A c \in Call :
           call[c].state = "waiting_approval" /\ call'[c].state \in ClosedCall =>
             /\ run[call[c].run].state = "waiting_approval"
             /\ run'[call[c].run].state = "cancelled"
             /\ approval[c].state # "resume_claimed"
             /\ approval'[c].state \in Withdrawn]_svars
  BY StepDecides
<1>2. SInv /\ WInv /\ [SNext]_svars =>
        [\A c \in Call :
           /\ approval[c].state \in Withdrawn \cup {"consumed"} =>
                approval'[c].state = approval[c].state
           /\ call[c].state \in ClosedCall \cup {"completed"} =>
                call'[c] = call[c]]_svars
  BY StepDecides
<1> QED
  BY <1>1, <1>2, SupervisedAgreement, PTL
  DEF SSpec, DecisionsStand, WaitsCloseAsAWhole, DecisionsAreFinal
===========================================================================
