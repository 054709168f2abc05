------------------------- MODULE BackgroundProofs -------------------------
(***************************************************************************)
(* What holds of background turns for every number of runs, tasks,         *)
(* submissions and reconcilers and every limit: the services implement the *)
(* run table, what was sent stays held, and turns are settled as           *)
(* Settlement says.                                                        *)
(*                                                                         *)
(* The inductive invariant relates where a task is in submit with the rows *)
(* of the reservation it handles, which no other task handles.  Once a     *)
(* submission is pollable its request was sent and its capacity is         *)
(* uncertain, so what a reconciler settles or gives up was sent and held.  *)
(*                                                                         *)
(* The second half adds what the rows of one turn (run, outcomes,          *)
(* submission, capacity, response, message, receipts) say of each other,   *)
(* and what current copies of leases and claims say of them: then a turn   *)
(* is whole at every moment, its create request is sent once, it is        *)
(* answered truly, and late reconcilers change nothing.                    *)
(***************************************************************************)
EXTENDS Background, RunLeaseProofs, FiniteSetTheorems, SequenceTheorems

USE BackgroundAssumption

\* Where a task handles a reservation.
Handling == {"reserved", "unsure", "prepared", "unmarked", "send", "sent", "acked",
             "ambiguous"}

\* The rows v and u of one turn, and how often it was sent.
TurnInv(v, u, n) ==
  /\ v.state # "none" => v.run \in Run
  /\ v.state = "none" => u.state = "none"
  /\ n > 0 => v.state \in {"uncertain", "committed"}
  /\ u.state \in Pollable => v.state = "uncertain" /\ n > 0

\* What a task at pc knows of the turn it handles.
Knows(pc, v, u, n) ==
  /\ v.state # "none"
  /\ pc \in {"reserved", "unsure", "prepared", "unmarked", "send"} => n = 0
  /\ pc = "reserved" => u.state = "none"
  /\ pc \in {"prepared", "unmarked", "send", "sent", "acked"} => u.state = "prepared"
  /\ pc \in {"send", "sent", "acked"} => v.state = "uncertain"
  /\ pc \in {"sent", "acked"} => n > 0

Typed ==
  /\ wk \in [Task -> TaskState]
  /\ res \in [Submission -> Reservation]
  /\ sub \in [Submission -> SubmissionRow]
  /\ resp \in [Submission -> {"none", "open"} \cup Status]
  /\ rc \in [Reconciler -> Claims \cup {NoClaim}]
  /\ sent \in [Submission -> Nat]

BInv ==
  /\ Typed
  /\ \A s \in Submission : TurnInv(res[s], sub[s], sent[s])
  /\ \A t \in Task : wk[t].pc # "idle" => held[t] # NoLease
  /\ \A t \in Task : wk[t].pc \in Handling =>
       /\ wk[t].sub \in Submission
       /\ Knows(wk[t].pc, res[wk[t].sub], sub[wk[t].sub], sent[wk[t].sub])
  /\ \A t, u \in Task :
       /\ wk[t].pc \in Handling /\ wk[u].pc \in Handling
       /\ wk[t].sub = wk[u].sub
       => t = u
---------------------------------------------------------------------------
(***************************************************************************)
(* The background services implement the run table                         *)
(***************************************************************************)

\* What a worker does to the run table is a step of RunLease.
LEMMA SubmitStepRefines ==
  ASSUME NEW t \in Task, NEW e \in Reading, SubmitStep(t, e)
  PROVE  [Next]_vars
<1>1. CASE \E w \in WorkerId : Claim(t, w, e)
  BY <1>1 DEF Claim, Next, WorkerStep
<1>2. CASE StartRun(t, e)
  BY <1>2 DEF StartRun, Next, WorkerStep
<1>3. CASE GiveUpRun(t, e)
  <2>1. CASE Finish(t, e, "failed", "other")
    BY <2>1 DEF Next, WorkerStep, CompletionStates, Terminal
  <2>2. CASE \E delay \in 0..MaxRetryDelay : ScheduleRetry(t, e, delay)
    BY <2>2 DEF Next, WorkerStep
  <2> QED
    BY <1>3, <2>1, <2>2 DEF GiveUpRun
<1>4. CASE \/ \E s \in Submission : Reserve(t, e, s)
           \/ Refuse(t, e) \/ MarkUncertain(t, e) \/ ReleaseUnmarked(t, e)
  BY <1>4 DEF Reserve, Refuse, MarkUncertain, ReleaseUnmarked, vars
<1>5. CASE Prepare(t, e)
  BY <1>5 DEF Prepare, Next, WorkerStep
<1>6. CASE SubmitHeartbeat(t, e)
  BY <1>6 DEF SubmitHeartbeat, Next, WorkerStep
<1>7. CASE \E window \in 1..ResponseWindow : Accept(t, e, window)
  BY <1>7 DEF Accept, Next, WorkerStep
<1>8. CASE CloseAmbiguity(t, e)
  <2>1. Finish(t, e, "recovery_required", "other")
    BY <1>8 DEF CloseAmbiguity
  <2> QED
    BY <2>1 DEF Next, WorkerStep, CompletionStates
<1> QED
  BY <1>1, <1>2, <1>3, <1>4, <1>5, <1>6, <1>7, <1>8 DEF SubmitStep

\* A claim that the row still shows is of a pollable submission with a run.
LEMMA ClaimedTurn ==
  ASSUME BInv, NEW p \in Reconciler, NEW e \in Reading, Current(p, e)
  PROVE  /\ rc[p] \in Claims /\ rc[p].sub \in Submission
         /\ sub[rc[p].sub].state = "reconciling"
         /\ RunOf(rc[p].sub) \in Run
<1>1. rc[p] \in Claims /\ rc[p].sub \in Submission
  BY DEF BInv, Typed, Current, Shows, Claims
<1>2. sub[rc[p].sub].state = "reconciling"
  BY DEF Current, Shows
<1> QED
  BY <1>1, <1>2 DEF BInv, TurnInv, Pollable, RunOf

\* A closed set of pollable turns closes their runs.
LEMMA CloseRecoveryRefines ==
  ASSUME BInv, NEW B \in SUBSET Submission, NEW q, CloseRecovery(B, q),
         \A s \in B : sub[s].state \in Pollable
  PROVE  Next
<1>1. \A s \in B : RunOf(s) \in Run
  BY DEF BInv, TurnInv, RunOf
<1>2. {RunOf(s) : s \in B} \in SUBSET Run
  BY <1>1
<1>3. CloseBackgroundRecovery({RunOf(s) : s \in B})
  BY DEF CloseRecovery
<1> QED
  BY <1>2, <1>3 DEF Next

\* What a reconciler does to the run table is a step of RunLease.
LEMMA ReconcileStepRefines ==
  ASSUME BInv, NEW p \in Reconciler, NEW e \in Reading, ReconcileStep(p, e)
  PROVE  [Next]_vars
<1> DEFINE s == rc[p].sub
<1>1. CASE ClaimSubmission(p, e) \/ HeartbeatClaim(p, e) \/ BindRetrieval(p, e)
  BY <1>1 DEF ClaimSubmission, HeartbeatClaim, BindRetrieval, vars
<1>2. ASSUME NEW delay \in Int, Current(p, e), HandBack(p, e, delay)
      PROVE  [Next]_vars
  <2>1. s \in Submission /\ sub[s].state \in Pollable
    BY <1>2, ClaimedTurn DEF Pollable
  <2>2. CloseRecovery({s}, rcpt) \/ UNCHANGED vars
    BY <1>2 DEF HandBack, vars
  <2> HIDE DEF s
  <2> QED
    BY <2>1, <2>2, CloseRecoveryRefines
<1>3. CASE \E delay \in 1..MaxDelay : ReleaseBeforeRetrieval(p, e, delay)
  BY <1>2, <1>3 DEF ReleaseBeforeRetrieval
<1>4. CASE ReleaseNonterminal(p, e)
  <2>1. RetryDelay(rc[p].retry) \in Int
    BY <1>4, ClaimedTurn DEF ReleaseNonterminal, RetryDelay, Claims
  <2> QED
    BY <1>2, <1>4, <2>1 DEF ReleaseNonterminal
<1>5. CASE RejectRetrieval(p, e)
  <2>1. s \in Submission /\ sub[s].state \in Pollable /\ CloseRecovery({s}, rcpt)
    BY <1>5, ClaimedTurn DEF RejectRetrieval, Pollable
  <2> HIDE DEF s
  <2> QED
    BY <2>1, CloseRecoveryRefines
<1>6. CASE CommitTerminal(p, e)
  <2>1. s \in Submission /\ sub[s].state \in Pollable /\ RunOf(s) \in Run
    BY <1>6, ClaimedTurn DEF CommitTerminal, Pollable
  <2>2. FinalOf(rc[p].obs) \in Terminal
    BY <1>6, BackgroundAssumption
       DEF CommitTerminal, FinalOf, Terminal, ProviderStatuses
  <2>3. CASE CommitAnswer(s, rc[p].obs, Match(rcpt[s]))
    BY <2>1, <2>2, <2>3 DEF CommitAnswer, Next, ServiceStep
  <2>4. CASE CloseRecovery({s}, [rcpt EXCEPT ![s] = Match(rcpt[s])])
    <3> HIDE DEF s
    <3> QED
      BY <2>1, <2>4, CloseRecoveryRefines
  <2> QED
    BY <1>6, <2>3, <2>4 DEF CommitTerminal
<1> QED
  BY <1>1, <1>3, <1>4, <1>5, <1>6 DEF ReconcileStep

\* Every step is a step of the run table, or leaves it alone.
LEMMA StepRefines == BInv /\ [BNext]_bvars => [Next]_vars
<1> SUFFICES ASSUME BInv, [BNext]_bvars PROVE [Next]_vars
  OBVIOUS
<1>1. CASE \E t \in Task, e \in Reading : SubmitStep(t, e)
  BY <1>1, SubmitStepRefines
<1>2. CASE \E t \in Task : CreateStep(t)
  BY <1>2 DEF CreateStep, SendCreate, Acknowledged, SubmitFails, Drop, Next, vars
<1>3. CASE \E p \in Reconciler, e \in Reading : ReconcileStep(p, e)
  BY <1>3, ReconcileStepRefines
<1>4. CASE \E p \in Reconciler : Retrieve(p) \/ CommitAgain(p) \/ DropClaim(p)
  BY <1>4 DEF Retrieve, CommitAgain, DropClaim, vars
<1>5. CASE \E s \in Submission : ProviderStep(s)
  BY <1>5 DEF ProviderStep, Respond, RecordReceipt, vars
<1>6. CASE \E r \in Run : ToggleSession(r)
  BY <1>6 DEF ToggleSession, vars
<1>7. CASE \E e \in Reading : CloseExpired(e)
  <2>1. PICK e \in Reading : \E B \in Batches(e) : CloseRecovery(B, rcpt)
    BY <1>7 DEF CloseExpired
  <2>2. PICK B \in Batches(e) : CloseRecovery(B, rcpt)
    BY <2>1
  <2>3. B \in SUBSET Submission /\ \A s \in B : sub[s].state \in Pollable
    BY DEF Batches, Overdue
  <2> QED
    BY <2>2, <2>3, CloseRecoveryRefines
<1>8. CASE \E e \in Reading : RecoverLeases(e)
  BY <1>8 DEF RecoverLeases, Next
<1>9. CASE Elapse
  BY <1>9 DEF Elapse, Next
<1>10. CASE UNCHANGED bvars
  BY <1>10 DEF bvars, vars
<1> QED
  BY <1>1, <1>2, <1>3, <1>4, <1>5, <1>6, <1>7, <1>8, <1>9, <1>10 DEF BNext
---------------------------------------------------------------------------
(***************************************************************************)
(* Rows                                                                    *)
(***************************************************************************)

\* What each write makes of a submission row.
LEMMA AcceptedTyped ==
  ASSUME NEW row \in SubmissionRow, NEW e \in Int, NEW window \in Int
  PROVE  /\ AcceptedRow(row, e, window) \in SubmissionRow
         /\ AcceptedRow(row, e, window).state = "waiting_provider"
<1>1. /\ "waiting_provider" \in SubmissionStates
      /\ e \in Deadline /\ window + e \in Deadline /\ row.version + 1 \in Nat
  BY DEF SubmissionStates, Pollable, Deadline, SubmissionRow
<1> QED
  BY <1>1 DEF AcceptedRow, SubmissionRow

LEMMA EndedTyped ==
  ASSUME NEW row \in SubmissionRow, NEW state \in SubmissionStates
  PROVE  EndedRow(row, state) \in SubmissionRow /\ EndedRow(row, state).state = state
<1>1. None \in Deadline /\ row.version + 1 \in Nat
  BY DEF Deadline, SubmissionRow
<1> QED
  BY <1>1 DEF EndedRow, SubmissionRow

LEMMA ReleasedTyped ==
  ASSUME NEW row \in SubmissionRow, NEW next \in Int
  PROVE  /\ ReleasedRow(row, next) \in SubmissionRow
         /\ ReleasedRow(row, next).state = "waiting_provider"
<1>1. /\ "waiting_provider" \in SubmissionStates /\ next \in Deadline
      /\ row.retry + 1 \in Nat /\ row.version + 1 \in Nat
  BY DEF SubmissionStates, Pollable, Deadline, SubmissionRow
<1> QED
  BY <1>1 DEF ReleasedRow, SubmissionRow

LEMMA ClaimedTyped ==
  ASSUME NEW row \in SubmissionRow, NEW next \in Deadline
  PROVE  /\ ClaimedSubmission(row, next) \in SubmissionRow
         /\ ClaimedSubmission(row, next).state = "reconciling"
<1>1. "reconciling" \in SubmissionStates /\ row.rgen + 1 \in Nat
  BY DEF SubmissionStates, Pollable, SubmissionRow
<1> QED
  BY <1>1 DEF ClaimedSubmission, SubmissionRow

LEMMA ExpiryTyped ==
  ASSUME NEW row \in SubmissionRow, NEW e \in Reading
  PROVE  Expiry(row, e) \in Deadline
<1>1. row.dl \in Deadline /\ ClaimTtl + e \in Int
  BY DEF SubmissionRow, Reading
<1> QED
  BY <1>1 DEF Expiry, Deadline

\* A renewed claim: the row and the copy of the claim.
LEMMA BumpedTyped ==
  ASSUME NEW row \in SubmissionRow, NEW s \in Submission
  PROVE  /\ [row EXCEPT !.version = @ + 1] \in SubmissionRow
         /\ [row EXCEPT !.version = @ + 1].state = row.state
         /\ ClaimOf(s, [row EXCEPT !.version = @ + 1]) \in Claims
<1> DEFINE new == [row EXCEPT !.version = @ + 1]
<1>1. /\ new \in SubmissionRow /\ new.state = row.state
      /\ new.version \in Nat /\ new.retry \in Nat /\ new.marker \in BOOLEAN
  BY DEF SubmissionRow
<1> HIDE DEF new
<1>2. ClaimOf(s, new) \in Claims
  BY <1>1 DEF ClaimOf, Claims
<1> QED
  BY <1>1, <1>2 DEF new

LEMMA ElapsedTyped ==
  ASSUME NEW row \in SubmissionRow
  PROVE  /\ [row EXCEPT !.next = Later(@), !.dl = Later(@)] \in SubmissionRow
         /\ [row EXCEPT !.next = Later(@), !.dl = Later(@)].state = row.state
<1>1. \A d \in Deadline : Later(d) \in Deadline
  BY DEF Later, Deadline
<1> QED
  BY <1>1 DEF SubmissionRow
---------------------------------------------------------------------------
(***************************************************************************)
(* How a step may change turns                                             *)
(***************************************************************************)

\* A task that handles no reservation after its step, with no turn changed.
LEMMA AwayFromTurns ==
  ASSUME BInv, UNCHANGED <<res, sub, sent>>, Typed',
         NEW t \in Task, NEW w \in TaskState, w.pc \notin Handling,
         w.pc # "idle" => held'[t] # NoLease,
         wk' = [wk EXCEPT ![t] = w],
         \A u \in Task : u # t => held'[u] = held[u]
  PROVE  BInv'
<1>1. wk'[t] = w /\ \A u \in Task : u # t => wk'[u] = wk[u]
  BY DEF BInv, Typed
<1>2. \A u \in Task : wk'[u].pc \in Handling => u # t
  BY <1>1
<1>3. \A s \in Submission : TurnInv(res'[s], sub'[s], sent'[s])
  BY DEF BInv
<1>4. \A u \in Task : wk'[u].pc # "idle" => held'[u] # NoLease
  BY <1>1 DEF BInv
<1>5. \A u \in Task : wk'[u].pc \in Handling =>
        /\ wk'[u].sub \in Submission
        /\ Knows(wk'[u].pc, res'[wk'[u].sub], sub'[wk'[u].sub], sent'[wk'[u].sub])
  BY <1>1, <1>2 DEF BInv
<1>6. \A u, v \in Task :
        /\ wk'[u].pc \in Handling /\ wk'[v].pc \in Handling
        /\ wk'[u].sub = wk'[v].sub
        => u = v
  BY <1>1, <1>2 DEF BInv
<1> QED
  BY <1>3, <1>4, <1>5, <1>6 DEF BInv

\* A task that changes, or only goes on with, a turn nobody else handles.
LEMMA OwnTurn ==
  ASSUME BInv, Typed', NEW t \in Task, NEW s \in Submission,
         NEW w \in TaskState, NEW v, NEW u, NEW n,
         \A x \in Task : x # t /\ wk[x].pc \in Handling => wk[x].sub # s,
         wk' = [wk EXCEPT ![t] = w],
         res' = [res EXCEPT ![s] = v],
         sub' = [sub EXCEPT ![s] = u],
         sent' = [sent EXCEPT ![s] = n],
         TurnInv(v, u, n),
         w.pc \in Handling => w.sub = s /\ Knows(w.pc, v, u, n),
         w.pc # "idle" => held'[t] # NoLease,
         \A x \in Task : x # t => held'[x] = held[x]
  PROVE  BInv'
<1>1. wk'[t] = w /\ \A x \in Task : x # t => wk'[x] = wk[x]
  BY DEF BInv, Typed
<1>2. /\ res'[s] = v /\ sub'[s] = u /\ sent'[s] = n
      /\ \A q \in Submission : q # s =>
           res'[q] = res[q] /\ sub'[q] = sub[q] /\ sent'[q] = sent[q]
  BY DEF BInv, Typed
<1>3. \A q \in Submission : TurnInv(res'[q], sub'[q], sent'[q])
  BY <1>2 DEF BInv
<1>4. \A x \in Task : wk'[x].pc # "idle" => held'[x] # NoLease
  BY <1>1 DEF BInv
<1>5. ASSUME NEW x \in Task, wk'[x].pc \in Handling
      PROVE  /\ wk'[x].sub \in Submission
             /\ Knows(wk'[x].pc, res'[wk'[x].sub], sub'[wk'[x].sub], sent'[wk'[x].sub])
  <2>1. CASE x = t
    BY <1>1, <1>2, <1>5, <2>1
  <2>2. CASE x # t
    <3>1. wk'[x] = wk[x] /\ wk[x].sub \in Submission /\ wk[x].sub # s
      BY <1>1, <1>5, <2>2 DEF BInv
    <3>2. Knows(wk[x].pc, res[wk[x].sub], sub[wk[x].sub], sent[wk[x].sub])
      BY <1>5, <3>1 DEF BInv
    <3> QED
      BY <1>2, <3>1, <3>2
  <2> QED
    BY <2>1, <2>2
<1>6. ASSUME NEW x \in Task, NEW y \in Task, wk'[x].pc \in Handling,
             wk'[y].pc \in Handling, wk'[x].sub = wk'[y].sub
      PROVE  x = y
  BY <1>1, <1>6 DEF BInv
<1> QED
  BY <1>3, <1>4, <1>5, <1>6 DEF BInv

\* A step that leaves all tasks alone and changes pollable turns only.
LEMMA ServiceTurns ==
  ASSUME BInv, Typed', UNCHANGED <<wk, held, sent>>,
         \A s \in Submission :
           \/ res'[s] = res[s] /\ sub'[s].state = sub[s].state
           \/ /\ sub[s].state \in Pollable
              /\ res'[s].state # "none"
              /\ TurnInv(res'[s], sub'[s], sent[s])
  PROVE  BInv'
<1>1. ASSUME NEW s \in Submission
      PROVE  TurnInv(res'[s], sub'[s], sent'[s])
  BY <1>1 DEF BInv, TurnInv
<1>2. ASSUME NEW t \in Task, wk'[t].pc \in Handling
      PROVE  /\ wk'[t].sub \in Submission
             /\ Knows(wk'[t].pc, res'[wk'[t].sub], sub'[wk'[t].sub], sent'[wk'[t].sub])
  <2> DEFINE s == wk[t].sub
  <2>1. s \in Submission /\ Knows(wk[t].pc, res[s], sub[s], sent[s])
    BY <1>2 DEF BInv
  <2>2. TurnInv(res[s], sub[s], sent[s])
    BY <2>1 DEF BInv
  <2>3. CASE res'[s] = res[s] /\ sub'[s].state = sub[s].state
    BY <2>1, <2>3 DEF Knows
  <2>4. CASE sub[s].state \in Pollable /\ res'[s].state # "none"
    <3>1. wk[t].pc \notin {"reserved", "unsure", "prepared", "unmarked", "send",
                           "sent", "acked"}
      BY <2>1, <2>2, <2>4 DEF Knows, TurnInv, Pollable, BInv, Typed
    <3> QED
      BY <2>1, <2>4, <3>1 DEF Knows
  <2> QED
    BY <2>1, <2>3, <2>4
<1> QED
  BY <1>1, <1>2 DEF BInv
---------------------------------------------------------------------------
(***************************************************************************)
(* A task keeps the invariant                                              *)
(***************************************************************************)

\* A task's step leaves the leases of the others alone.
LEMMA Elsewhere ==
  ASSUME IInv, NEW t \in Task, (\E e \in Reading : SubmitStep(t, e)) \/ CreateStep(t)
  PROVE  \A x \in Task : x # t => held'[x] = held[x]
<1>1. CASE \E e \in Reading : SubmitStep(t, e)
  <2>1. \/ UNCHANGED held
        \/ \E h : held' = [held EXCEPT ![t] = h]
    BY ZenonT(90), <1>1 DEF SubmitStep, Claim, ClaimNext, StartRun, Start, GiveUpRun, Reserve,
      Refuse, Prepare, MarkUncertain, ReleaseUnmarked, SubmitHeartbeat, Heartbeat,
      Accept, AcceptBackground, CloseAmbiguity, Finish, ScheduleRetry, Conclude,
      GiveUp, Write
  <2> QED
    BY SMTT(30), <2>1 DEF IInv, HeldInv
<1>2. CASE CreateStep(t)
  BY <1>2 DEF CreateStep, SendCreate, Acknowledged, SubmitFails, Drop, Crash, IInv,
     HeldInv
<1> QED
  BY <1>1, <1>2

\* What is known of a task that handles a reservation.
LEMMA Mine ==
  ASSUME BInv, NEW t \in Task, wk[t].pc \in Handling
  PROVE  /\ SubOf(t) \in Submission /\ SubOf(t) = wk[t].sub
         /\ wk[t] \in TaskState /\ held[t] # NoLease
         /\ res[SubOf(t)] \in Reservation /\ sub[SubOf(t)] \in SubmissionRow
         /\ sent[SubOf(t)] \in Nat
         /\ \A x \in Task : x # t /\ wk[x].pc \in Handling => wk[x].sub # SubOf(t)
         /\ Knows(wk[t].pc, res[SubOf(t)], sub[SubOf(t)], sent[SubOf(t)])
         /\ TurnInv(res[SubOf(t)], sub[SubOf(t)], sent[SubOf(t)])
<1>1. SubOf(t) \in Submission /\ SubOf(t) = wk[t].sub
  BY DEF BInv, SubOf
<1>2. wk[t].pc # "idle"
  BY DEF Handling
<1> QED
  BY <1>1, <1>2 DEF BInv, Typed

\* Rows that a step leaves alone, written as an update of one of them.
LEMMA SameRows ==
  ASSUME BInv, NEW s \in Submission
  PROVE  /\ res = [res EXCEPT ![s] = res[s]]
         /\ sub = [sub EXCEPT ![s] = sub[s]]
         /\ sent = [sent EXCEPT ![s] = sent[s]]
BY DEF BInv, Typed

\* A reservation in another state.
LEMMA SetReservationTyped ==
  ASSUME BInv, NEW s \in Submission,
         NEW state \in {"reserved", "released", "uncertain", "committed"},
         SetReservation(s, state)
  PROVE  \E v \in Reservation :
           /\ v.state = state /\ v.run = res[s].run
           /\ res' = [res EXCEPT ![s] = v]
           /\ res' \in [Submission -> Reservation]
<1> DEFINE v == [res[s] EXCEPT !.state = state]
<1>1. res[s] \in Reservation
  BY DEF BInv, Typed
<1>2. v \in Reservation /\ v.state = state /\ v.run = res[s].run
  BY <1>1 DEF Reservation
<1>3. res' = [res EXCEPT ![s] = v]
  BY DEF SetReservation
<1> HIDE DEF v
<1>4. res' \in [Submission -> Reservation]
  BY <1>2, <1>3 DEF BInv, Typed
<1> QED
  BY <1>2, <1>3, <1>4

\* The same task at another place.
LEMMA MovedTyped ==
  ASSUME NEW w \in TaskState, NEW pc \in PC
  PROVE  /\ [w EXCEPT !.pc = pc] \in TaskState
         /\ [w EXCEPT !.pc = pc].pc = pc /\ [w EXCEPT !.pc = pc].sub = w.sub
BY DEF TaskState

\* Outside submit: claim, start, give up, and crash.
LEMMA OutsideStepInv ==
  ASSUME IInv, BInv, NEW t \in Task, NEW e \in Reading,
         \/ \E w \in WorkerId : Claim(t, w, e)
         \/ StartRun(t, e) \/ GiveUpRun(t, e) \/ Drop(t),
         \A x \in Task : x # t => held'[x] = held[x]
  PROVE  BInv'
<1>1. /\ wk[t] \in TaskState /\ Idle \in TaskState /\ Idle.pc = "idle"
      /\ {"idle", "leased", "ready", "lost"} \subseteq PC
      /\ {"idle", "leased", "ready", "lost"} \cap Handling = {}
  BY DEF BInv, Typed, Idle, TaskState, PC, Handling
<1>2. UNCHANGED <<res, sub, resp, rc, sent>>
  BY DEF Claim, StartRun, GiveUpRun, Drop
<1>3. \E w \in TaskState :
        /\ w.pc \in {"idle", "leased", "ready", "lost"}
        /\ w.pc # "idle" => held'[t] # NoLease
        /\ wk' = [wk EXCEPT ![t] = w]
  <2>1. CASE \E w \in WorkerId : Claim(t, w, e)
    <3>1. wk[t].pc = "idle" /\ wk = [wk EXCEPT ![t] = wk[t]]
      BY <2>1 DEF Claim, At, BInv, Typed
    <3>2. CASE held'[t] = NoLease
      BY <1>1, <2>1, <3>1, <3>2 DEF Claim
    <3>3. CASE held'[t] # NoLease
      <4>1. wk' = [wk EXCEPT ![t] = [wk[t] EXCEPT !.pc = "leased"]]
        BY <2>1, <3>3 DEF Claim
      <4> QED
        BY <1>1, <3>3, <4>1, MovedTyped
    <3> QED
      BY <3>2, <3>3
  <2>2. CASE StartRun(t, e)
    <3>1. held[t] # NoLease /\ Write(t, [Renewed(MyRow(t), e) EXCEPT !.state = "running"])
      BY <2>2 DEF StartRun, Start, Fenced, Matches
    <3>2. held'[t] # NoLease
      BY <3>1, WriteHolds
    <3>3. PICK pc \in {"ready", "lost"} : wk' = [wk EXCEPT ![t] = [wk[t] EXCEPT !.pc = pc]]
      BY <2>2 DEF StartRun, Goes
    <3>4. pc \in PC
      BY <1>1
    <3> QED
      BY <1>1, <3>2, <3>3, <3>4, MovedTyped
  <2>3. CASE GiveUpRun(t, e)
    <3>1. CASE held'[t] = NoLease
      <4>1. wk' = [wk EXCEPT ![t] = Idle]
        BY <2>3, <3>1 DEF GiveUpRun
      <4> QED
        BY <1>1, <4>1
    <3>2. CASE held'[t] # NoLease
      <4>1. wk' = [wk EXCEPT ![t] = [wk[t] EXCEPT !.pc = "lost"]]
        BY <2>3, <3>2 DEF GiveUpRun
      <4> QED
        BY <1>1, <3>2, <4>1, MovedTyped
    <3> QED
      BY <3>1, <3>2
  <2>4. CASE Drop(t)
    BY <1>1, <2>4 DEF Drop
  <2> QED
    BY <2>1, <2>2, <2>3, <2>4
<1>4. PICK w \in TaskState : /\ w.pc \in {"idle", "leased", "ready", "lost"}
                             /\ w.pc # "idle" => held'[t] # NoLease
                             /\ wk' = [wk EXCEPT ![t] = w]
  BY <1>3
<1>5. Typed'
  BY <1>2, <1>4 DEF BInv, Typed
<1> QED
  BY <1>1, <1>2, <1>4, <1>5, AwayFromTurns

\* Reserve: the new turn is nobody's.
LEMMA ReserveInv ==
  ASSUME IInv, BInv, NEW t \in Task, NEW e \in Reading, NEW s \in Submission,
         Reserve(t, e, s), \A x \in Task : x # t => held'[x] = held[x]
  PROVE  BInv'
<1> DEFINE v == [state |-> "reserved", run |-> held[t].run, gen |-> held[t].gen]
<1>1. wk[t] \in TaskState /\ wk[t].pc = "ready" /\ held[t] # NoLease /\ UNCHANGED held
  BY DEF Reserve, At, BInv, Typed
<1>2. v \in Reservation /\ v.state = "reserved" /\ v.run \in Run
  BY <1>1, HeldRun DEF Reservation
<1>3. res[s].state = "none" /\ res' = [res EXCEPT ![s] = v]
  BY DEF Reserve, NoReservation
<1> HIDE DEF v
<1>4. TurnInv(res[s], sub[s], sent[s]) /\ sent[s] \in Nat
  BY DEF BInv, Typed
<1>5. sub[s].state = "none" /\ sent[s] = 0
  BY <1>3, <1>4 DEF TurnInv
<1>6. TurnInv(v, sub[s], sent[s]) /\ Knows("reserved", v, sub[s], sent[s])
  BY <1>2, <1>5 DEF TurnInv, Knows, Pollable
<1>7. \A x \in Task : wk[x].pc \in Handling => wk[x].sub # s
  BY <1>3 DEF BInv, Knows
<1>8. \E w \in TaskState :
        /\ wk' = [wk EXCEPT ![t] = w]
        /\ w.pc # "idle" => held'[t] # NoLease
        /\ w.pc \in Handling => w.sub = s /\ w.pc = "reserved"
  <2>1. CASE wk' = [wk EXCEPT ![t] = [pc |-> "reserved", sub |-> s]]
    <3>1. [pc |-> "reserved", sub |-> s] \in TaskState
      BY DEF TaskState, PC
    <3> QED
      BY <1>1, <2>1, <3>1
  <2>2. CASE UNCHANGED wk
    <3>1. wk' = [wk EXCEPT ![t] = wk[t]]
      BY <2>2 DEF BInv, Typed
    <3> QED
      BY <1>1, <3>1 DEF Handling
  <2> QED
    BY <2>1, <2>2 DEF Reserve
<1>9. PICK w \in TaskState : /\ wk' = [wk EXCEPT ![t] = w]
                             /\ w.pc # "idle" => held'[t] # NoLease
                             /\ w.pc \in Handling => w.sub = s /\ w.pc = "reserved"
  BY <1>8
<1>10. UNCHANGED <<sub, resp, rc, sent>>
  BY DEF Reserve
<1>11. Typed'
  BY <1>2, <1>3, <1>9, <1>10 DEF BInv, Typed
<1>12. sub' = [sub EXCEPT ![s] = sub[s]] /\ sent' = [sent EXCEPT ![s] = sent[s]]
  BY <1>10, SameRows
<1> QED
  BY ZenonT(90), <1>3, <1>6, <1>7, <1>9, <1>11, <1>12, OwnTurn

\* A step of submit that changes only the reservation, if anything.
LEMMA CapacityStepInv ==
  ASSUME IInv, BInv, NEW t \in Task, NEW e \in Reading,
         Refuse(t, e) \/ ReleaseUnmarked(t, e) \/ MarkUncertain(t, e),
         \A x \in Task : x # t => held'[x] = held[x]
  PROVE  BInv'
<1> DEFINE s == SubOf(t)
<1>1. wk[t].pc \in {"reserved", "unsure", "unmarked", "prepared"}
  BY DEF Refuse, ReleaseUnmarked, MarkUncertain, At
<1>2. wk[t].pc \in Handling
  BY <1>1 DEF Handling
<1>3. /\ s \in Submission /\ s = wk[t].sub
      /\ wk[t] \in TaskState /\ held[t] # NoLease
      /\ res[s] \in Reservation
      /\ \A x \in Task : x # t /\ wk[x].pc \in Handling => wk[x].sub # s
      /\ Knows(wk[t].pc, res[s], sub[s], sent[s])
      /\ TurnInv(res[s], sub[s], sent[s])
  BY <1>2, Mine
<1> HIDE DEF s
<1>4. UNCHANGED <<held, sub, resp, rc, sent>>
  BY DEF Refuse, ReleaseUnmarked, MarkUncertain
<1>5. sub' = [sub EXCEPT ![s] = sub[s]] /\ sent' = [sent EXCEPT ![s] = sent[s]]
  BY <1>3, <1>4, SameRows
<1>6. sent[s] = 0
  BY <1>1, <1>3 DEF Knows
<1>7. \E v \in Reservation, w \in TaskState :
        /\ v.run = res[s].run /\ v.state # "none"
        /\ v.state # res[s].state => sub[s].state \notin Pollable
        /\ w.pc \in Handling => /\ w.sub = s
                                /\ Knows(w.pc, v, sub[s], sent[s])
        /\ w.pc # "idle"
        /\ res' = [res EXCEPT ![s] = v] /\ wk' = [wk EXCEPT ![t] = w]
  <2>1. ASSUME ReleaseUnstarted(s, e)
        PROVE  \E v \in Reservation :
                 /\ v.run = res[s].run /\ v.state # "none"
                 /\ v.state # res[s].state => sub[s].state \notin Pollable
                 /\ res' = [res EXCEPT ![s] = v]
    <3>1. CASE res[s].state = "reserved" /\ SetReservation(s, "released")
      <4>1. sub[s].state \notin Pollable
        BY <1>3, <3>1 DEF TurnInv
      <4> QED
        BY <1>3, <3>1, <4>1, SetReservationTyped
    <3>2. CASE UNCHANGED res
      <4>1. res' = [res EXCEPT ![s] = res[s]] /\ res[s].state # "none"
        BY <1>3, <3>2, SameRows DEF Knows
      <4> QED
        BY <1>3, <4>1
    <3> QED
      BY <2>1, <3>1, <3>2 DEF ReleaseUnstarted
  <2>2. CASE Refuse(t, e)
    <3>1. PICK v \in Reservation :
                 /\ v.run = res[s].run /\ v.state # "none"
                 /\ v.state # res[s].state => sub[s].state \notin Pollable
                 /\ res' = [res EXCEPT ![s] = v]
      BY <2>1, <2>2 DEF Refuse, s
    <3>2. \E w \in TaskState : w.pc \in {"ready", "lost"} /\ wk' = [wk EXCEPT ![t] = w]
      <4>1. [pc |-> "ready", sub |-> None] \in TaskState
        BY DEF TaskState, PC
      <4>2. [wk[t] EXCEPT !.pc = "lost"] \in TaskState /\ [wk[t] EXCEPT !.pc = "lost"].pc = "lost"
        BY <1>3, MovedTyped DEF PC
      <4> QED
        BY <2>2, <4>1, <4>2 DEF Refuse
    <3> QED
      BY <3>1, <3>2 DEF Handling
  <2>3. CASE ReleaseUnmarked(t, e)
    <3>1. PICK v \in Reservation :
                 /\ v.run = res[s].run /\ v.state # "none"
                 /\ v.state # res[s].state => sub[s].state \notin Pollable
                 /\ res' = [res EXCEPT ![s] = v]
      BY <2>1, <2>3 DEF ReleaseUnmarked, s
    <3>2. wk' = [wk EXCEPT ![t] = [wk[t] EXCEPT !.pc = "ambiguous"]]
      BY <2>3 DEF ReleaseUnmarked, Continues
    <3>3. "ambiguous" \in PC
      BY DEF PC
    <3>4. PICK w \in TaskState : /\ w.pc = "ambiguous" /\ w.sub = s
                                 /\ wk' = [wk EXCEPT ![t] = w]
      BY <1>3, <3>2, <3>3, MovedTyped
    <3> QED
      BY <3>1, <3>4 DEF Knows
  <2>4. CASE MarkUncertain(t, e)
    <3>1. wk[t].pc = "prepared" /\ sub[s].state = "prepared" /\ res[s].state # "none"
      BY <1>3, <2>4 DEF MarkUncertain, At, Knows
    <3>2. \E v \in Reservation, pc \in {"send", "unmarked"} :
            /\ v.run = res[s].run /\ v.state # "none"
            /\ pc = "send" => v.state = "uncertain"
            /\ res' = [res EXCEPT ![s] = v]
            /\ wk' = [wk EXCEPT ![t] = [wk[t] EXCEPT !.pc = pc]]
      <4>1. CASE SetReservation(s, "uncertain") /\ Continues(t, {"send", "unmarked"})
        <5>1. PICK pc \in {"send", "unmarked"} :
                wk' = [wk EXCEPT ![t] = [wk[t] EXCEPT !.pc = pc]]
          BY <4>1 DEF Continues
        <5>2. PICK v \in Reservation : /\ v.run = res[s].run /\ v.state = "uncertain"
                                       /\ res' = [res EXCEPT ![s] = v]
          BY <1>3, <4>1, SetReservationTyped
        <5> QED
          BY <5>1, <5>2
      <4>2. CASE UNCHANGED res /\ Continues(t, {"unmarked"})
        <5>1. wk' = [wk EXCEPT ![t] = [wk[t] EXCEPT !.pc = "unmarked"]]
          BY <4>2 DEF Continues
        <5>2. res' = [res EXCEPT ![s] = res[s]]
          BY <1>3, <4>2, SameRows
        <5> QED
          BY <1>3, <3>1, <5>1, <5>2
      <4> QED
        BY <2>4, <4>1, <4>2 DEF MarkUncertain, s
    <3>3. PICK v \in Reservation, pc \in {"send", "unmarked"} :
            /\ v.run = res[s].run /\ v.state # "none"
            /\ pc = "send" => v.state = "uncertain"
            /\ res' = [res EXCEPT ![s] = v]
            /\ wk' = [wk EXCEPT ![t] = [wk[t] EXCEPT !.pc = pc]]
      BY <3>2
    <3>4. pc \in PC
      BY DEF PC
    <3>5. PICK w \in TaskState : /\ w.pc = pc /\ w.sub = s
                                 /\ wk' = [wk EXCEPT ![t] = w]
      BY <1>3, <3>3, <3>4, MovedTyped
    <3>6. Knows(pc, v, sub[s], sent[s])
      BY <1>6, <3>1, <3>3 DEF Knows
    <3> QED
      BY <3>1, <3>3, <3>5, <3>6 DEF Pollable
  <2> QED
    BY <2>2, <2>3, <2>4
<1>8. PICK v \in Reservation, w \in TaskState :
        /\ v.run = res[s].run /\ v.state # "none"
        /\ v.state # res[s].state => sub[s].state \notin Pollable
        /\ w.pc \in Handling => /\ w.sub = s
                                /\ Knows(w.pc, v, sub[s], sent[s])
        /\ w.pc # "idle"
        /\ res' = [res EXCEPT ![s] = v] /\ wk' = [wk EXCEPT ![t] = w]
  BY <1>7
<1>9. TurnInv(v, sub[s], sent[s])
  BY <1>3, <1>6, <1>8 DEF TurnInv, Knows
<1>10. Typed'
  BY <1>3, <1>4, <1>8 DEF BInv, Typed
<1>11. held'[t] # NoLease
  BY <1>3, <1>4
<1> QED
  BY <1>3, <1>5, <1>8, <1>9, <1>10, <1>11, OwnTurn

\* A step of submit that writes the submission, sends, or only goes on.
LEMMA RequestStepInv ==
  ASSUME IInv, BInv, NEW t \in Task, NEW e \in Reading,
         \/ Prepare(t, e) \/ SubmitHeartbeat(t, e) \/ CloseAmbiguity(t, e)
         \/ \E window \in 1..ResponseWindow : Accept(t, e, window)
         \/ SendCreate(t) \/ Acknowledged(t) \/ SubmitFails(t),
         \A x \in Task : x # t => held'[x] = held[x]
  PROVE  BInv'
<1> DEFINE s == SubOf(t)
<1>1. wk[t].pc \in Handling \ {"unsure", "unmarked", "prepared"}
  BY DEF Prepare, SubmitHeartbeat, CloseAmbiguity, Accept, SendCreate, Acknowledged,
         SubmitFails, At, Handling
<1>2. /\ s \in Submission /\ s = wk[t].sub
      /\ wk[t] \in TaskState /\ held[t] # NoLease
      /\ sub[s] \in SubmissionRow /\ sent[s] \in Nat
      /\ \A x \in Task : x # t /\ wk[x].pc \in Handling => wk[x].sub # s
      /\ Knows(wk[t].pc, res[s], sub[s], sent[s])
      /\ TurnInv(res[s], sub[s], sent[s])
  BY <1>1, Mine
<1>3. res[s].state # "none"
  BY <1>2 DEF Knows
<1>4. \A pc \in PC : /\ [wk[t] EXCEPT !.pc = pc] \in TaskState
                     /\ [wk[t] EXCEPT !.pc = pc].pc = pc
                     /\ [wk[t] EXCEPT !.pc = pc].sub = s
  BY <1>2, MovedTyped
<1>5. Idle \in TaskState /\ Idle.pc = "idle" /\ Idle.pc \notin Handling
  BY DEF Idle, TaskState, PC, Handling
<1>6. UNCHANGED <<res, rc>> /\ res' = [res EXCEPT ![s] = res[s]]
  <2>1. UNCHANGED <<res, rc>>
    BY DEF Prepare, SubmitHeartbeat, CloseAmbiguity, Accept, SendCreate, Acknowledged,
           SubmitFails
  <2> QED
    BY <1>2, <2>1, SameRows
<1> HIDE DEF s
<1>7. ASSUME NEW w \in TaskState, NEW u \in SubmissionRow, NEW n \in Nat,
             resp' \in [Submission -> {"none", "open"} \cup Status],
             wk' = [wk EXCEPT ![t] = w],
             sub' = [sub EXCEPT ![s] = u],
             sent' = [sent EXCEPT ![s] = n],
             TurnInv(res[s], u, n),
             w.pc \in Handling => w.sub = s /\ Knows(w.pc, res[s], u, n),
             w.pc # "idle" => held'[t] # NoLease
      PROVE  BInv'
  <2>1. Typed'
    BY <1>2, <1>6, <1>7 DEF BInv, Typed
  <2> QED
    BY ZenonT(90), <1>2, <1>6, <1>7, <2>1, OwnTurn
<1>8. CASE Prepare(t, e)
  <2> DEFINE u == [sub[s] EXCEPT !.state = "prepared"]
  <2>1. u \in SubmissionRow /\ u.state = "prepared" /\ sub' = [sub EXCEPT ![s] = u]
    BY <1>2, <1>8 DEF Prepare, SubmissionRow, SubmissionStates, s
  <2> HIDE DEF u
  <2>2. /\ sent[s] = 0 /\ UNCHANGED <<resp, sent>> /\ sent' = [sent EXCEPT ![s] = sent[s]]
        /\ resp' \in [Submission -> {"none", "open"} \cup Status]
    BY <1>2, <1>8, SameRows DEF Prepare, At, Knows, BInv, Typed
  <2>3. PICK pc \in {"prepared", "unsure"} :
          wk' = [wk EXCEPT ![t] = [wk[t] EXCEPT !.pc = pc]]
    BY <1>8 DEF Prepare, Goes
  <2>4. PICK w \in TaskState : w.pc = pc /\ w.sub = s /\ wk' = [wk EXCEPT ![t] = w]
    BY <1>4, <2>3 DEF PC
  <2>5. held'[t] # NoLease
    <3>1. Write(t, Renewed(MyRow(t), e))
      BY <1>8 DEF Prepare, Heartbeat
    <3> QED
      BY <1>2, <3>1, WriteHolds
  <2>6. TurnInv(res[s], u, sent[s]) /\ Knows(pc, res[s], u, sent[s])
    BY <1>2, <1>3, <2>1, <2>2 DEF TurnInv, Knows, Pollable
  <2> QED
    BY <1>2, <1>7, <2>1, <2>2, <2>4, <2>5, <2>6
<1>9. CASE SubmitHeartbeat(t, e)
  <2>1. /\ UNCHANGED <<resp, sent, sub>>
        /\ sub' = [sub EXCEPT ![s] = sub[s]] /\ sent' = [sent EXCEPT ![s] = sent[s]]
        /\ resp' \in [Submission -> {"none", "open"} \cup Status]
    BY <1>2, <1>9, SameRows DEF SubmitHeartbeat, BInv, Typed
  <2>2. PICK pc \in {"sent", "ambiguous"} :
          wk' = [wk EXCEPT ![t] = [wk[t] EXCEPT !.pc = pc]]
    BY <1>9 DEF SubmitHeartbeat, Goes
  <2>3. PICK w \in TaskState : w.pc = pc /\ w.sub = s /\ wk' = [wk EXCEPT ![t] = w]
    BY <1>4, <2>2 DEF PC
  <2>4. held'[t] # NoLease
    <3>1. Write(t, Renewed(MyRow(t), e))
      BY <1>9 DEF SubmitHeartbeat, Heartbeat
    <3> QED
      BY <1>2, <3>1, WriteHolds
  <2>5. Knows(pc, res[s], sub[s], sent[s])
    BY <1>2, <1>9 DEF SubmitHeartbeat, At, Knows
  <2> QED
    BY <1>2, <1>7, <2>1, <2>3, <2>4, <2>5
<1>10. CASE CloseAmbiguity(t, e)
  <2> DEFINE u == EndedRow(sub[s], "recovery_required")
  <2>1. u \in SubmissionRow /\ u.state = "recovery_required"
    BY <1>2, EndedTyped DEF SubmissionStates
  <2>2. sub' = [sub EXCEPT ![s] = u]
    BY <1>10 DEF CloseAmbiguity, s
  <2> HIDE DEF u
  <2>3. /\ sent' = [sent EXCEPT ![s] = sent[s]]
        /\ resp' \in [Submission -> {"none", "open"} \cup Status]
    BY <1>2, <1>10, SameRows DEF CloseAmbiguity, BInv, Typed
  <2>4. TurnInv(res[s], u, sent[s])
    BY <1>2, <1>3, <2>1 DEF TurnInv, Pollable
  <2>5. \E w \in TaskState : /\ wk' = [wk EXCEPT ![t] = w] /\ w.pc \in {"idle", "lost"}
                             /\ w.pc # "idle" => held'[t] # NoLease
    <3>1. CASE held'[t] = NoLease
      BY <1>5, <1>10, <3>1 DEF CloseAmbiguity
    <3>2. CASE held'[t] # NoLease
      <4>1. wk' = [wk EXCEPT ![t] = [wk[t] EXCEPT !.pc = "lost"]]
        BY <1>10, <3>2 DEF CloseAmbiguity
      <4> QED
        BY <1>4, <3>2, <4>1 DEF PC
    <3> QED
      BY <3>1, <3>2
  <2> QED
    BY <1>2, <1>7, <2>1, <2>2, <2>3, <2>4, <2>5 DEF Handling
<1>11. CASE \E window \in 1..ResponseWindow : Accept(t, e, window)
  <2>1. PICK window \in 1..ResponseWindow : Accept(t, e, window)
    BY <1>11
  <2> DEFINE u == AcceptedRow(sub[s], e, window)
  <2>2. u \in SubmissionRow /\ u.state = "waiting_provider"
    BY <1>2, AcceptedTyped DEF Reading
  <2>3. sub' = [sub EXCEPT ![s] = u]
    BY <2>1 DEF Accept, s
  <2> HIDE DEF u
  <2>4. /\ sent' = [sent EXCEPT ![s] = sent[s]]
        /\ resp' \in [Submission -> {"none", "open"} \cup Status]
    BY <1>2, <2>1, SameRows DEF Accept, BInv, Typed
  <2>5. res[s].state = "uncertain" /\ sent[s] > 0
    BY <1>2, <2>1 DEF Accept, At, Knows
  <2>6. TurnInv(res[s], u, sent[s]) /\ Knows("ambiguous", res[s], u, sent[s])
    BY <1>2, <2>2, <2>5 DEF TurnInv, Knows
  <2>7. CASE held'[t] = NoLease
    <3>1. wk' = [wk EXCEPT ![t] = Idle]
      BY <2>1, <2>7 DEF Accept
    <3> QED
      BY <1>2, <1>5, <1>7, <2>2, <2>3, <2>4, <2>6, <3>1
  <2>8. CASE held'[t] # NoLease
    <3>1. wk' = [wk EXCEPT ![t] = [wk[t] EXCEPT !.pc = "ambiguous"]]
      BY <2>1, <2>8 DEF Accept
    <3>2. PICK w \in TaskState : /\ w.pc = "ambiguous" /\ w.sub = s
                                 /\ wk' = [wk EXCEPT ![t] = w]
      BY <1>4, <3>1 DEF PC
    <3> QED
      BY <1>2, <1>7, <2>2, <2>3, <2>4, <2>6, <2>8, <3>2
  <2> QED
    BY <2>7, <2>8
<1>12. CASE SendCreate(t)
  <2>1. /\ sub' = [sub EXCEPT ![s] = sub[s]] /\ sent' = [sent EXCEPT ![s] = sent[s] + 1]
        /\ held'[t] # NoLease
    BY <1>2, <1>12, SameRows DEF SendCreate, s
  <2>2. resp' \in [Submission -> {"none", "open"} \cup Status]
    BY <1>2, <1>12 DEF SendCreate, BInv, Typed
  <2>3. wk' = [wk EXCEPT ![t] = [wk[t] EXCEPT !.pc = "sent"]]
    BY <1>12 DEF SendCreate, Continues
  <2>4. PICK w \in TaskState : w.pc = "sent" /\ w.sub = s /\ wk' = [wk EXCEPT ![t] = w]
    BY <1>4, <2>3 DEF PC
  <2>5. /\ sent[s] + 1 \in Nat
        /\ TurnInv(res[s], sub[s], sent[s] + 1)
        /\ Knows("sent", res[s], sub[s], sent[s] + 1)
    BY <1>2, <1>12 DEF SendCreate, At, TurnInv, Knows, Pollable
  <2> QED
    BY <1>2, <1>7, <2>1, <2>2, <2>4, <2>5
<1>13. CASE Acknowledged(t) \/ SubmitFails(t)
  <2>1. /\ sub' = [sub EXCEPT ![s] = sub[s]] /\ sent' = [sent EXCEPT ![s] = sent[s]]
        /\ held'[t] # NoLease
        /\ resp' \in [Submission -> {"none", "open"} \cup Status]
    BY <1>2, <1>13, SameRows DEF Acknowledged, SubmitFails, BInv, Typed
  <2>2. \E pc \in {"acked", "ambiguous"} :
          /\ wk' = [wk EXCEPT ![t] = [wk[t] EXCEPT !.pc = pc]]
          /\ Knows(pc, res[s], sub[s], sent[s])
    BY <1>2, <1>13 DEF Acknowledged, SubmitFails, Continues, At, Knows
  <2>3. PICK w \in TaskState : /\ w.sub = s /\ wk' = [wk EXCEPT ![t] = w]
                               /\ w.pc # "idle" /\ Knows(w.pc, res[s], sub[s], sent[s])
    BY ZenonT(90), <1>4, <2>2 DEF PC
  <2> QED
    BY <1>2, <1>7, <2>1, <2>3
<1> QED
  BY <1>8, <1>9, <1>10, <1>11, <1>12, <1>13

\* A task keeps the invariant.
LEMMA TaskStepInv ==
  ASSUME IInv, BInv, NEW t \in Task, (\E e \in Reading : SubmitStep(t, e)) \/ CreateStep(t)
  PROVE  BInv'
<1>1. \A x \in Task : x # t => held'[x] = held[x]
  BY Elsewhere
<1>2. ASSUME NEW e \in Reading, SubmitStep(t, e)
      PROVE  BInv'
  BY <1>1, <1>2, OutsideStepInv, ReserveInv, CapacityStepInv, RequestStepInv
     DEF SubmitStep
<1>3. CASE CreateStep(t)
  <2>1. 0 \in Reading
    BY LimitAssumption DEF Reading
  <2> QED
    BY <1>1, <1>3, <2>1, OutsideStepInv, RequestStepInv DEF CreateStep
<1> QED
  BY <1>2, <1>3
---------------------------------------------------------------------------
(***************************************************************************)
(* The other steps keep the invariant                                      *)
(***************************************************************************)

\* A step that gives one pollable turn new rows.
LEMMA PolledTurn ==
  ASSUME BInv, UNCHANGED <<wk, held, resp, sent>>,
         rc' \in [Reconciler -> Claims \cup {NoClaim}],
         NEW s \in Submission, sub[s].state \in Pollable,
         NEW u \in SubmissionRow, sub' = [sub EXCEPT ![s] = u],
         \/ UNCHANGED res
         \/ SetReservation(s, "committed") /\ u.state \notin Pollable
  PROVE  BInv'
<1>1. /\ sub'[s] = u
      /\ \A q \in Submission : q # s => sub'[q] = sub[q]
      /\ sub' \in [Submission -> SubmissionRow]
  BY DEF BInv, Typed
<1>2. TurnInv(res[s], sub[s], sent[s])
  BY DEF BInv
<1>3. /\ res' \in [Submission -> Reservation]
      /\ \A q \in Submission : q # s => res'[q] = res[q]
      /\ res'[s].run = res[s].run
      /\ \/ res'[s].state = "committed" /\ u.state \notin Pollable
         \/ res'[s] = res[s]
  <2>1. CASE UNCHANGED res
    BY <2>1 DEF BInv, Typed
  <2>2. CASE SetReservation(s, "committed") /\ u.state \notin Pollable
    <3>1. PICK v \in Reservation : /\ v.state = "committed" /\ v.run = res[s].run
                                   /\ res' = [res EXCEPT ![s] = v]
                                   /\ res' \in [Submission -> Reservation]
      BY <2>2, SetReservationTyped
    <3>2. res'[s] = v /\ \A q \in Submission : q # s => res'[q] = res[q]
      BY <3>1 DEF BInv, Typed
    <3> QED
      BY <2>2, <3>1, <3>2
  <2> QED
    BY <2>1, <2>2
<1>4. Typed'
  BY <1>1, <1>3 DEF BInv, Typed
<1>5. res'[s].state # "none" /\ TurnInv(res'[s], sub'[s], sent[s])
  BY <1>1, <1>2, <1>3 DEF TurnInv
<1> QED
  BY <1>1, <1>3, <1>4, <1>5, ServiceTurns

\* Turns that are closed for an operator.
LEMMA CloseRecoveryInv ==
  ASSUME BInv, NEW B \in SUBSET Submission, NEW q, CloseRecovery(B, q),
         \A s \in B : sub[s].state \in Pollable,
         UNCHANGED <<wk, res, resp, sent>>,
         rc' \in [Reconciler -> Claims \cup {NoClaim}]
  PROVE  BInv'
<1>1. UNCHANGED held
  BY DEF CloseRecovery, CloseBackgroundRecovery
<1>2. sub' = [s \in Submission |->
        IF s \in B THEN EndedRow(sub[s], "recovery_required") ELSE sub[s]]
  BY DEF CloseRecovery
<1>3. \A s \in Submission : sub[s] \in SubmissionRow
  BY DEF BInv, Typed
<1>4. "recovery_required" \in SubmissionStates
  BY DEF SubmissionStates
<1>5. \A s \in Submission :
        /\ EndedRow(sub[s], "recovery_required") \in SubmissionRow
        /\ EndedRow(sub[s], "recovery_required").state = "recovery_required"
  BY <1>3, <1>4, EndedTyped
<1>6. sub' \in [Submission -> SubmissionRow]
  BY <1>2, <1>3, <1>5
<1>7. Typed'
  BY <1>6 DEF BInv, Typed
<1>8. ASSUME NEW s \in Submission
      PROVE  \/ res'[s] = res[s] /\ sub'[s].state = sub[s].state
             \/ /\ sub[s].state \in Pollable
                /\ res'[s].state # "none"
                /\ TurnInv(res'[s], sub'[s], sent[s])
  <2>1. CASE s \notin B
    BY <1>2, <2>1
  <2>2. CASE s \in B
    <3>1. sub'[s].state = "recovery_required" /\ sub[s].state \in Pollable
      BY <1>2, <1>5, <2>2
    <3>2. TurnInv(res[s], sub[s], sent[s])
      BY DEF BInv
    <3> QED
      BY <3>1, <3>2 DEF TurnInv, Pollable
  <2> QED
    BY <2>1, <2>2
<1> QED
  BY <1>1, <1>7, <1>8, ServiceTurns

\* A claim that is dropped or kept.
LEMMA ForgetsTyped ==
  ASSUME BInv, NEW p \in Reconciler, ForgetsClaim(p)
  PROVE  rc' \in [Reconciler -> Claims \cup {NoClaim}]
BY DEF ForgetsClaim, BInv, Typed

\* The write of a claimed row.
LEMMA WriteClaimInv ==
  ASSUME BInv, NEW p \in Reconciler, NEW s \in Submission, sub[s].state \in Pollable,
         NEW row \in SubmissionRow, WriteClaim(p, s, row),
         UNCHANGED <<wk, held, res, resp, sent>>
  PROVE  BInv'
<1> DEFINE new == [row EXCEPT !.version = @ + 1]
<1>1. new \in SubmissionRow /\ ClaimOf(s, new) \in Claims
  BY BumpedTyped
<1>2. sub' = [sub EXCEPT ![s] = new]
  BY DEF WriteClaim
<1>3. rc' = [rc EXCEPT ![p] = ClaimOf(s, new)] \/ UNCHANGED rc
  BY DEF WriteClaim
<1> HIDE DEF new
<1>4. rc' \in [Reconciler -> Claims \cup {NoClaim}]
  BY <1>1, <1>3 DEF BInv, Typed
<1> QED
  BY <1>1, <1>2, <1>4, PolledTurn

\* A release of a claim, or the end of its turn.
LEMMA HandBackInv ==
  ASSUME BInv, NEW p \in Reconciler, NEW e \in Reading, Current(p, e),
         NEW delay \in Int, HandBack(p, e, delay)
  PROVE  BInv'
<1> DEFINE s == rc[p].sub
<1>1. s \in Submission /\ sub[s].state \in Pollable
  BY ClaimedTurn DEF Pollable
<1>2. /\ UNCHANGED <<wk, res, resp, sent>>
      /\ rc' \in [Reconciler -> Claims \cup {NoClaim}]
  BY ForgetsTyped DEF HandBack
<1>3. CASE CloseRecovery({s}, rcpt)
  <2> HIDE DEF s
  <2> QED
    BY <1>1, <1>2, <1>3, CloseRecoveryInv
<1>4. CASE /\ sub' = [sub EXCEPT ![s] = ReleasedRow(sub[s], delay + e)]
           /\ UNCHANGED <<run, held, outcomes, rcpt>>
  <2>1. sub[s] \in SubmissionRow /\ delay + e \in Int
    BY <1>1 DEF BInv, Typed, Reading
  <2>2. ReleasedRow(sub[s], delay + e) \in SubmissionRow
    BY <2>1, ReleasedTyped
  <2> HIDE DEF s
  <2> QED
    BY <1>1, <1>2, <1>4, <2>2, PolledTurn
<1> QED
  BY <1>3, <1>4 DEF HandBack

\* The terminal commit.
LEMMA CommitTerminalInv ==
  ASSUME BInv, NEW p \in Reconciler, NEW e \in Reading, CommitTerminal(p, e)
  PROVE  BInv'
<1> DEFINE s == rc[p].sub
           final == FinalOf(rc[p].obs)
<1>1. s \in Submission /\ sub[s].state \in Pollable /\ sub[s] \in SubmissionRow
  BY ClaimedTurn DEF CommitTerminal, Pollable, BInv, Typed
<1>2. /\ UNCHANGED <<wk, resp, sent>>
      /\ rc' \in [Reconciler -> Claims \cup {NoClaim}]
  BY ForgetsTyped DEF CommitTerminal
<1>3. final \in Answered
  BY BackgroundAssumption DEF CommitTerminal, FinalOf, Answered, ProviderStatuses
<1>4. final \in SubmissionStates /\ final \notin Pollable
  BY <1>3 DEF SubmissionStates, Answered, Pollable
<1>5. CASE CommitAnswer(s, rc[p].obs, Match(rcpt[s]))
  <2>1. /\ SetReservation(s, "committed") /\ UNCHANGED held
        /\ sub' = [sub EXCEPT ![s] = EndedRow(sub[s], final)]
    BY <1>5 DEF CommitAnswer, CommitBackgroundTerminal
  <2> HIDE DEF s, final
  <2>2. /\ EndedRow(sub[s], final) \in SubmissionRow
        /\ EndedRow(sub[s], final).state \notin Pollable
    BY <1>1, <1>4, EndedTyped
  <2> QED
    BY <1>1, <1>2, <2>1, <2>2, PolledTurn
<1>6. CASE CloseRecovery({s}, [rcpt EXCEPT ![s] = Match(rcpt[s])]) /\ UNCHANGED <<res, posted>>
  <2> HIDE DEF s
  <2> QED
    BY <1>1, <1>2, <1>6, CloseRecoveryInv
<1> QED
  BY <1>5, <1>6 DEF CommitTerminal

\* A reconciler keeps the invariant.
LEMMA ReconcileStepInv ==
  ASSUME BInv, NEW p \in Reconciler, NEW e \in Reading, ReconcileStep(p, e)
  PROVE  BInv'
<1> DEFINE s == rc[p].sub
<1>1. CASE ClaimSubmission(p, e)
  <2>1. PICK q \in Candidates(e) :
          WriteClaim(p, q, ClaimedSubmission(sub[q], Expiry(sub[q], e)))
    BY <1>1 DEF ClaimSubmission
  <2>2. q \in Submission /\ sub[q].state \in Pollable /\ sub[q] \in SubmissionRow
    BY DEF Candidates, BInv, Typed
  <2>3. ClaimedSubmission(sub[q], Expiry(sub[q], e)) \in SubmissionRow
    BY <2>2, ExpiryTyped, ClaimedTyped
  <2>4. UNCHANGED <<wk, held, res, resp, sent>>
    BY <1>1 DEF ClaimSubmission
  <2> QED
    BY <2>1, <2>2, <2>3, <2>4, WriteClaimInv
<1>2. CASE HeartbeatClaim(p, e) \/ BindRetrieval(p, e)
  <2>1. s \in Submission /\ sub[s].state \in Pollable /\ sub[s] \in SubmissionRow
    BY <1>2, ClaimedTurn DEF HeartbeatClaim, BindRetrieval, Pollable, BInv, Typed
  <2>2. Expiry(sub[s], e) \in Deadline
    BY <2>1, ExpiryTyped
  <2>3. /\ [sub[s] EXCEPT !.next = Expiry(sub[s], e)] \in SubmissionRow
        /\ [sub[s] EXCEPT !.marker = TRUE] \in SubmissionRow
    BY <2>1, <2>2 DEF SubmissionRow
  <2>4. \/ WriteClaim(p, s, [sub[s] EXCEPT !.next = Expiry(sub[s], e)])
        \/ WriteClaim(p, s, [sub[s] EXCEPT !.marker = TRUE])
    BY <1>2 DEF HeartbeatClaim, BindRetrieval
  <2>5. UNCHANGED <<wk, held, res, resp, sent>>
    BY <1>2 DEF HeartbeatClaim, BindRetrieval
  <2> HIDE DEF s
  <2> QED
    BY <2>1, <2>3, <2>4, <2>5, WriteClaimInv
<1>3. CASE \E delay \in 1..MaxDelay : ReleaseBeforeRetrieval(p, e, delay)
  BY <1>3, HandBackInv DEF ReleaseBeforeRetrieval
<1>4. CASE ReleaseNonterminal(p, e)
  <2>1. RetryDelay(rc[p].retry) \in Int
    BY <1>4, ClaimedTurn DEF ReleaseNonterminal, RetryDelay, Claims
  <2> QED
    BY <1>4, <2>1, HandBackInv DEF ReleaseNonterminal
<1>5. CASE RejectRetrieval(p, e)
  <2>1. /\ s \in Submission /\ sub[s].state \in Pollable /\ CloseRecovery({s}, rcpt)
        /\ UNCHANGED <<wk, res, resp, sent>>
        /\ rc' \in [Reconciler -> Claims \cup {NoClaim}]
    BY <1>5, ClaimedTurn, ForgetsTyped DEF RejectRetrieval, Pollable
  <2> HIDE DEF s
  <2> QED
    BY <2>1, CloseRecoveryInv
<1>6. CASE CommitTerminal(p, e)
  BY <1>6, CommitTerminalInv
<1> QED
  BY <1>1, <1>2, <1>3, <1>4, <1>5, <1>6 DEF ReconcileStep

\* Steps that leave tasks, reservations, requests and the states of submissions
\* alone.
LEMMA QuietStepInv ==
  ASSUME BInv, Typed', UNCHANGED <<wk, held, res, sent>>,
         \A s \in Submission : sub'[s].state = sub[s].state
  PROVE  BInv'
BY ServiceTurns

LEMMA StepBInv == IInv /\ BInv /\ [BNext]_bvars => BInv'
<1> SUFFICES ASSUME IInv, BInv, [BNext]_bvars PROVE BInv'
  OBVIOUS
<1>1. CASE \/ \E t \in Task, e \in Reading : SubmitStep(t, e)
           \/ \E t \in Task : CreateStep(t)
  BY <1>1, TaskStepInv
<1>2. CASE \E p \in Reconciler, e \in Reading : ReconcileStep(p, e)
  BY <1>2, ReconcileStepInv
<1>3. CASE \E p \in Reconciler : Retrieve(p) \/ CommitAgain(p) \/ DropClaim(p)
  <2>1. PICK p \in Reconciler : Retrieve(p) \/ CommitAgain(p) \/ DropClaim(p)
    BY <1>3
  <2>2. UNCHANGED <<wk, held, res, sub, resp, sent>>
    BY <2>1 DEF Retrieve, CommitAgain, DropClaim
  <2>3. rc' \in [Reconciler -> Claims \cup {NoClaim}]
    <3>1. CASE Retrieve(p)
      <4>1. rc[p] \in Claims /\ rc[p].sub \in Submission
        BY <3>1 DEF Retrieve, BInv, Typed, Claims
      <4>2. PICK obs \in Observations(rc[p].sub) : rc' = [rc EXCEPT ![p].obs = obs]
        BY <3>1 DEF Retrieve
      <4>3. resp[rc[p].sub] \in {"none", "open"} \cup Status
        BY <4>1 DEF BInv, Typed
      <4>4. obs \in {"none", "pending", "retryable", "rejected"} \cup Status
        BY <4>3 DEF Observations
      <4>5. [rc[p] EXCEPT !.obs = obs] \in Claims
        BY <4>1, <4>4 DEF Claims
      <4>6. rc' = [rc EXCEPT ![p] = [rc[p] EXCEPT !.obs = obs]]
        BY <4>2
      <4> QED
        BY <4>5, <4>6 DEF BInv, Typed
    <3>2. CASE CommitAgain(p) \/ DropClaim(p)
      BY <3>2 DEF CommitAgain, DropClaim, BInv, Typed
    <3> QED
      BY <2>1, <3>1, <3>2
  <2>4. Typed'
    BY <2>2, <2>3 DEF BInv, Typed
  <2> QED
    BY <2>2, <2>4, QuietStepInv
<1>4. CASE \E s \in Submission : ProviderStep(s)
  <2>1. UNCHANGED <<wk, held, res, sub, rc, sent>>
    BY <1>4 DEF ProviderStep, Respond, RecordReceipt
  <2>2. resp' \in [Submission -> {"none", "open"} \cup Status]
    BY <1>4 DEF ProviderStep, Respond, RecordReceipt, BInv, Typed
  <2>3. Typed'
    BY <2>1, <2>2 DEF BInv, Typed
  <2> QED
    BY <2>1, <2>3, QuietStepInv
<1>5. CASE \/ \E r \in Run : ToggleSession(r)
           \/ \E e \in Reading : RecoverLeases(e)
           \/ UNCHANGED bvars
  <2>1. UNCHANGED <<wk, held, res, sub, resp, rc, sent>>
    BY <1>5 DEF ToggleSession, RecoverLeases, RecoverExpiredLeases, others, bvars
  <2>2. Typed'
    BY <2>1 DEF BInv, Typed
  <2> QED
    BY <2>1, <2>2, QuietStepInv
<1>6. CASE \E e \in Reading : CloseExpired(e)
  <2>1. PICK e \in Reading : \E B \in Batches(e) : CloseRecovery(B, rcpt)
    BY <1>6 DEF CloseExpired
  <2>2. PICK B \in Batches(e) : CloseRecovery(B, rcpt)
    BY <2>1
  <2>3. B \in SUBSET Submission /\ \A s \in B : sub[s].state \in Pollable
    BY DEF Batches, Overdue
  <2>4. /\ UNCHANGED <<wk, res, resp, sent>>
        /\ rc' \in [Reconciler -> Claims \cup {NoClaim}]
    BY <1>6 DEF CloseExpired, BInv, Typed
  <2> QED
    BY <2>2, <2>3, <2>4, CloseRecoveryInv
<1>7. CASE Elapse
  <2>1. UNCHANGED <<wk, held, res, resp, rc, sent>>
    BY <1>7 DEF Elapse, Tick
  <2>2. sub' = [s \in Submission |-> [sub[s] EXCEPT !.next = Later(@), !.dl = Later(@)]]
    BY <1>7 DEF Elapse
  <2>3. \A s \in Submission : sub[s] \in SubmissionRow
    BY DEF BInv, Typed
  <2>4. \A s \in Submission : sub'[s] \in SubmissionRow /\ sub'[s].state = sub[s].state
    BY <2>2, <2>3, ElapsedTyped
  <2>5. sub' \in [Submission -> SubmissionRow]
    BY <2>2, <2>4
  <2>6. Typed'
    BY <2>1, <2>5 DEF BInv, Typed
  <2> QED
    BY <2>1, <2>4, <2>6, QuietStepInv
<1> QED
  BY <1>1, <1>2, <1>3, <1>4, <1>5, <1>6, <1>7 DEF BNext
---------------------------------------------------------------------------
(***************************************************************************)
(* Turns are settled as Settlement says                                    *)
(***************************************************************************)

\* What the mapping makes of each kind of change.
LEMMA SameCost == ASSUME UNCHANGED res PROVE UNCHANGED TurnCost
BY DEF TurnCost

LEMMA SameSent == ASSUME UNCHANGED sent PROVE UNCHANGED TurnSent
BY DEF TurnSent

LEMMA CostChange ==
  ASSUME BInv, NEW s \in Submission, NEW v, res' = [res EXCEPT ![s] = v]
  PROVE  TurnCost' = [TurnCost EXCEPT ![s] = CostOf(v.state)]
BY DEF TurnCost, BInv, Typed

LEMMA AnswerChange ==
  ASSUME BInv, NEW s \in Submission, NEW u, sub' = [sub EXCEPT ![s] = u]
  PROVE  TurnAnswer' = [TurnAnswer EXCEPT ![s] = AnswerOf(u.state)]
BY DEF TurnAnswer, BInv, Typed

LEMMA SameAnswer ==
  ASSUME \A s \in Submission : AnswerOf(sub'[s].state) = AnswerOf(sub[s].state)
  PROVE  UNCHANGED TurnAnswer
BY DEF TurnAnswer

\* Only an ended submission has an answer.
LEMMA NoAnswerYet ==
  ASSUME NEW state \in {"none", "prepared", "waiting_provider", "reconciling"}
  PROVE  AnswerOf(state) = "none"
BY DEF AnswerOf

LEMMA QuietTurn ==
  ASSUME BInv, UNCHANGED <<res, sent>>, NEW s \in Submission, NEW u,
         sub' = [sub EXCEPT ![s] = u],
         AnswerOf(u.state) = AnswerOf(sub[s].state)
  PROVE  UNCHANGED S!svars
<1>1. \A q \in Submission : AnswerOf(sub'[q].state) = AnswerOf(sub[q].state)
  BY DEF BInv, Typed
<1> QED
  BY <1>1, SameCost, SameSent, SameAnswer DEF S!svars

LEMMA QuietTurns ==
  ASSUME UNCHANGED <<res, sub, sent>>
  PROVE  UNCHANGED S!svars
BY SameCost, SameSent, SameAnswer DEF S!svars

\* Turns without an answer that end in recovery_required.
LEMMA DoubtStep ==
  ASSUME BInv, UNCHANGED <<res, sent>>, NEW B \in SUBSET Submission,
         \A s \in B : sub[s].state \in Pollable \cup {"prepared"},
         \A s \in B : sub'[s].state = "recovery_required",
         \A s \in Submission \ B : sub'[s] = sub[s]
  PROVE  S!SNext
<1>1. \A s \in B : TurnAnswer[s] = "none"
  BY NoAnswerYet DEF TurnAnswer, Pollable
<1>2. AnswerOf("recovery_required") = "doubtful"
  BY DEF AnswerOf
<1>3. TurnAnswer' = [s \in Submission |-> IF s \in B THEN "doubtful" ELSE TurnAnswer[s]]
  BY <1>2 DEF TurnAnswer
<1>4. S!Doubt(B)
  BY <1>1, <1>3, SameCost, SameSent DEF S!Doubt
<1> QED
  BY <1>4 DEF S!SNext

LEMMA CloseRecoverySettles ==
  ASSUME BInv, UNCHANGED <<res, sent>>, NEW B \in SUBSET Submission, NEW q,
         CloseRecovery(B, q), \A s \in B : sub[s].state \in Pollable
  PROVE  S!SNext
<1>1. sub' = [s \in Submission |->
        IF s \in B THEN EndedRow(sub[s], "recovery_required") ELSE sub[s]]
  BY DEF CloseRecovery
<1>2. "recovery_required" \in SubmissionStates
  BY DEF SubmissionStates
<1>3. \A s \in B : sub'[s].state = "recovery_required"
  BY <1>1, <1>2, EndedTyped DEF BInv, Typed
<1> QED
  BY <1>1, <1>3, DoubtStep

\* A change of one reservation: booked, freed or held.
LEMMA CapacitySettles ==
  ASSUME BInv, NEW s \in Submission, UNCHANGED <<sub, sent>>, NEW v,
         res' = [res EXCEPT ![s] = v],
         \/ res[s].state = "none" /\ v.state = "reserved"
         \/ res[s].state = "reserved" /\ v.state = "released"
         \/ res[s].state = "reserved" /\ v.state = "uncertain"
  PROVE  S!SNext
<1>1. /\ CostOf("none") = "none" /\ CostOf("reserved") = "booked"
      /\ CostOf("released") = "freed" /\ CostOf("uncertain") = "held"
  BY DEF CostOf
<1>2. TurnCost[s] = CostOf(res[s].state)
  BY DEF TurnCost
<1>3. TurnCost' = [TurnCost EXCEPT ![s] = CostOf(v.state)]
  BY CostChange
<1>4. UNCHANGED <<TurnSent, TurnAnswer>>
  BY SameSent, SameAnswer
<1>5. S!Book(s) \/ S!Free(s) \/ S!Hold(s)
  BY <1>1, <1>2, <1>3, <1>4 DEF S!Book, S!Free, S!Hold, S!Becomes
<1> QED
  BY <1>5 DEF S!SNext

\* What a task does to a turn.
LEMMA TaskStepSettles ==
  ASSUME BInv, NEW t \in Task, (\E e \in Reading : SubmitStep(t, e)) \/ CreateStep(t)
  PROVE  S!SNext \/ UNCHANGED S!svars
<1> DEFINE s == SubOf(t)
<1>1. ASSUME wk[t].pc \in Handling
      PROVE  /\ s \in Submission
             /\ res[s] \in Reservation /\ sub[s] \in SubmissionRow /\ sent[s] \in Nat
             /\ Knows(wk[t].pc, res[s], sub[s], sent[s])
  BY <1>1, Mine
<1>2. CASE \/ \E e \in Reading : \/ \E w \in WorkerId : Claim(t, w, e)
                                 \/ StartRun(t, e) \/ GiveUpRun(t, e)
                                 \/ SubmitHeartbeat(t, e)
           \/ Drop(t) \/ Acknowledged(t) \/ SubmitFails(t)
  <2>1. UNCHANGED <<res, sub, sent>>
    BY <1>2 DEF Claim, StartRun, GiveUpRun, SubmitHeartbeat, Drop, Acknowledged,
                SubmitFails
  <2> QED
    BY <2>1, QuietTurns
<1>3. ASSUME NEW e \in Reading, NEW q \in Submission, Reserve(t, e, q)
      PROVE  S!SNext
  <2> DEFINE v == [state |-> "reserved", run |-> held[t].run, gen |-> held[t].gen]
  <2>1. /\ res[q].state = "none" /\ v.state = "reserved" /\ UNCHANGED <<sub, sent>>
        /\ res' = [res EXCEPT ![q] = v]
    BY <1>3 DEF Reserve, NoReservation
  <2> HIDE DEF v
  <2> QED
    BY <2>1, CapacitySettles
<1>4. ASSUME wk[t].pc \in Handling, UNCHANGED <<sub, sent>>,
             NEW state \in {"released", "uncertain"},
             \/ res[s].state = "reserved" /\ SetReservation(s, state)
             \/ UNCHANGED res
      PROVE  S!SNext \/ UNCHANGED S!svars
  <2>1. s \in Submission
    BY <1>1, <1>4
  <2>2. CASE res[s].state = "reserved" /\ SetReservation(s, state)
    <3>1. PICK v \in Reservation : v.state = state /\ res' = [res EXCEPT ![s] = v]
      BY <2>1, <2>2, SetReservationTyped
    <3> QED
      BY <1>4, <2>1, <2>2, <3>1, CapacitySettles
  <2>3. CASE UNCHANGED res
    BY <1>4, <2>3, QuietTurns
  <2> QED
    BY <1>4, <2>2, <2>3
<1>5. ASSUME NEW e \in Reading,
             Refuse(t, e) \/ ReleaseUnmarked(t, e) \/ MarkUncertain(t, e)
      PROVE  S!SNext \/ UNCHANGED S!svars
  <2>1. wk[t].pc \in Handling /\ UNCHANGED <<sub, sent>>
    BY <1>5 DEF Refuse, ReleaseUnmarked, MarkUncertain, At, Handling
  <2>2. \/ res[s].state = "reserved" /\ SetReservation(s, "released")
        \/ res[s].state = "reserved" /\ SetReservation(s, "uncertain")
        \/ UNCHANGED res
    BY <1>5 DEF Refuse, ReleaseUnmarked, MarkUncertain, ReleaseUnstarted
  <2> HIDE DEF s
  <2> QED
    BY <1>4, <2>1, <2>2
<1>6. ASSUME NEW e \in Reading, Prepare(t, e)
      PROVE  UNCHANGED S!svars
  <2> DEFINE u == [sub[s] EXCEPT !.state = "prepared"]
  <2>1. wk[t].pc = "reserved" /\ wk[t].pc \in Handling
    BY <1>6 DEF Prepare, At, Handling
  <2>2. s \in Submission /\ sub[s] \in SubmissionRow /\ sub[s].state = "none"
    BY <1>1, <2>1 DEF Knows
  <2>3. u.state = "prepared"
    BY <2>2 DEF SubmissionRow
  <2>4. sub' = [sub EXCEPT ![s] = u] /\ UNCHANGED <<res, sent>>
    BY <1>6 DEF Prepare
  <2> HIDE DEF u, s
  <2>5. AnswerOf(u.state) = AnswerOf(sub[s].state)
    BY <2>2, <2>3, NoAnswerYet
  <2> QED
    BY <2>2, <2>4, <2>5, QuietTurn
<1>7. ASSUME NEW e \in Reading, NEW window \in 1..ResponseWindow, Accept(t, e, window)
      PROVE  UNCHANGED S!svars
  <2> DEFINE u == AcceptedRow(sub[s], e, window)
  <2>1. wk[t].pc \in Handling
    BY <1>7 DEF Accept, At, Handling
  <2>2. s \in Submission /\ sub[s] \in SubmissionRow
    BY <1>1, <2>1
  <2>3. u.state = "waiting_provider"
    BY <2>2, AcceptedTyped DEF Reading
  <2>4. /\ sub' = [sub EXCEPT ![s] = u] /\ UNCHANGED <<res, sent>>
        /\ sub[s].state = "prepared"
    BY <1>7 DEF Accept
  <2> HIDE DEF u, s
  <2>5. AnswerOf(u.state) = AnswerOf(sub[s].state)
    BY <2>3, <2>4, NoAnswerYet
  <2> QED
    BY <2>2, <2>4, <2>5, QuietTurn
<1>8. ASSUME NEW e \in Reading, CloseAmbiguity(t, e)
      PROVE  S!SNext
  <2>1. wk[t].pc \in Handling
    BY <1>8 DEF CloseAmbiguity, At, Handling
  <2>2. s \in Submission /\ sub[s] \in SubmissionRow
    BY <1>1, <2>1
  <2>3. /\ sub' = [sub EXCEPT ![s] = EndedRow(sub[s], "recovery_required")]
        /\ UNCHANGED <<res, sent>> /\ sub[s].state = "prepared"
    BY <1>8 DEF CloseAmbiguity
  <2> HIDE DEF s
  <2>4. EndedRow(sub[s], "recovery_required").state = "recovery_required"
    BY <2>2, EndedTyped DEF SubmissionStates
  <2>5. /\ sub'[s].state = "recovery_required"
        /\ \A q \in Submission \ {s} : sub'[q] = sub[q]
    BY <2>2, <2>3, <2>4 DEF BInv, Typed
  <2> DEFINE B == {s}
  <2>6. /\ B \in SUBSET Submission
        /\ \A q \in B : sub[q].state \in Pollable \cup {"prepared"}
        /\ \A q \in B : sub'[q].state = "recovery_required"
        /\ \A q \in Submission \ B : sub'[q] = sub[q]
    BY <2>2, <2>3, <2>5
  <2> HIDE DEF B
  <2> QED
    BY <2>3, <2>6, DoubtStep
<1>9. CASE SendCreate(t)
  <2>1. wk[t].pc = "send" /\ wk[t].pc \in Handling
    BY <1>9 DEF SendCreate, At, Handling
  <2>2. s \in Submission /\ res[s].state = "uncertain" /\ sent[s] = 0
    BY <1>1, <2>1 DEF Knows
  <2>3. sent' = [sent EXCEPT ![s] = sent[s] + 1] /\ UNCHANGED <<res, sub>>
    BY <1>9 DEF SendCreate
  <2> HIDE DEF s
  <2>4. TurnCost[s] = "held"
    <3>1. CostOf("uncertain") = "held"
      BY DEF CostOf
    <3> QED
      BY <2>2, <3>1 DEF TurnCost
  <2>5. /\ ~(sent[s] > 0) /\ sent'[s] > 0
        /\ \A q \in Submission \ {s} : sent'[q] = sent[q]
    BY <2>2, <2>3 DEF BInv, Typed
  <2>6. ~TurnSent[s]
    BY <2>2, <2>5, Zenon DEF TurnSent
  <2>7. \A q \in Submission : (sent'[q] > 0) = (IF q = s THEN TRUE ELSE TurnSent[q])
    BY <2>2, <2>5, Zenon DEF TurnSent
  <2>8. TurnSent' = [TurnSent EXCEPT ![s] = TRUE]
    BY <2>7, Zenon DEF TurnSent
  <2>9. S!Send(s)
    BY <2>3, <2>4, <2>6, <2>8, SameCost, SameAnswer DEF S!Send
  <2> QED
    BY <2>2, <2>9 DEF S!SNext
<1> QED
  BY <1>2, <1>3, <1>5, <1>6, <1>7, <1>8, <1>9 DEF SubmitStep, CreateStep

\* The write of a claim or a heartbeat, and a release of a claim.
LEMMA PolledSettles ==
  ASSUME BInv, UNCHANGED <<res, sent>>, NEW s \in Submission,
         sub[s].state \in Pollable, NEW u, u.state \in Pollable,
         sub' = [sub EXCEPT ![s] = u]
  PROVE  UNCHANGED S!svars
<1>1. AnswerOf(u.state) = AnswerOf(sub[s].state)
  BY NoAnswerYet DEF Pollable
<1> QED
  BY <1>1, QuietTurn

LEMMA HandBackSettles ==
  ASSUME BInv, NEW p \in Reconciler, NEW e \in Reading, Current(p, e),
         NEW delay \in Int, HandBack(p, e, delay)
  PROVE  S!SNext \/ UNCHANGED S!svars
<1> DEFINE s == rc[p].sub
<1>1. /\ s \in Submission /\ sub[s].state \in Pollable /\ sub[s] \in SubmissionRow
      /\ UNCHANGED <<res, sent>>
  BY ClaimedTurn DEF Pollable, HandBack, BInv, Typed
<1>2. CASE CloseRecovery({s}, rcpt)
  <2> HIDE DEF s
  <2> QED
    BY <1>1, <1>2, CloseRecoverySettles
<1>3. CASE sub' = [sub EXCEPT ![s] = ReleasedRow(sub[s], delay + e)]
  <2>1. delay + e \in Int
    BY DEF Reading
  <2>2. ReleasedRow(sub[s], delay + e).state = "waiting_provider"
    BY <1>1, <2>1, ReleasedTyped
  <2>3. ReleasedRow(sub[s], delay + e).state \in Pollable
    BY <2>2 DEF Pollable
  <2> HIDE DEF s
  <2> QED
    BY <1>1, <1>3, <2>3, PolledSettles
<1> QED
  BY <1>2, <1>3 DEF HandBack

\* The answer and its cost are recorded in one step.
LEMMA CommitTerminalSettles ==
  ASSUME BInv, NEW p \in Reconciler, NEW e \in Reading, CommitTerminal(p, e)
  PROVE  S!SNext
<1> DEFINE s == rc[p].sub
           final == FinalOf(rc[p].obs)
<1>1. s \in Submission /\ sub[s].state \in Pollable /\ sub[s] \in SubmissionRow
  BY ClaimedTurn DEF CommitTerminal, Pollable, BInv, Typed
<1>2. UNCHANGED sent
  BY DEF CommitTerminal
<1>3. final \in Answered
  BY BackgroundAssumption DEF CommitTerminal, FinalOf, Answered, ProviderStatuses
<1>4. CASE CommitAnswer(s, rc[p].obs, Match(rcpt[s]))
  <2>1. /\ SetReservation(s, "committed")
        /\ sub' = [sub EXCEPT ![s] = EndedRow(sub[s], final)]
    BY <1>4 DEF CommitAnswer
  <2> HIDE DEF s, final
  <2>2. EndedRow(sub[s], final).state = final
    BY <1>1, <1>3, EndedTyped DEF SubmissionStates
  <2>3. PICK v \in Reservation : v.state = "committed" /\ res' = [res EXCEPT ![s] = v]
    BY <1>1, <2>1, SetReservationTyped
  <2>4. res[s].state = "uncertain" /\ sent[s] > 0
    BY <1>1 DEF BInv, TurnInv
  <2>5. CostOf("uncertain") = "held" /\ CostOf("committed") = "spent"
    BY DEF CostOf
  <2>6. TurnCost[s] = "held" /\ TurnCost' = [TurnCost EXCEPT ![s] = "spent"]
    BY <1>1, <2>3, <2>4, <2>5, CostChange DEF TurnCost
  <2>7. AnswerOf(final) \in {"answered", "refused"}
    BY <1>3 DEF AnswerOf, Answered
  <2>8. TurnAnswer' = [TurnAnswer EXCEPT ![s] = AnswerOf(final)]
    BY <1>1, <2>1, <2>2, AnswerChange
  <2>9. TurnAnswer[s] = "none"
    BY <1>1, NoAnswerYet DEF TurnAnswer, Pollable
  <2>10. TurnSent[s]
    BY <1>1, <2>4, Zenon DEF TurnSent
  <2>11. S!Settle(s)
    BY <1>2, <2>6, <2>7, <2>8, <2>9, <2>10, SameSent DEF S!Settle, S!Becomes
  <2> QED
    BY <1>1, <2>11 DEF S!SNext
<1>5. CASE /\ CloseRecovery({s}, [rcpt EXCEPT ![s] = Match(rcpt[s])])
           /\ UNCHANGED <<res, posted>>
  <2> HIDE DEF s
  <2> QED
    BY <1>1, <1>2, <1>5, CloseRecoverySettles
<1> QED
  BY <1>4, <1>5 DEF CommitTerminal

\* What a reconciler does to a turn.
LEMMA ReconcileStepSettles ==
  ASSUME BInv, NEW p \in Reconciler, NEW e \in Reading, ReconcileStep(p, e)
  PROVE  S!SNext \/ UNCHANGED S!svars
<1> DEFINE s == rc[p].sub
<1>1. ASSUME NEW q \in Submission, sub[q].state \in Pollable,
             NEW row \in SubmissionRow, row.state \in Pollable, WriteClaim(p, q, row),
             UNCHANGED <<res, sent>>
      PROVE  UNCHANGED S!svars
  <2> DEFINE new == [row EXCEPT !.version = @ + 1]
  <2>1. new.state = row.state
    BY DEF SubmissionRow
  <2>2. sub' = [sub EXCEPT ![q] = new]
    BY <1>1 DEF WriteClaim
  <2> HIDE DEF new
  <2> QED
    BY <1>1, <2>1, <2>2, PolledSettles
<1>2. CASE ClaimSubmission(p, e)
  <2>1. PICK q \in Candidates(e) :
          WriteClaim(p, q, ClaimedSubmission(sub[q], Expiry(sub[q], e)))
    BY <1>2 DEF ClaimSubmission
  <2>2. q \in Submission /\ sub[q].state \in Pollable /\ sub[q] \in SubmissionRow
    BY DEF Candidates, BInv, Typed
  <2> DEFINE row == ClaimedSubmission(sub[q], Expiry(sub[q], e))
  <2>3. row \in SubmissionRow /\ row.state = "reconciling"
    BY <2>2, ExpiryTyped, ClaimedTyped
  <2>4. UNCHANGED <<res, sent>>
    BY <1>2 DEF ClaimSubmission
  <2> HIDE DEF row
  <2>5. row.state \in Pollable
    BY <2>3 DEF Pollable
  <2>6. WriteClaim(p, q, row)
    BY <2>1 DEF row
  <2> QED
    BY <1>1, <2>2, <2>3, <2>4, <2>5, <2>6
<1>3. CASE HeartbeatClaim(p, e) \/ BindRetrieval(p, e)
  <2>1. s \in Submission /\ sub[s].state \in Pollable /\ sub[s] \in SubmissionRow
    BY <1>3, ClaimedTurn DEF HeartbeatClaim, BindRetrieval, Pollable, BInv, Typed
  <2>2. Expiry(sub[s], e) \in Deadline
    BY <2>1, ExpiryTyped
  <2> DEFINE later == [sub[s] EXCEPT !.next = Expiry(sub[s], e)]
             bound == [sub[s] EXCEPT !.marker = TRUE]
  <2>3. /\ later \in SubmissionRow /\ later.state = sub[s].state
        /\ bound \in SubmissionRow /\ bound.state = sub[s].state
    BY <2>1, <2>2 DEF SubmissionRow
  <2>4. WriteClaim(p, s, later) \/ WriteClaim(p, s, bound)
    BY <1>3 DEF HeartbeatClaim, BindRetrieval
  <2>5. UNCHANGED <<res, sent>>
    BY <1>3 DEF HeartbeatClaim, BindRetrieval
  <2> HIDE DEF s, later, bound
  <2> QED
    BY <1>1, <2>1, <2>3, <2>4, <2>5
<1>4. CASE \E delay \in 1..MaxDelay : ReleaseBeforeRetrieval(p, e, delay)
  BY <1>4, HandBackSettles DEF ReleaseBeforeRetrieval
<1>5. CASE ReleaseNonterminal(p, e)
  <2>1. RetryDelay(rc[p].retry) \in Int
    BY <1>5, ClaimedTurn DEF ReleaseNonterminal, RetryDelay, Claims
  <2> QED
    BY <1>5, <2>1, HandBackSettles DEF ReleaseNonterminal
<1>6. CASE RejectRetrieval(p, e)
  <2>1. /\ s \in Submission /\ sub[s].state \in Pollable /\ CloseRecovery({s}, rcpt)
        /\ UNCHANGED <<res, sent>>
    BY <1>6, ClaimedTurn DEF RejectRetrieval, Pollable
  <2> HIDE DEF s
  <2> QED
    BY <2>1, CloseRecoverySettles
<1>7. CASE CommitTerminal(p, e)
  BY <1>7, CommitTerminalSettles
<1> QED
  BY <1>2, <1>3, <1>4, <1>5, <1>6, <1>7 DEF ReconcileStep

LEMMA StepSettles == BInv /\ [BNext]_bvars => [S!SNext]_(S!svars)
<1> SUFFICES ASSUME BInv, [BNext]_bvars PROVE S!SNext \/ UNCHANGED S!svars
  OBVIOUS
<1>1. CASE \/ \E t \in Task, e \in Reading : SubmitStep(t, e)
           \/ \E t \in Task : CreateStep(t)
  BY <1>1, TaskStepSettles
<1>2. CASE \E p \in Reconciler, e \in Reading : ReconcileStep(p, e)
  BY <1>2, ReconcileStepSettles
<1>3. CASE \/ \E p \in Reconciler : Retrieve(p) \/ CommitAgain(p) \/ DropClaim(p)
           \/ \E s \in Submission : ProviderStep(s)
           \/ \E r \in Run : ToggleSession(r)
           \/ \E e \in Reading : RecoverLeases(e)
           \/ UNCHANGED bvars
  <2>1. UNCHANGED <<res, sub, sent>>
    BY <1>3 DEF Retrieve, CommitAgain, DropClaim, ProviderStep, Respond, RecordReceipt,
                ToggleSession, RecoverLeases, others, bvars
  <2> QED
    BY <2>1, QuietTurns
<1>4. CASE \E e \in Reading : CloseExpired(e)
  <2>1. PICK e \in Reading : \E B \in Batches(e) : CloseRecovery(B, rcpt)
    BY <1>4 DEF CloseExpired
  <2>2. PICK B \in Batches(e) : CloseRecovery(B, rcpt)
    BY <2>1
  <2>3. B \in SUBSET Submission /\ \A s \in B : sub[s].state \in Pollable
    BY DEF Batches, Overdue
  <2>4. UNCHANGED <<res, sent>>
    BY <1>4 DEF CloseExpired
  <2> QED
    BY <2>2, <2>3, <2>4, CloseRecoverySettles
<1>5. CASE Elapse
  <2>1. UNCHANGED <<res, sent>>
    BY <1>5 DEF Elapse
  <2>2. sub' = [s \in Submission |-> [sub[s] EXCEPT !.next = Later(@), !.dl = Later(@)]]
    BY <1>5 DEF Elapse
  <2>3. \A s \in Submission : sub[s] \in SubmissionRow
    BY DEF BInv, Typed
  <2>4. \A s \in Submission : sub'[s].state = sub[s].state
    BY <2>2, <2>3, ElapsedTyped
  <2> QED
    BY <2>1, <2>4, SameCost, SameSent, SameAnswer DEF S!svars
<1> QED
  BY <1>1, <1>2, <1>3, <1>4, <1>5 DEF BNext
---------------------------------------------------------------------------
(***************************************************************************)
(* Theorems                                                                *)
(***************************************************************************)

LEMMA InitBInv == BInit => BInv
<1> SUFFICES ASSUME BInit PROVE BInv
  OBVIOUS
<1>1. Typed
  <2>1. Idle \in TaskState
    BY DEF Idle, TaskState, PC
  <2>2. NoReservation \in Reservation
    BY DEF NoReservation, Reservation
  <2>3. NoSubmission \in SubmissionRow
    BY DEF NoSubmission, SubmissionRow, SubmissionStates, Deadline
  <2> QED
    BY <2>1, <2>2, <2>3 DEF BInit, Typed
<1>2. \A s \in Submission : TurnInv(res[s], sub[s], sent[s])
  BY DEF BInit, NoReservation, NoSubmission, TurnInv, Pollable
<1>3. \A t \in Task : wk[t].pc = "idle"
  BY DEF BInit, Idle
<1> QED
  BY <1>1, <1>2, <1>3 DEF BInv, Handling

LEMMA InitSettles == BInit => S!SInit
<1> SUFFICES ASSUME BInit PROVE S!SInit
  OBVIOUS
<1>1. CostOf("none") = "none" /\ AnswerOf("none") = "none"
  BY DEF CostOf, AnswerOf
<1>2. TurnCost = [s \in Submission |-> "none"]
  BY <1>1 DEF BInit, TurnCost, NoReservation
<1>3. TurnAnswer = [s \in Submission |-> "none"]
  BY <1>1 DEF BInit, TurnAnswer, NoSubmission
<1>4. \A s \in Submission : (sent[s] > 0) = FALSE
  BY DEF BInit
<1>5. TurnSent = [s \in Submission |-> FALSE]
  BY <1>4, Zenon DEF TurnSent
<1> QED
  BY <1>2, <1>3, <1>5 DEF S!SInit

LEMMA BackgroundInvariance == BSpec => [](IInv /\ BInv)
<1>1. BInit => IInv /\ BInv
  BY InitInv, InitBInv DEF BInit
<1>2. IInv /\ BInv /\ [BNext]_bvars => (IInv /\ BInv)'
  BY StepRefines, NextInv, StepBInv
<1> QED
  BY <1>1, <1>2, PTL DEF BSpec

\* Every behaviour of the background services is a behaviour of the run table:
\* parking, answering and closing runs respect the fence of orm_execution.rs,
\* so what is proved of RunLease holds with background turns going on.
THEOREM BackgroundImplementsRunLease == BSpec => Spec
<1>1. BInit => Init
  BY DEF BInit
<1>2. BInv /\ [BNext]_bvars => [Next]_vars
  BY StepRefines
<1> QED
  BY <1>1, <1>2, BackgroundInvariance, PTL DEF BSpec, Spec

\* Capacity for which a create request was sent is never released, whatever
\* submit, the reconcilers and close_expired do after it.
THEOREM SentStaysHeld == BSpec => []SentCapacityIsHeld
<1>1. BInv => SentCapacityIsHeld
  BY DEF BInv, TurnInv, SentCapacityIsHeld
<1> QED
  BY <1>1, BackgroundInvariance, PTL

\* The background services implement Settlement: a turn is sent at most once
\* and only with its capacity held, its answer and its usage are recorded in
\* one step, and a turn given up keeps its capacity.
THEOREM TurnsAreSettled == BSpec => Settles
<1>1. BInit => S!SInit
  BY InitSettles
<1>2. BInv /\ [BNext]_bvars => [S!SNext]_(S!svars)
  BY StepSettles
<1> QED
  BY <1>1, <1>2, BackgroundInvariance, PTL DEF BSpec, Settles, S!SSpec
---------------------------------------------------------------------------
(***************************************************************************)
(* The rows of a turn fit together                                         *)
(*                                                                         *)
(* RowsFit relates a submission with the row of its run, and says that a   *)
(* run has at most one.  TurnGood relates the rows of one turn with what   *)
(* was sent, answered, posted and received for it.  LeaseFits says what    *)
(* the current copy of a lease guarantees to a task in submit, ClaimGood   *)
(* what the current copy of a claim guarantees to a reconciler.            *)
(***************************************************************************)

\* Background turns link a checkpoint only with the answer.
Plain(row) ==
  row.ckpt = IF row.state = "completed" THEN [gen |-> row.gen, kind |-> FinalKind]
                                        ELSE None

\* The row of the run while the turn with rows v and u is its turn.
Linked(v, u, row) ==
  u.state # "none" =>
    /\ row.gen = v.gen
    /\ u.state = "prepared" => row.state \in {"running"} \cup SettledStates
    /\ u.state \in Pollable => row.state = "waiting_provider" /\ row.wait = None
    /\ u.state \notin Pollable \cup {"prepared"} => row.state = u.state
    /\ u.state \in Answered => row.attempt = v.gen

Unsubmitted(r) == \A s \in Submission : sub[s].state # "none" => RunOf(s) # r

RowsFit ==
  /\ \A r \in Run : Plain(run[r])
  /\ \A s \in Submission : Linked(res[s], sub[s], run[RunOf(s)])
  /\ \A s, q \in Submission :
       sub[s].state # "none" /\ sub[q].state # "none" /\ RunOf(s) = RunOf(q) => s = q
  /\ \A r \in Run : run[r].state = "waiting_provider" =>
       \E s \in Submission : sub[s].state \in Pollable /\ RunOf(s) = r

\* A task whose copy is current has not submitted for its run before prepare.
Fits(w, l) ==
  /\ w.pc \in Handling => res[w.sub].run = l.run /\ res[w.sub].gen = l.gen
  /\ w.pc \in {"leased", "ready", "reserved"} /\ Matches(l) => Unsubmitted(l.run)

Dated(u) ==
  /\ u.state \in {"none", "prepared"} => u.rgen = 0 /\ u.retry = 0 /\ ~u.marker
  /\ u.state \in Pollable =>
       /\ ValidSubmission(u) /\ u.next \in Int /\ u.dl \in Int /\ u.next <= u.dl
       /\ u.state = "reconciling" => u.retry < u.rgen
  /\ u.state \in Answered => u.next = None /\ u.marker

\* x is the response, n how often the turn was sent, m the messages posted.
Charged(v, u, n, x, m) ==
  /\ m = IF u.state = "completed" THEN 1 ELSE 0
  /\ v.state = "committed" <=> u.state \in Answered
  /\ n <= 1
  /\ n > 0 => u.state # "none"
  /\ n = 0 => x = "none"
  /\ u.state \in Answered => x \in Status /\ u.state = FinalOf(x)

ReceiptGood(q, u, x) ==
  /\ \A i \in DOMAIN q :
       /\ q[i].state \in {"processed", "duplicate"} => u.state \in Answered /\ q[i].kind = x
       /\ q[i].state = "matched" => u.state \in Pollable
  /\ \A i, j \in DOMAIN q :
       q[i].state \in {"matched", "processed"} /\ q[j].state \in {"matched", "processed"}
         => i = j

TurnGood(s) ==
  /\ Dated(sub[s])
  /\ Charged(res[s], sub[s], sent[s], resp[s], posted[s])
  /\ ReceiptGood(rcpt[s], sub[s], resp[s])

\* u is the row of the claimed submission, x its response.
ClaimGood(c, u, x) ==
  /\ c.version <= u.version
  /\ c.version = u.version /\ u.state = "reconciling" =>
       c.marker = u.marker /\ c.retry = u.retry
  /\ c.obs # "none" => c.marker
  /\ c.obs \in Status => x = c.obs

ClaimsFit ==
  /\ \A p \in Reconciler : rc[p] # NoClaim => ClaimGood(rc[p], sub[rc[p].sub], resp[rc[p].sub])
  /\ \A p, q \in Reconciler :
       /\ rc[p] # NoClaim /\ rc[q] # NoClaim
       /\ rc[p].sub = rc[q].sub /\ rc[p].version = rc[q].version
       => p = q

Receipts == Seq([kind : Status, state : ReceiptStates])

WInv ==
  /\ active \in [Run -> BOOLEAN]
  /\ rcpt \in [Submission -> Receipts]
  /\ posted \in [Submission -> Nat]
  /\ RowsFit
  /\ \A t \in Task : Fits(wk[t], held[t])
  /\ \A s \in Submission : TurnGood(s)
  /\ ClaimsFit
---------------------------------------------------------------------------
(***************************************************************************)
(* The rows of one turn                                                    *)
(***************************************************************************)

USE RunAssumption, LimitAssumption, NoneAssumption
USE DEF Pollable, Answered

\* What each write makes of the dates of a submission row.
LEMMA AcceptedDated ==
  ASSUME NEW row \in SubmissionRow, Dated(row), row.state = "prepared",
         NEW e \in Int, NEW window \in Nat
  PROVE  /\ Dated(AcceptedRow(row, e, window))
         /\ AcceptedRow(row, e, window).version = row.version + 1
<1> DEFINE new == AcceptedRow(row, e, window)
<1>1. /\ new.state = "waiting_provider" /\ new.next = e /\ new.dl = window + e
      /\ new.rgen = row.rgen /\ new.retry = row.retry /\ new.marker = row.marker
      /\ new.version = row.version + 1 /\ row.version \in Nat
  BY DEF AcceptedRow, SubmissionRow
<1>2. new.rgen = 0 /\ new.retry = 0 /\ ~new.marker
  BY <1>1 DEF Dated
<1> HIDE DEF new
<1>9. Dated(new)
  BY <1>1, <1>2 DEF Dated, ValidSubmission
<1> QED
  BY <1>1, <1>9 DEF new

LEMMA EndedDated ==
  ASSUME NEW row \in SubmissionRow, Dated(row), NEW state \in SubmissionStates,
         state \in Answered => row.marker,
         state \in Answered \cup {"recovery_required"}
  PROVE  /\ Dated(EndedRow(row, state))
         /\ EndedRow(row, state).version = row.version + 1
<1> DEFINE new == EndedRow(row, state)
<1>1. /\ new.state = state /\ new.next = None /\ new.marker = row.marker
      /\ new.version = row.version + 1
  BY DEF EndedRow, SubmissionRow
<1> HIDE DEF new
<1>9. Dated(new)
  BY <1>1 DEF Dated
<1> QED
  BY <1>1, <1>9 DEF new

LEMMA ReleasedDated ==
  ASSUME NEW row \in SubmissionRow, Dated(row), row.state = "reconciling",
         NEW next \in Int, next <= row.dl, row.retry + 1 <= MaxRetries
  PROVE  /\ Dated(ReleasedRow(row, next))
         /\ ReleasedRow(row, next).version = row.version + 1
<1> DEFINE new == ReleasedRow(row, next)
<1>1. /\ new.state = "waiting_provider" /\ new.next = next /\ new.dl = row.dl
      /\ new.rgen = row.rgen /\ new.retry = row.retry + 1 /\ new.marker = FALSE
      /\ new.version = row.version + 1
      /\ row.version \in Nat /\ row.rgen \in Nat /\ row.retry \in Nat
  BY DEF ReleasedRow, SubmissionRow
<1>2. row.retry < row.rgen /\ row.dl \in Int
  BY DEF Dated
<1> HIDE DEF new
<1>9. Dated(new)
  BY <1>1, <1>2 DEF Dated, ValidSubmission
<1> QED
  BY <1>1, <1>9 DEF new

\* A claimed, renewed or bound row, with its next version.
LEMMA ClaimedDated ==
  ASSUME NEW row \in SubmissionRow, Dated(row), row.state \in Pollable, NEW e \in Reading
  PROVE  Dated(Bumped(ClaimedSubmission(row, Expiry(row, e))))
<1> DEFINE new == Bumped(ClaimedSubmission(row, Expiry(row, e)))
<1>1. Expiry(row, e) \in Int /\ Expiry(row, e) <= row.dl /\ row.dl \in Int
  BY DEF Expiry, Dated, Reading
<1>2. /\ new.state = "reconciling" /\ new.next = Expiry(row, e) /\ new.dl = row.dl
      /\ new.rgen = row.rgen + 1 /\ new.retry = row.retry
      /\ new.version = row.version + 1
      /\ row.version \in Nat /\ row.rgen \in Nat /\ row.retry \in Nat
  BY DEF Bumped, ClaimedSubmission, SubmissionRow
<1>3. row.retry <= row.rgen /\ row.retry <= MaxRetries
  BY DEF Dated, ValidSubmission
<1> HIDE DEF new
<1>9. Dated(new)
  BY <1>1, <1>2, <1>3 DEF Dated, ValidSubmission
<1> QED
  BY <1>1, <1>9 DEF new

LEMMA RenewedDated ==
  ASSUME NEW row \in SubmissionRow, Dated(row), row.state = "reconciling", NEW e \in Reading
  PROVE  /\ Dated(Bumped([row EXCEPT !.next = Expiry(row, e)]))
         /\ Dated(Bumped([row EXCEPT !.marker = TRUE]))
<1> DEFINE late == Bumped([row EXCEPT !.next = Expiry(row, e)])
           bound == Bumped([row EXCEPT !.marker = TRUE])
<1>1. Expiry(row, e) \in Int /\ Expiry(row, e) <= row.dl /\ row.dl \in Int
  BY DEF Expiry, Dated, Reading
<1>2. /\ late.state = "reconciling" /\ late.next = Expiry(row, e) /\ late.dl = row.dl
      /\ late.rgen = row.rgen /\ late.retry = row.retry
      /\ late.version = row.version + 1
      /\ bound.state = "reconciling" /\ bound.next = row.next /\ bound.dl = row.dl
      /\ bound.rgen = row.rgen /\ bound.retry = row.retry
      /\ bound.version = row.version + 1
      /\ row.version \in Nat /\ row.rgen \in Nat /\ row.retry \in Nat
  BY DEF Bumped, SubmissionRow
<1>3. /\ row.retry <= row.rgen /\ row.retry <= MaxRetries /\ row.rgen > 0
      /\ row.retry < row.rgen /\ row.next \in Int /\ row.next <= row.dl
  BY DEF Dated, ValidSubmission
<1> HIDE DEF late, bound
<1>9. Dated(late) /\ Dated(bound)
  BY <1>1, <1>2, <1>3 DEF Dated, ValidSubmission
<1> QED
  BY <1>1, <1>9 DEF late, bound

LEMMA ElapsedDated ==
  ASSUME NEW row \in SubmissionRow, Dated(row)
  PROVE  /\ Dated([row EXCEPT !.next = Later(@), !.dl = Later(@)])
         /\ [row EXCEPT !.next = Later(@), !.dl = Later(@)].version = row.version
<1> DEFINE new == [row EXCEPT !.next = Later(@), !.dl = Later(@)]
<1>1. /\ new.state = row.state /\ new.next = Later(row.next) /\ new.dl = Later(row.dl)
      /\ new.rgen = row.rgen /\ new.retry = row.retry /\ new.marker = row.marker
      /\ new.version = row.version
  BY DEF SubmissionRow
<1>2. ASSUME NEW x \in Int, NEW y \in Int, x <= y
      PROVE  Later(x) \in Int /\ Later(y) \in Int /\ Later(x) <= Later(y)
  BY <1>2 DEF Later
<1>3. Later(None) = None
  BY DEF Later
<1> HIDE DEF new
<1>4. row.state \in Pollable =>
        new.next \in Int /\ new.dl \in Int /\ new.next <= new.dl
  BY <1>1, <1>2 DEF Dated
<1>9. Dated(new)
  BY <1>1, <1>3, <1>4 DEF Dated, ValidSubmission
<1> QED
  BY <1>1, <1>9 DEF new

\* A nonempty set of naturals has a least member.
Smaller == {p \in Nat \X Nat : p[1] < p[2]}

LEMMA LeastNumber ==
  ASSUME NEW Q, Q \subseteq Nat, Q # {}
  PROVE  Min(Q) \in Q
<1>1. IsWellFoundedOn(Smaller, Nat)
  BY NatLessThanWellFounded, Zenon DEF OpToRel, Smaller
<1>2. PICK n \in Q : \A m \in Q : <<m, n>> \notin Smaller
  BY WFMin, <1>1
<1>3. \A m \in Q : m \in Nat /\ n \in Nat /\ ~(m < n)
  BY <1>2 DEF Smaller
<1>4. \A m \in Q : n <= m
  BY <1>3
<1> QED
  BY <1>4 DEF Min

LEMMA ReceiptTyped ==
  ASSUME NEW q \in Receipts, NEW i \in DOMAIN q
  PROVE  q[i] \in [kind : Status, state : ReceiptStates]
<1>1. q \in UNION {[1..n -> [kind : Status, state : ReceiptStates]] : n \in Nat}
  BY SeqDef DEF Receipts
<1>2. PICK n \in Nat : q \in [1..n -> [kind : Status, state : ReceiptStates]]
  BY <1>1
<1> QED
  BY <1>2

\* Receipts of a turn without an answer.
Unsettled(q) ==
  /\ \A i \in DOMAIN q : q[i].state \notin {"processed", "duplicate"}
  /\ \A i, j \in DOMAIN q : q[i].state = "matched" /\ q[j].state = "matched" => i = j

LEMMA MatchedReceipts ==
  ASSUME NEW q \in Receipts, Unsettled(q)
  PROVE  Match(q) \in Receipts /\ Unsettled(Match(q))
<1>1. CASE Match(q) = q
  BY <1>1
<1>2. CASE /\ In(q, "matched") = {} /\ In(q, "pending") # {}
           /\ Match(q) = [q EXCEPT ![Min(In(q, "pending"))].state = "matched"]
  <2> DEFINE m == Min(In(q, "pending"))
             new == [q EXCEPT ![m].state = "matched"]
  <2>1. In(q, "pending") \subseteq Nat
    BY DEF In, Receipts
  <2>2. m \in In(q, "pending")
    BY <1>2, <2>1, LeastNumber
  <2>3. m \in DOMAIN q
    BY <2>2 DEF In
  <2> HIDE DEF m
  <2>4. q[m] \in [kind : Status, state : ReceiptStates]
    BY <2>3, ReceiptTyped
  <2>5. /\ [q[m] EXCEPT !.state = "matched"] \in [kind : Status, state : ReceiptStates]
        /\ [q[m] EXCEPT !.state = "matched"].state = "matched"
    BY <2>4 DEF ReceiptStates
  <2>6. /\ new \in Receipts /\ DOMAIN new = DOMAIN q
        /\ new[m].state = "matched"
        /\ \A i \in DOMAIN q : i # m => new[i] = q[i]
    <3>1. new = [q EXCEPT ![m] = [q[m] EXCEPT !.state = "matched"]]
      OBVIOUS
    <3> QED
      BY SMTT(30), <2>3, <2>5, <3>1 DEF Receipts
  <2>7. \A i \in DOMAIN q : q[i].state # "matched"
    BY <1>2 DEF In
  <2> HIDE DEF new
  <2>8. Unsettled(new)
    BY <2>6, <2>7 DEF Unsettled
  <2> QED
    BY <1>2, <2>6, <2>8 DEF m, new
<1> QED
  BY <1>1, <1>2 DEF Match

\* Closing leaves nothing matched.
LEMMA ClosedReceipts ==
  ASSUME NEW q \in Receipts, Unsettled(q), NEW u, NEW x
  PROVE  CloseReceipts(q) \in Receipts /\ ReceiptGood(CloseReceipts(q), u, x)
<1> DEFINE new == CloseReceipts(q)
<1>1. \A i \in DOMAIN q : q[i] \in [kind : Status, state : ReceiptStates]
  BY ReceiptTyped
<1>2. /\ DOMAIN new = DOMAIN q
      /\ \A i \in DOMAIN q :
           new[i] = [q[i] EXCEPT !.state = IF @ = "matched" THEN "recovery" ELSE @]
  BY DEF CloseReceipts
<1>3. \A i \in DOMAIN q :
        /\ new[i] \in [kind : Status, state : ReceiptStates]
        /\ new[i].state \notin {"processed", "duplicate", "matched"}
  <2> SUFFICES ASSUME NEW i \in DOMAIN q
               PROVE  /\ new[i] \in [kind : Status, state : ReceiptStates]
                      /\ new[i].state \notin {"processed", "duplicate", "matched"}
    OBVIOUS
  <2>1. q[i].state \notin {"processed", "duplicate"}
    BY DEF Unsettled
  <2> HIDE DEF new
  <2> QED
    BY <1>1, <1>2, <2>1 DEF ReceiptStates
<1>4. new \in Receipts
  <2>1. PICK n \in Nat : DOMAIN q = 1..n
    BY DEF Receipts
  <2>2. new = [i \in 1..n |-> new[i]]
    BY <2>1 DEF CloseReceipts
  <2> HIDE DEF new
  <2>3. new \in [1..n -> [kind : Status, state : ReceiptStates]]
    BY <1>3, <2>1, <2>2
  <2> QED
    BY ZenonT(90), <2>3, SeqDef DEF Receipts
<1> HIDE DEF new
<1> QED
  BY <1>2, <1>3, <1>4 DEF ReceiptGood, new

\* The answer processes the matched receipt, which agrees with it.
LEMMA SettledReceipts ==
  ASSUME NEW q \in Receipts, Unsettled(q), NEW x \in Status, ~Conflicts(q, x),
         NEW u, u.state \in Answered
  PROVE  SettleReceipts(q, x) \in Receipts /\ ReceiptGood(SettleReceipts(q, x), u, x)
<1> DEFINE new == SettleReceipts(q, x)
<1>1. \A i \in DOMAIN q : q[i] \in [kind : Status, state : ReceiptStates]
  BY ReceiptTyped
<1>2. /\ DOMAIN new = DOMAIN q
      /\ \A i \in DOMAIN q :
           new[i] = [q[i] EXCEPT !.state =
                       CASE @ = "matched" -> "processed"
                         [] @ = "pending" -> IF q[i].kind = x THEN "duplicate" ELSE "recovery"
                         [] OTHER -> @]
  BY DEF SettleReceipts
<1>3. \A i \in DOMAIN q :
        /\ new[i] \in [kind : Status, state : ReceiptStates]
        /\ new[i].kind = q[i].kind
        /\ new[i].state # "matched"
        /\ new[i].state = "processed" => q[i].state = "matched"
        /\ new[i].state \in {"processed", "duplicate"} => q[i].kind = x
  <2> SUFFICES ASSUME NEW i \in DOMAIN q
               PROVE  /\ new[i] \in [kind : Status, state : ReceiptStates]
                      /\ new[i].kind = q[i].kind
                      /\ new[i].state # "matched"
                      /\ new[i].state = "processed" => q[i].state = "matched"
                      /\ new[i].state \in {"processed", "duplicate"} => q[i].kind = x
    OBVIOUS
  <2>1. q[i].state \notin {"processed", "duplicate"}
    BY DEF Unsettled
  <2>2. q[i].state = "matched" => q[i].kind = x
    BY DEF Conflicts, In
  <2> HIDE DEF new
  <2>3. /\ new[i].kind = q[i].kind
        /\ new[i].state = CASE q[i].state = "matched" -> "processed"
                            [] q[i].state = "pending" ->
                                 IF q[i].kind = x THEN "duplicate" ELSE "recovery"
                            [] OTHER -> q[i].state
        /\ new[i] \in [kind : Status, state : {new[i].state}]
    BY <1>1, <1>2
  <2>4. q[i].state \in {"pending", "matched", "recovery"}
    BY <1>1, <2>1 DEF ReceiptStates
  <2> QED
    BY <2>2, <2>3, <2>4 DEF ReceiptStates
<1>4. new \in Receipts
  <2>1. PICK n \in Nat : DOMAIN q = 1..n
    BY DEF Receipts
  <2>2. new = [i \in 1..n |-> new[i]]
    BY <2>1 DEF SettleReceipts
  <2> HIDE DEF new
  <2>3. new \in [1..n -> [kind : Status, state : ReceiptStates]]
    BY <1>3, <2>1, <2>2
  <2>4. new \in UNION {[1..m -> [kind : Status, state : ReceiptStates]] : m \in Nat}
    BY <2>1, <2>3
  <2> QED
    BY <2>4, SeqDef DEF Receipts
<1> HIDE DEF new
<1>5. \A i, j \in DOMAIN q : new[i].state = "processed" /\ new[j].state = "processed" => i = j
  BY <1>3 DEF Unsettled
<1> QED
  BY <1>2, <1>3, <1>4, <1>5 DEF ReceiptGood, new
---------------------------------------------------------------------------
(***************************************************************************)
(* What a step does to a turn                                              *)
(***************************************************************************)

\* The row moves on under every claim whose copy it no longer shows, and what
\* the provider answered stands.
Outdates(s) ==
  /\ \/ sub'[s].version > sub[s].version
     \/ /\ sub'[s].version = sub[s].version
        /\ sub'[s].state = "reconciling" =>
             /\ sub[s].state = "reconciling"
             /\ sub'[s].marker = sub[s].marker /\ sub'[s].retry = sub[s].retry
  /\ resp[s] \in Status => resp'[s] = resp[s]

\* Past its deadline a turn can only be closed.
Refused(s) ==
  /\ sub[s].state \in Pollable
  /\ sub[s].dl <= -ClockError
  /\ sub'[s].version # sub[s].version
  => sub'[s].state = "recovery_required"

TurnKept(s) == TurnGood(s)' /\ Outdates(s) /\ Refused(s)

\* A turn that the step leaves alone, but perhaps for capacity not yet spent.
Alone(s) ==
  /\ sub'[s] = sub[s] /\ resp'[s] = resp[s] /\ rcpt'[s] = rcpt[s]
  /\ sent'[s] = sent[s] /\ posted'[s] = posted[s]
  /\ res'[s].state = "committed" <=> res[s].state = "committed"

LEMMA AloneKept ==
  ASSUME WInv, NEW s \in Submission, Alone(s)
  PROVE  TurnKept(s)
<1>1. TurnGood(s)
  BY DEF WInv
<1>2. TurnGood(s)'
  <2>1. Dated(sub[s])'
    BY <1>1 DEF TurnGood, Alone
  <2>2. Charged(res[s], sub[s], sent[s], resp[s], posted[s])'
    BY <1>1 DEF TurnGood, Alone, Charged
  <2>3. ReceiptGood(rcpt[s], sub[s], resp[s])'
    BY <1>1 DEF TurnGood, Alone
  <2> QED
    BY <2>1, <2>2, <2>3 DEF TurnGood
<1> QED
  BY <1>2 DEF Alone, TurnKept, Outdates, Refused

\* A step that gives one turn new rows.
LEMMA ChangedTurn ==
  ASSUME BInv, WInv, NEW s \in Submission,
         NEW v, NEW u, NEW n, NEW x, NEW q, NEW m,
         res' = [res EXCEPT ![s] = v], sub' = [sub EXCEPT ![s] = u],
         sent' = [sent EXCEPT ![s] = n], resp' = [resp EXCEPT ![s] = x],
         rcpt' = [rcpt EXCEPT ![s] = q], posted' = [posted EXCEPT ![s] = m],
         Dated(u), Charged(v, u, n, x, m), ReceiptGood(q, u, x),
         \/ u.version > sub[s].version
         \/ u.version = sub[s].version /\ u.state # "reconciling",
         resp[s] \in Status => x = resp[s],
         /\ sub[s].state \in Pollable /\ sub[s].dl <= -ClockError
         => u.state = "recovery_required"
  PROVE  \A z \in Submission : TurnKept(z)
<1>1. /\ res'[s] = v /\ sub'[s] = u /\ sent'[s] = n /\ resp'[s] = x
      /\ rcpt'[s] = q /\ posted'[s] = m
  BY DEF BInv, Typed, WInv
<1>2. \A z \in Submission : z # s => Alone(z)
  BY DEF BInv, Typed, WInv, Alone
<1>3. TurnGood(s)'
  BY <1>1 DEF TurnGood
<1>4. TurnKept(s)
  BY <1>1, <1>3 DEF TurnKept, Outdates, Refused
<1> QED
  BY <1>2, <1>4, AloneKept

\* Rows that a step leaves alone, written as an update of one of them.
LEMMA SameTurn ==
  ASSUME BInv, WInv, NEW s \in Submission
  PROVE  /\ res = [res EXCEPT ![s] = res[s]] /\ sub = [sub EXCEPT ![s] = sub[s]]
         /\ sent = [sent EXCEPT ![s] = sent[s]] /\ resp = [resp EXCEPT ![s] = resp[s]]
         /\ rcpt = [rcpt EXCEPT ![s] = rcpt[s]]
         /\ posted = [posted EXCEPT ![s] = posted[s]]
BY DEF BInv, Typed, WInv

\* What is known of the rows of one turn.
LEMMA TurnFacts ==
  ASSUME BInv, WInv, NEW s \in Submission
  PROVE  /\ res[s] \in Reservation /\ sub[s] \in SubmissionRow
         /\ sent[s] \in Nat /\ rcpt[s] \in Receipts /\ posted[s] \in Nat
         /\ resp[s] \in {"none", "open"} \cup Status
         /\ Dated(sub[s])
         /\ Charged(res[s], sub[s], sent[s], resp[s], posted[s])
         /\ ReceiptGood(rcpt[s], sub[s], resp[s])
         /\ TurnInv(res[s], sub[s], sent[s])
BY DEF BInv, Typed, WInv, TurnGood

\* No receipt is settled, and at most one matched, before the answer.
LEMMA OpenReceipts ==
  ASSUME NEW q, NEW u, NEW x, ReceiptGood(q, u, x), u.state \notin Answered
  PROVE  Unsettled(q)
BY DEF ReceiptGood, Unsettled

\* The steps of submit that write no submission and send nothing.
LEMMA CapacityKeepsTurns ==
  ASSUME BInv, WInv, NEW t \in Task, NEW e \in Reading,
         \/ \E w \in WorkerId : Claim(t, w, e)
         \/ StartRun(t, e) \/ GiveUpRun(t, e)
         \/ \E s \in Submission : Reserve(t, e, s)
         \/ Refuse(t, e) \/ MarkUncertain(t, e) \/ ReleaseUnmarked(t, e)
         \/ SubmitHeartbeat(t, e) \/ Acknowledged(t) \/ SubmitFails(t) \/ Drop(t)
  PROVE  \A s \in Submission : TurnKept(s)
<1>1. UNCHANGED <<sub, resp, rcpt, sent, posted>>
  BY DEF Claim, StartRun, GiveUpRun, Reserve, Refuse, MarkUncertain, ReleaseUnmarked,
         SubmitHeartbeat, Acknowledged, SubmitFails, Drop
<1>2. \/ UNCHANGED res
      \/ \E s \in Submission : \E v :
           /\ res' = [res EXCEPT ![s] = v]
           /\ res[s].state # "committed" /\ v.state # "committed"
  <2>1. CASE \E s \in Submission : Reserve(t, e, s)
    <3>1. PICK s \in Submission : Reserve(t, e, s)
      BY <2>1
    <3> DEFINE v == [state |-> "reserved", run |-> held[t].run, gen |-> held[t].gen]
    <3>2. res' = [res EXCEPT ![s] = v] /\ res[s].state = "none" /\ v.state = "reserved"
      BY <3>1 DEF Reserve, NoReservation
    <3> HIDE DEF v
    <3> QED
      BY <3>2
  <2>2. CASE Refuse(t, e) \/ MarkUncertain(t, e) \/ ReleaseUnmarked(t, e)
    <3> DEFINE s == SubOf(t)
    <3>1. s \in Submission
      <4>1. wk[t].pc \in Handling
        BY <2>2 DEF Refuse, MarkUncertain, ReleaseUnmarked, At, Handling
      <4> QED
        BY <4>1, Mine
    <3>2. CASE UNCHANGED res
      BY <3>2
    <3>3. CASE /\ res[s].state = "reserved"
               /\ SetReservation(s, "released") \/ SetReservation(s, "uncertain")
      <4> HIDE DEF s
      <4>1. PICK v \in Reservation : /\ v.state \in {"released", "uncertain"}
                                     /\ res' = [res EXCEPT ![s] = v]
        BY <3>1, <3>3, SetReservationTyped
      <4> QED
        BY <3>1, <3>3, <4>1
    <3> QED
      BY <2>2, <3>2, <3>3 DEF Refuse, MarkUncertain, ReleaseUnmarked, ReleaseUnstarted
  <2> QED
    BY <2>1, <2>2 DEF Claim, StartRun, GiveUpRun, SubmitHeartbeat, Acknowledged,
       SubmitFails, Drop
<1>3. \A s \in Submission : Alone(s)
  BY <1>1, <1>2 DEF Alone, BInv, Typed
<1> QED
  BY <1>3, AloneKept

\* The steps of submit that write the submission, and the request.
LEMMA RequestKeepsTurns ==
  ASSUME BInv, WInv, NEW t \in Task, NEW e \in Reading,
         \/ Prepare(t, e) \/ CloseAmbiguity(t, e) \/ SendCreate(t)
         \/ \E window \in 1..ResponseWindow : Accept(t, e, window)
  PROVE  \A s \in Submission : TurnKept(s)
<1> DEFINE s == SubOf(t)
<1>1. wk[t].pc \in Handling
  BY DEF Prepare, CloseAmbiguity, SendCreate, Accept, At, Handling
<1>2. s \in Submission /\ Knows(wk[t].pc, res[s], sub[s], sent[s])
  BY <1>1, Mine
<1>3. /\ sub[s] \in SubmissionRow /\ sent[s] \in Nat
      /\ Dated(sub[s])
      /\ Charged(res[s], sub[s], sent[s], resp[s], posted[s])
      /\ ReceiptGood(rcpt[s], sub[s], resp[s])
  BY <1>2, TurnFacts
<1>4. /\ res = [res EXCEPT ![s] = res[s]] /\ sub = [sub EXCEPT ![s] = sub[s]]
      /\ sent = [sent EXCEPT ![s] = sent[s]] /\ resp = [resp EXCEPT ![s] = resp[s]]
      /\ rcpt = [rcpt EXCEPT ![s] = rcpt[s]]
      /\ posted = [posted EXCEPT ![s] = posted[s]]
  BY <1>2, SameTurn
<1>5. UNCHANGED <<res, rcpt, posted>>
  BY DEF Prepare, CloseAmbiguity, SendCreate, Accept
<1>6. CASE Prepare(t, e)
  <2> DEFINE u == [sub[s] EXCEPT !.state = "prepared"]
  <2>1. sub' = [sub EXCEPT ![s] = u] /\ UNCHANGED <<sent, resp>>
    BY <1>6 DEF Prepare
  <2>2. sub[s].state = "none"
    BY <1>2, <1>6 DEF Prepare, At, Knows
  <2>3. /\ u.state = "prepared" /\ u.version = sub[s].version
        /\ u.rgen = sub[s].rgen /\ u.retry = sub[s].retry /\ u.marker = sub[s].marker
    BY <1>3 DEF SubmissionRow
  <2> HIDE DEF u, s
  <2>4. Dated(u)
    BY <1>3, <2>2, <2>3 DEF Dated
  <2>5. Charged(res[s], u, sent[s], resp[s], posted[s])
    BY <1>3, <2>2, <2>3 DEF Charged
  <2>6. ReceiptGood(rcpt[s], u, resp[s])
    BY <1>3, <2>2, <2>3 DEF ReceiptGood
  <2>9. /\ res' = [res EXCEPT ![s] = res[s]] /\ sub' = [sub EXCEPT ![s] = u]
        /\ sent' = [sent EXCEPT ![s] = sent[s]] /\ resp' = [resp EXCEPT ![s] = resp[s]]
        /\ rcpt' = [rcpt EXCEPT ![s] = rcpt[s]]
        /\ posted' = [posted EXCEPT ![s] = posted[s]]
    BY <1>4, <1>5, <2>1
  <2> QED
    BY <1>2, <2>2, <2>3, <2>4, <2>5, <2>6, <2>9, ChangedTurn
<1>7. CASE CloseAmbiguity(t, e)
  <2> DEFINE u == EndedRow(sub[s], "recovery_required")
  <2>1. /\ sub' = [sub EXCEPT ![s] = u] /\ UNCHANGED <<sent, resp>>
        /\ sub[s].state = "prepared"
    BY <1>7 DEF CloseAmbiguity
  <2>2. /\ u.state = "recovery_required" /\ u.version = sub[s].version + 1
        /\ sub[s].version \in Nat /\ Dated(u)
    BY <1>3, EndedTyped, EndedDated DEF SubmissionStates, SubmissionRow
  <2> HIDE DEF u, s
  <2>3. Charged(res[s], u, sent[s], resp[s], posted[s])
    BY <1>3, <2>1, <2>2 DEF Charged
  <2>4. ReceiptGood(rcpt[s], u, resp[s])
    BY <1>3, <2>1, <2>2 DEF ReceiptGood
  <2>5. u.version > sub[s].version
    BY <2>2
  <2>9. /\ res' = [res EXCEPT ![s] = res[s]] /\ sub' = [sub EXCEPT ![s] = u]
        /\ sent' = [sent EXCEPT ![s] = sent[s]] /\ resp' = [resp EXCEPT ![s] = resp[s]]
        /\ rcpt' = [rcpt EXCEPT ![s] = rcpt[s]]
        /\ posted' = [posted EXCEPT ![s] = posted[s]]
    BY <1>4, <1>5, <2>1
  <2> QED
    BY ZenonT(30), <1>2, <2>1, <2>2, <2>3, <2>4, <2>5, <2>9, ChangedTurn
<1>8. CASE SendCreate(t)
  <2>1. /\ sent' = [sent EXCEPT ![s] = sent[s] + 1] /\ UNCHANGED sub
        /\ sub[s].state = "prepared" /\ sent[s] = 0
    BY <1>2, <1>8 DEF SendCreate, At, Knows
  <2>2. PICK x \in {resp[s], "open"} : resp' = [resp EXCEPT ![s] = x]
    BY <1>4, <1>8 DEF SendCreate
  <2>3. resp[s] = "none" /\ "none" \notin Status
    BY <1>3, <2>1 DEF Charged, ProviderStatuses
  <2> HIDE DEF s
  <2>4. Charged(res[s], sub[s], sent[s] + 1, x, posted[s])
    BY <1>3, <2>1 DEF Charged
  <2>5. ReceiptGood(rcpt[s], sub[s], x)
    BY <1>3, <2>1 DEF ReceiptGood
  <2>9. /\ res' = [res EXCEPT ![s] = res[s]] /\ sub' = [sub EXCEPT ![s] = sub[s]]
        /\ sent' = [sent EXCEPT ![s] = sent[s] + 1] /\ resp' = [resp EXCEPT ![s] = x]
        /\ rcpt' = [rcpt EXCEPT ![s] = rcpt[s]]
        /\ posted' = [posted EXCEPT ![s] = posted[s]]
    BY <1>4, <1>5, <2>1, <2>2
  <2> QED
    BY ZenonT(30), <1>2, <1>3, <2>1, <2>3, <2>4, <2>5, <2>9, ChangedTurn
<1>9. CASE \E window \in 1..ResponseWindow : Accept(t, e, window)
  <2>1. PICK window \in 1..ResponseWindow : Accept(t, e, window)
    BY <1>9
  <2> DEFINE u == AcceptedRow(sub[s], e, window)
  <2>2. /\ sub' = [sub EXCEPT ![s] = u] /\ UNCHANGED <<sent, resp>>
        /\ sub[s].state = "prepared"
    BY <2>1 DEF Accept
  <2>3. e \in Int /\ window \in Nat
    BY DEF Reading
  <2>4. /\ u.state = "waiting_provider" /\ u.version = sub[s].version + 1
        /\ sub[s].version \in Nat /\ Dated(u)
    BY <1>3, <2>2, <2>3, AcceptedTyped, AcceptedDated DEF SubmissionRow
  <2> HIDE DEF u, s
  <2>5. Charged(res[s], u, sent[s], resp[s], posted[s])
    BY <1>3, <2>2, <2>4 DEF Charged
  <2>6. ReceiptGood(rcpt[s], u, resp[s])
    BY <1>3, <2>2, <2>4 DEF ReceiptGood
  <2>7. u.version > sub[s].version
    BY <2>4
  <2>9. /\ res' = [res EXCEPT ![s] = res[s]] /\ sub' = [sub EXCEPT ![s] = u]
        /\ sent' = [sent EXCEPT ![s] = sent[s]] /\ resp' = [resp EXCEPT ![s] = resp[s]]
        /\ rcpt' = [rcpt EXCEPT ![s] = rcpt[s]]
        /\ posted' = [posted EXCEPT ![s] = posted[s]]
    BY <1>4, <1>5, <2>2
  <2> QED
    BY ZenonT(30), <1>2, <2>2, <2>4, <2>5, <2>6, <2>7, <2>9, ChangedTurn
<1> QED
  BY <1>6, <1>7, <1>8, <1>9

\* What a reconciler's current claim tells it.
LEMMA ClaimFacts ==
  ASSUME BInv, WInv, NEW p \in Reconciler, NEW e \in Reading, Current(p, e)
  PROVE  /\ rc[p] \in Claims /\ rc[p] # NoClaim /\ rc[p].sub \in Submission
         /\ sub[rc[p].sub].state = "reconciling"
         /\ RunOf(rc[p].sub) \in Run
         /\ ~(sub[rc[p].sub].dl <= -ClockError)
         /\ rc[p].marker = sub[rc[p].sub].marker /\ rc[p].retry = sub[rc[p].sub].retry
         /\ rc[p].obs # "none" => rc[p].marker
         /\ rc[p].obs \in Status => resp[rc[p].sub] = rc[p].obs
<1>1. /\ rc[p] \in Claims /\ rc[p].sub \in Submission
      /\ sub[rc[p].sub].state = "reconciling" /\ RunOf(rc[p].sub) \in Run
  BY ClaimedTurn
<1>2. rc[p] # NoClaim /\ sub[rc[p].sub].version = rc[p].version
  BY DEF Current, Shows
<1>3. ClaimGood(rc[p], sub[rc[p].sub], resp[rc[p].sub])
  BY <1>2 DEF WInv, ClaimsFit
<1>4. ~(sub[rc[p].sub].dl <= e)
  BY DEF Current, Reached
<1>5. sub[rc[p].sub].dl \in Int
  BY <1>1, TurnFacts DEF Dated
<1>6. ~(sub[rc[p].sub].dl <= -ClockError)
  BY <1>4, <1>5 DEF Reading
<1> QED
  BY <1>1, <1>2, <1>3, <1>6 DEF ClaimGood

\* Turns that are closed, with their receipts as in q.
LEMMA CloseKeepsTurns ==
  ASSUME BInv, WInv, NEW B \in SUBSET Submission, NEW q, CloseRecovery(B, q),
         \A s \in B : sub[s].state \in Pollable,
         \A s \in B : q[s] \in Receipts /\ Unsettled(q[s]),
         \A s \in Submission \ B : q[s] = rcpt[s],
         UNCHANGED <<res, resp, sent, posted>>
  PROVE  /\ \A s \in Submission : TurnKept(s)
         /\ rcpt' \in [Submission -> Receipts] /\ posted' \in [Submission -> Nat]
<1>1. /\ sub' = [s \in Submission |->
           IF s \in B THEN EndedRow(sub[s], "recovery_required") ELSE sub[s]]
      /\ rcpt' = [s \in Submission |-> IF s \in B THEN CloseReceipts(q[s]) ELSE q[s]]
  BY DEF CloseRecovery
<1>2. ASSUME NEW s \in B
      PROVE  TurnKept(s) /\ rcpt'[s] \in Receipts
  <2> DEFINE u == EndedRow(sub[s], "recovery_required")
  <2>1. /\ s \in Submission /\ sub[s] \in SubmissionRow /\ Dated(sub[s])
        /\ Charged(res[s], sub[s], sent[s], resp[s], posted[s])
    BY TurnFacts
  <2>2. /\ u.state = "recovery_required" /\ u.version = sub[s].version + 1
        /\ sub[s].version \in Nat /\ Dated(u)
    BY <2>1, EndedTyped, EndedDated DEF SubmissionStates, SubmissionRow
  <2>3. sub'[s] = u /\ rcpt'[s] = CloseReceipts(q[s])
    BY <1>1, <2>1
  <2> HIDE DEF u
  <2>4. rcpt'[s] \in Receipts /\ ReceiptGood(rcpt'[s], u, resp[s])
    BY <2>3, ClosedReceipts
  <2>5. Charged(res[s], u, sent[s], resp[s], posted[s])
    BY <2>1, <2>2 DEF Charged
  <2>6. TurnGood(s)'
    BY <2>2, <2>3, <2>4, <2>5 DEF TurnGood
  <2> QED
    BY <2>2, <2>3, <2>4, <2>6 DEF TurnKept, Outdates, Refused
<1>3. ASSUME NEW s \in Submission \ B
      PROVE  TurnKept(s) /\ rcpt'[s] \in Receipts
  <2>1. Alone(s)
    BY <1>1 DEF Alone
  <2> QED
    BY <2>1, AloneKept DEF Alone, WInv
<1>4. rcpt' \in [Submission -> Receipts]
  BY <1>1, <1>2, <1>3
<1> QED
  BY <1>2, <1>3, <1>4 DEF WInv

\* The write of a claimed row, which may match a receipt.
LEMMA WriteKeepsTurns ==
  ASSUME BInv, WInv, NEW p \in Reconciler, NEW s \in Submission,
         sub[s].state \in Pollable, ~(sub[s].dl <= -ClockError),
         NEW row \in SubmissionRow, row.version = sub[s].version,
         row.state = "reconciling", Dated(Bumped(row)), WriteClaim(p, s, row),
         NEW q \in Receipts, Unsettled(q), rcpt' = [rcpt EXCEPT ![s] = q],
         UNCHANGED <<res, resp, sent, posted>>
  PROVE  /\ \A z \in Submission : TurnKept(z)
         /\ rcpt' \in [Submission -> Receipts] /\ posted' \in [Submission -> Nat]
<1> DEFINE u == Bumped(row)
<1>1. u.state = "reconciling" /\ u.version = sub[s].version + 1 /\ sub[s].version \in Nat
  BY DEF Bumped, SubmissionRow
<1>2. sub' = [sub EXCEPT ![s] = u]
  BY DEF WriteClaim, Bumped
<1>3. Dated(u)
  OBVIOUS
<1> HIDE DEF u
<1>4. Charged(res[s], sub[s], sent[s], resp[s], posted[s])
  BY TurnFacts
<1>5. Charged(res[s], u, sent[s], resp[s], posted[s])
  BY <1>1, <1>4 DEF Charged
<1>6. ReceiptGood(q, u, resp[s])
  BY <1>1 DEF ReceiptGood, Unsettled
<1>7. /\ sub'[s] = u /\ rcpt'[s] = q
      /\ \A z \in Submission : z # s => Alone(z)
  BY <1>2 DEF BInv, Typed, WInv, Alone
<1>8. TurnGood(s)'
  BY <1>3, <1>5, <1>6, <1>7 DEF TurnGood
<1>9. TurnKept(s)
  BY <1>1, <1>7, <1>8 DEF TurnKept, Outdates, Refused
<1>10. \A z \in Submission : TurnKept(z)
  BY <1>7, <1>9, AloneKept
<1> QED
  BY <1>10 DEF WInv

\* A release of a claim, or the end of its turn.
LEMMA HandBackKeepsTurns ==
  ASSUME BInv, WInv, NEW p \in Reconciler, NEW e \in Reading, Current(p, e),
         NEW delay \in Int, HandBack(p, e, delay)
  PROVE  /\ \A z \in Submission : TurnKept(z)
         /\ rcpt' \in [Submission -> Receipts] /\ posted' \in [Submission -> Nat]
<1> DEFINE s == rc[p].sub
<1>1. /\ s \in Submission /\ sub[s].state = "reconciling" /\ ~(sub[s].dl <= -ClockError)
  BY ClaimFacts
<1>2. /\ sub[s] \in SubmissionRow /\ rcpt[s] \in Receipts /\ Dated(sub[s])
      /\ Charged(res[s], sub[s], sent[s], resp[s], posted[s])
      /\ ReceiptGood(rcpt[s], sub[s], resp[s])
  BY <1>1, TurnFacts
<1>3. Unsettled(rcpt[s])
  BY <1>1, <1>2, OpenReceipts
<1>4. UNCHANGED <<res, resp, sent, posted>>
  BY DEF HandBack
<1>5. CASE CloseRecovery({s}, rcpt)
  <2> HIDE DEF s
  <2>1. /\ {s} \in SUBSET Submission
        /\ \A z \in {s} : /\ sub[z].state \in Pollable
                          /\ rcpt[z] \in Receipts /\ Unsettled(rcpt[z])
        /\ \A z \in Submission \ {s} : rcpt[z] = rcpt[z]
    BY <1>1, <1>2, <1>3
  <2> QED
    BY <1>4, <1>5, <2>1, CloseKeepsTurns
<1>6. CASE /\ ~(sub[s].retry + 1 > MaxRetries \/ delay + e >= sub[s].dl)
           /\ sub' = [sub EXCEPT ![s] = ReleasedRow(sub[s], delay + e)]
           /\ UNCHANGED rcpt
  <2> DEFINE u == ReleasedRow(sub[s], delay + e)
  <2>1. delay + e \in Int /\ sub[s].dl \in Int /\ sub[s].retry \in Nat /\ sub[s].version \in Nat
    BY <1>1, <1>2 DEF Reading, Dated, SubmissionRow
  <2>2. delay + e <= sub[s].dl /\ sub[s].retry + 1 <= MaxRetries
    BY <1>6, <2>1
  <2>3. u.state = "waiting_provider" /\ u.version = sub[s].version + 1 /\ Dated(u)
    BY <1>1, <1>2, <2>1, <2>2, ReleasedTyped, ReleasedDated
  <2>4. sub' = [sub EXCEPT ![s] = u]
    BY <1>6
  <2> HIDE DEF u, s
  <2>5. Charged(res[s], u, sent[s], resp[s], posted[s])
    BY <1>1, <1>2, <2>3 DEF Charged
  <2>6. ReceiptGood(rcpt[s], u, resp[s])
    BY <1>1, <1>2, <2>3 DEF ReceiptGood
  <2>7. /\ res' = [res EXCEPT ![s] = res[s]] /\ sent' = [sent EXCEPT ![s] = sent[s]]
        /\ resp' = [resp EXCEPT ![s] = resp[s]] /\ posted' = [posted EXCEPT ![s] = posted[s]]
        /\ rcpt' = [rcpt EXCEPT ![s] = rcpt[s]]
    BY <1>1, <1>4, <1>6, SameTurn
  <2>8. u.version > sub[s].version
    BY <2>1, <2>3
  <2>9. \A z \in Submission : TurnKept(z)
    BY <1>1, <2>3, <2>4, <2>5, <2>6, <2>7, <2>8, ChangedTurn
  <2> QED
    BY <1>4, <1>6, <2>9 DEF WInv
<1> QED
  BY <1>5, <1>6 DEF HandBack

\* The terminal commit: the turn is answered with the observed status, which is
\* that of the response.
LEMMA CommitKeepsTurns ==
  ASSUME BInv, WInv, NEW p \in Reconciler, NEW e \in Reading, CommitTerminal(p, e)
  PROVE  /\ \A z \in Submission : TurnKept(z)
         /\ rcpt' \in [Submission -> Receipts] /\ posted' \in [Submission -> Nat]
<1> DEFINE s == rc[p].sub
           x == rc[p].obs
           q == Match(rcpt[s])
<1>0. Current(p, e) /\ x \in Status
  BY DEF CommitTerminal
<1>1. /\ s \in Submission /\ sub[s].state = "reconciling" /\ ~(sub[s].dl <= -ClockError)
      /\ resp[s] = x /\ sub[s].marker
  <2>1. x # "none"
    BY <1>0 DEF ProviderStatuses
  <2> QED
    BY <1>0, <2>1, ClaimFacts
<1>2. /\ sub[s] \in SubmissionRow /\ rcpt[s] \in Receipts /\ Dated(sub[s])
      /\ res[s] \in Reservation /\ posted[s] \in Nat /\ sent[s] \in Nat
      /\ Charged(res[s], sub[s], sent[s], resp[s], posted[s])
      /\ ReceiptGood(rcpt[s], sub[s], resp[s])
  BY <1>1, TurnFacts
<1>3. q \in Receipts /\ Unsettled(q)
  BY <1>1, <1>2, OpenReceipts, MatchedReceipts
<1>4. UNCHANGED <<resp, sent>>
  BY DEF CommitTerminal
<1> HIDE DEF s, x, q
<1>5. CASE CloseRecovery({s}, [rcpt EXCEPT ![s] = q]) /\ UNCHANGED <<res, posted>>
  <2>1. /\ [rcpt EXCEPT ![s] = q][s] = q
        /\ \A z \in Submission \ {s} : [rcpt EXCEPT ![s] = q][z] = rcpt[z]
    BY <1>1 DEF WInv
  <2> DEFINE all == [rcpt EXCEPT ![s] = q]
             B == {s}
  <2>2. /\ CloseRecovery(B, all) /\ B \in SUBSET Submission
        /\ \A z \in B : sub[z].state \in Pollable
        /\ \A z \in B : all[z] \in Receipts /\ Unsettled(all[z])
        /\ \A z \in Submission \ B : all[z] = rcpt[z]
    BY <1>1, <1>3, <1>5, <2>1
  <2> HIDE DEF all, B
  <2> QED
    BY <1>4, <1>5, <2>2, CloseKeepsTurns
<1>6. CASE ~Conflicts(q, x) /\ CommitAnswer(s, x, q)
  <2> DEFINE u == EndedRow(sub[s], FinalOf(x))
             z == SettleReceipts(q, x)
             m == IF x = "completed" THEN posted[s] + 1 ELSE posted[s]
  <2>0. /\ SetReservation(s, "committed") /\ sub' = [sub EXCEPT ![s] = u]
        /\ rcpt' = [rcpt EXCEPT ![s] = z] /\ posted' = [posted EXCEPT ![s] = m]
    BY <1>6 DEF CommitAnswer, PersistBackgroundOutput
  <2>1. PICK v \in Reservation : v.state = "committed" /\ res' = [res EXCEPT ![s] = v]
    BY <1>1, <2>0, SetReservationTyped
  <2>2. /\ FinalOf(x) \in Answered /\ FinalOf(x) \in SubmissionStates
        /\ FinalOf(x) = "completed" <=> x = "completed"
    BY <1>0 DEF FinalOf, ProviderStatuses, SubmissionStates, x
  <2>3. /\ u.state = FinalOf(x) /\ u.version = sub[s].version + 1
        /\ sub[s].version \in Nat /\ Dated(u)
    BY <1>1, <1>2, <2>2, EndedTyped, EndedDated DEF SubmissionRow
  <2>4. z \in Receipts /\ ReceiptGood(z, u, x)
    BY <1>0, <1>3, <1>6, <2>2, <2>3, SettledReceipts DEF x
  <2>5. m \in Nat /\ m = IF FinalOf(x) = "completed" THEN 1 ELSE 0
    BY <1>1, <1>2, <2>2 DEF Charged
  <2>6. TurnInv(res[s], sub[s], sent[s])
    BY <1>1, TurnFacts
  <2> HIDE DEF u, z, m
  <2>7. Charged(v, u, sent[s], x, m)
    BY <1>0, <1>1, <1>2, <2>1, <2>2, <2>3, <2>5, <2>6 DEF Charged, TurnInv, x
  <2>8. sent' = [sent EXCEPT ![s] = sent[s]] /\ resp' = [resp EXCEPT ![s] = x]
    BY <1>1, <1>4, SameTurn
  <2>9. u.version > sub[s].version
    BY <2>3
  <2>10. \A y \in Submission : TurnKept(y)
    BY <1>1, <2>0, <2>1, <2>3, <2>4, <2>7, <2>8, <2>9, ChangedTurn
  <2> QED
    BY <1>1, <2>0, <2>4, <2>5, <2>10 DEF WInv
<1> QED
  BY <1>5, <1>6 DEF CommitTerminal, s, x, q

\* The steps of a reconciler.
LEMMA ReconcileKeepsTurns ==
  ASSUME BInv, WInv, NEW p \in Reconciler, NEW e \in Reading, ReconcileStep(p, e)
  PROVE  /\ \A z \in Submission : TurnKept(z)
         /\ rcpt' \in [Submission -> Receipts] /\ posted' \in [Submission -> Nat]
<1>1. CASE ClaimSubmission(p, e)
  <2>1. PICK s \in Candidates(e) :
          /\ WriteClaim(p, s, ClaimedSubmission(sub[s], Expiry(sub[s], e)))
          /\ rcpt' = [rcpt EXCEPT ![s] = Match(@)]
    BY <1>1 DEF ClaimSubmission
  <2> DEFINE row == ClaimedSubmission(sub[s], Expiry(sub[s], e))
             q == Match(rcpt[s])
  <2>2. /\ s \in Submission /\ sub[s].state \in Pollable /\ ~(sub[s].dl <= e)
        /\ UNCHANGED <<res, resp, sent, posted>>
    BY <1>1, <2>1 DEF Candidates, Reached, ClaimSubmission
  <2>3. /\ sub[s] \in SubmissionRow /\ rcpt[s] \in Receipts /\ Dated(sub[s])
        /\ ReceiptGood(rcpt[s], sub[s], resp[s])
    BY <2>2, TurnFacts
  <2>4. sub[s].dl \in Int
    BY <2>2, <2>3 DEF Dated
  <2>5. ~(sub[s].dl <= -ClockError)
    BY <2>2, <2>4 DEF Reading
  <2>6. /\ row \in SubmissionRow /\ row.state = "reconciling"
        /\ row.version = sub[s].version /\ Dated(Bumped(row))
    <3>1. row.version = sub[s].version
      BY <2>3 DEF ClaimedSubmission, SubmissionRow
    <3> QED
      BY <2>2, <2>3, <3>1, ExpiryTyped, ClaimedTyped, ClaimedDated
  <2>7. q \in Receipts /\ Unsettled(q)
    BY <2>2, <2>3, OpenReceipts, MatchedReceipts
  <2>8. WriteClaim(p, s, row) /\ rcpt' = [rcpt EXCEPT ![s] = q]
    BY <2>1
  <2> HIDE DEF row, q
  <2> QED
    BY <2>2, <2>5, <2>6, <2>7, <2>8, WriteKeepsTurns
<1> DEFINE s == rc[p].sub
<1>2. CASE HeartbeatClaim(p, e) \/ BindRetrieval(p, e)
  <2> DEFINE later == [sub[s] EXCEPT !.next = Expiry(sub[s], e)]
             bound == [sub[s] EXCEPT !.marker = TRUE]
  <2>1. /\ Current(p, e)
        /\ WriteClaim(p, s, later) \/ WriteClaim(p, s, bound)
        /\ UNCHANGED <<res, resp, sent, posted, rcpt>>
    BY <1>2 DEF HeartbeatClaim, BindRetrieval
  <2>2. s \in Submission /\ sub[s].state = "reconciling" /\ ~(sub[s].dl <= -ClockError)
    BY <2>1, ClaimFacts
  <2>3. /\ sub[s] \in SubmissionRow /\ rcpt[s] \in Receipts /\ Dated(sub[s])
        /\ ReceiptGood(rcpt[s], sub[s], resp[s])
    BY <2>2, TurnFacts
  <2>4. Unsettled(rcpt[s])
    BY <2>2, <2>3, OpenReceipts
  <2>5. /\ later \in SubmissionRow /\ later.version = sub[s].version
        /\ later.state = "reconciling"
        /\ bound \in SubmissionRow /\ bound.version = sub[s].version
        /\ bound.state = "reconciling"
    BY <2>2, <2>3, ExpiryTyped DEF SubmissionRow
  <2>6. Dated(Bumped(later)) /\ Dated(Bumped(bound))
    BY <2>2, <2>3, RenewedDated
  <2>7. rcpt' = [rcpt EXCEPT ![s] = rcpt[s]]
    BY <2>1, <2>2, SameTurn
  <2> HIDE DEF s, later, bound
  <2>8. sub[s].state \in Pollable
    BY <2>2
  <2>9. CASE WriteClaim(p, s, later)
    BY <2>1, <2>2, <2>3, <2>4, <2>5, <2>6, <2>7, <2>8, <2>9, WriteKeepsTurns
  <2>10. CASE WriteClaim(p, s, bound)
    BY <2>1, <2>2, <2>3, <2>4, <2>5, <2>6, <2>7, <2>8, <2>10, WriteKeepsTurns
  <2> QED
    BY <2>1, <2>9, <2>10
<1>3. CASE \E delay \in 1..MaxDelay : ReleaseBeforeRetrieval(p, e, delay)
  BY <1>3, HandBackKeepsTurns DEF ReleaseBeforeRetrieval
<1>4. CASE ReleaseNonterminal(p, e)
  <2>1. RetryDelay(rc[p].retry) \in Int
    BY <1>4, ClaimedTurn DEF ReleaseNonterminal, RetryDelay, Claims
  <2> QED
    BY <1>4, <2>1, HandBackKeepsTurns DEF ReleaseNonterminal
<1>5. CASE RejectRetrieval(p, e)
  <2> DEFINE B == {s}
  <2>1. /\ CloseRecovery(B, rcpt) /\ Current(p, e)
        /\ UNCHANGED <<res, resp, sent, posted>>
    BY <1>5 DEF RejectRetrieval
  <2>2. s \in Submission /\ sub[s].state = "reconciling"
    BY <2>1, ClaimFacts
  <2>3. rcpt[s] \in Receipts /\ ReceiptGood(rcpt[s], sub[s], resp[s])
    BY <2>2, TurnFacts
  <2>4. Unsettled(rcpt[s])
    BY <2>2, <2>3, OpenReceipts
  <2> HIDE DEF s
  <2>5. /\ B \in SUBSET Submission /\ \A z \in B : sub[z].state \in Pollable
        /\ \A z \in B : rcpt[z] \in Receipts /\ Unsettled(rcpt[z])
    BY <2>2, <2>3, <2>4
  <2> HIDE DEF B
  <2> QED
    BY <2>1, <2>5, CloseKeepsTurns
<1>6. CASE CommitTerminal(p, e)
  BY <1>6, CommitKeepsTurns
<1> QED
  BY <1>1, <1>2, <1>3, <1>4, <1>5, <1>6 DEF ReconcileStep

\* The provider's steps.
LEMMA ProviderKeepsTurns ==
  ASSUME BInv, WInv, NEW s \in Submission, ProviderStep(s)
  PROVE  /\ \A z \in Submission : TurnKept(z)
         /\ rcpt' \in [Submission -> Receipts] /\ posted' \in [Submission -> Nat]
<1>1. /\ rcpt[s] \in Receipts /\ Dated(sub[s])
      /\ Charged(res[s], sub[s], sent[s], resp[s], posted[s])
      /\ ReceiptGood(rcpt[s], sub[s], resp[s])
  BY TurnFacts
<1>2. CASE \E status \in Status : Respond(s, status)
  <2>1. PICK x \in Status : Respond(s, x)
    BY <1>2
  <2>2. /\ resp[s] = "open" /\ resp' = [resp EXCEPT ![s] = x]
        /\ UNCHANGED <<res, sub, sent, rcpt, posted>>
    BY <2>1 DEF Respond
  <2>3. resp[s] \notin Status /\ sub[s].state \notin Answered
    BY <1>1, <2>2 DEF Charged, ProviderStatuses
  <2>4. Charged(res[s], sub[s], sent[s], x, posted[s])
    BY <1>1, <2>2, <2>3 DEF Charged
  <2>5. ReceiptGood(rcpt[s], sub[s], x)
    BY <1>1, <2>3 DEF ReceiptGood
  <2>6. resp'[s] = x /\ \A z \in Submission : z # s => Alone(z)
    BY <2>2 DEF Alone, BInv, Typed
  <2>7. TurnGood(s)'
    BY <1>1, <2>2, <2>4, <2>5, <2>6 DEF TurnGood
  <2>8. TurnKept(s)
    BY <2>2, <2>3, <2>7 DEF TurnKept, Outdates, Refused
  <2> QED
    BY <2>2, <2>6, <2>8, AloneKept DEF WInv
<1>3. CASE \E kind \in Status : RecordReceipt(s, kind)
  <2>1. PICK kind \in Status : RecordReceipt(s, kind)
    BY <1>3
  <2> DEFINE new == [kind |-> kind, state |-> "pending"]
             q == Append(rcpt[s], new)
  <2>2. rcpt' = [rcpt EXCEPT ![s] = q] /\ UNCHANGED <<res, sub, sent, resp, posted>>
    BY <2>1 DEF RecordReceipt
  <2>3. new \in [kind : Status, state : ReceiptStates]
    BY DEF ReceiptStates
  <2>3a. new.state = "pending"
    OBVIOUS
  <2> HIDE DEF new
  <2>4. /\ q \in Receipts
        /\ \A i \in DOMAIN q : q[i].state # "pending" => i \in DOMAIN rcpt[s] /\ q[i] = rcpt[s][i]
    <3>1. /\ q \in Receipts /\ Len(q) = Len(rcpt[s]) + 1
          /\ \A i \in 1..Len(rcpt[s]) : q[i] = rcpt[s][i]
          /\ q[Len(rcpt[s]) + 1] = new
      BY <1>1, <2>3, AppendProperties DEF Receipts
    <3>2. /\ DOMAIN q = 1..Len(q) /\ DOMAIN rcpt[s] = 1..Len(rcpt[s])
          /\ Len(rcpt[s]) \in Nat
      BY <1>1, <3>1 DEF Receipts
    <3> HIDE DEF q
    <3> QED
      BY <2>3a, <3>1, <3>2
  <2> HIDE DEF q
  <2>5. ReceiptGood(q, sub[s], resp[s])
    BY <1>1, <2>4 DEF ReceiptGood
  <2>6. /\ rcpt'[s] = q /\ \A z \in Submission : z # s => Alone(z)
        /\ rcpt' \in [Submission -> Receipts]
    BY <2>2, <2>4 DEF Alone, WInv
  <2>7. TurnGood(s)'
    BY <1>1, <2>2, <2>5, <2>6 DEF TurnGood
  <2>8. TurnKept(s)
    BY <2>2, <2>7 DEF TurnKept, Outdates, Refused
  <2> QED
    BY <2>2, <2>6, <2>8, AloneKept DEF WInv
<1> QED
  BY <1>2, <1>3 DEF ProviderStep

\* Every step keeps every turn good, outdates what it changes, and leaves to
\* close_expired what is past its deadline.
LEMMA StepKeepsTurns ==
  ASSUME BInv, WInv, [BNext]_bvars
  PROVE  /\ \A s \in Submission : TurnKept(s)
         /\ rcpt' \in [Submission -> Receipts] /\ posted' \in [Submission -> Nat]
<1>1. CASE \/ \E t \in Task, e \in Reading : SubmitStep(t, e)
           \/ \E t \in Task : CreateStep(t)
  <2>1. UNCHANGED <<rcpt, posted>>
    BY <1>1 DEF SubmitStep, CreateStep, Claim, StartRun, GiveUpRun, Reserve, Refuse,
       Prepare, MarkUncertain, ReleaseUnmarked, SubmitHeartbeat, Accept, CloseAmbiguity,
       SendCreate, Acknowledged, SubmitFails, Drop
  <2>2. \A s \in Submission : TurnKept(s)
    <3>1. CASE \E t \in Task, e \in Reading : SubmitStep(t, e)
      BY <3>1, CapacityKeepsTurns, RequestKeepsTurns DEF SubmitStep
    <3>2. CASE \E t \in Task : CreateStep(t)
      <4>1. 0 \in Reading
        BY DEF Reading
      <4> QED
        BY <3>2, <4>1, CapacityKeepsTurns, RequestKeepsTurns DEF CreateStep
    <3> QED
      BY <1>1, <3>1, <3>2
  <2> QED
    BY <2>1, <2>2 DEF WInv
<1>2. CASE \E p \in Reconciler, e \in Reading : ReconcileStep(p, e)
  BY <1>2, ReconcileKeepsTurns
<1>3. CASE \E s \in Submission : ProviderStep(s)
  BY <1>3, ProviderKeepsTurns
<1>4. CASE \/ \E p \in Reconciler : Retrieve(p) \/ CommitAgain(p) \/ DropClaim(p)
           \/ \E r \in Run : ToggleSession(r)
           \/ \E e \in Reading : RecoverLeases(e)
           \/ UNCHANGED bvars
  <2>1. UNCHANGED <<res, sub, sent, resp, rcpt, posted>>
    BY <1>4 DEF Retrieve, CommitAgain, DropClaim, ToggleSession, RecoverLeases, others, bvars
  <2>2. \A s \in Submission : Alone(s)
    BY <2>1 DEF Alone
  <2> QED
    BY <2>1, <2>2, AloneKept DEF WInv
<1>5. CASE \E e \in Reading : CloseExpired(e)
  <2>1. PICK e \in Reading : \E B \in Batches(e) : CloseRecovery(B, rcpt)
    BY <1>5 DEF CloseExpired
  <2>2. PICK B \in Batches(e) : CloseRecovery(B, rcpt)
    BY <2>1
  <2>3. B \in SUBSET Submission /\ \A s \in B : sub[s].state \in Pollable
    BY DEF Batches, Overdue
  <2>4. UNCHANGED <<res, resp, sent, posted>>
    BY <1>5 DEF CloseExpired
  <2>5. \A s \in B : rcpt[s] \in Receipts /\ Unsettled(rcpt[s])
    BY <2>3, TurnFacts, OpenReceipts
  <2> QED
    BY <2>2, <2>3, <2>4, <2>5, CloseKeepsTurns
<1>6. CASE Elapse
  <2>1. /\ UNCHANGED <<res, resp, rcpt, sent, posted>>
        /\ sub' = [s \in Submission |-> [sub[s] EXCEPT !.next = Later(@), !.dl = Later(@)]]
    BY <1>6 DEF Elapse
  <2>2. ASSUME NEW s \in Submission
        PROVE  TurnKept(s)
    <3>1. /\ sub[s] \in SubmissionRow /\ Dated(sub[s])
          /\ Charged(res[s], sub[s], sent[s], resp[s], posted[s])
          /\ ReceiptGood(rcpt[s], sub[s], resp[s])
      BY TurnFacts
    <3> DEFINE u == [sub[s] EXCEPT !.next = Later(@), !.dl = Later(@)]
    <3>2. /\ sub'[s] = u /\ Dated(u) /\ u.state = sub[s].state
          /\ u.version = sub[s].version /\ u.marker = sub[s].marker
          /\ u.retry = sub[s].retry
      BY <2>1, <3>1, ElapsedDated DEF SubmissionRow
    <3> HIDE DEF u
    <3>3. Charged(res[s], u, sent[s], resp[s], posted[s])
      BY <3>1, <3>2 DEF Charged
    <3>4. ReceiptGood(rcpt[s], u, resp[s])
      BY <3>1, <3>2 DEF ReceiptGood
    <3>5. TurnGood(s)'
      BY <2>1, <3>2, <3>3, <3>4 DEF TurnGood
    <3> QED
      BY <2>1, <3>2, <3>5 DEF TurnKept, Outdates, Refused
  <2> QED
    BY <2>1, <2>2 DEF WInv
<1> QED
  BY <1>1, <1>2, <1>3, <1>4, <1>5, <1>6 DEF BNext
---------------------------------------------------------------------------
(***************************************************************************)
(* Claims                                                                  *)
(***************************************************************************)

\* A claim stays good whatever the step does to its submission.
LEMMA ClaimStands ==
  ASSUME BInv, BInv', WInv, NEW p \in Reconciler, rc[p] # NoClaim, Outdates(rc[p].sub)
  PROVE  ClaimGood(rc[p], sub'[rc[p].sub], resp'[rc[p].sub])
<1>1. rc[p] \in Claims /\ ClaimGood(rc[p], sub[rc[p].sub], resp[rc[p].sub])
  BY DEF BInv, Typed, WInv, ClaimsFit
<1>2. rc[p].sub \in Submission /\ rc[p].version \in Nat
  BY <1>1 DEF Claims
<1>3. sub[rc[p].sub].version \in Nat /\ sub'[rc[p].sub].version \in Nat
  BY <1>2 DEF BInv, Typed, SubmissionRow
<1> QED
  BY <1>1, <1>2, <1>3 DEF ClaimGood, Outdates

\* A step in which reconcilers at most forget.
LEMMA ForgetsKeepsClaims ==
  ASSUME BInv, BInv', WInv, \A s \in Submission : Outdates(s),
         \A p \in Reconciler : rc'[p] = rc[p] \/ rc'[p] = NoClaim
  PROVE  ClaimsFit'
<1>1. \A p \in Reconciler : rc[p] # NoClaim => rc[p].sub \in Submission
  BY DEF BInv, Typed, Claims
<1>2. \A p \in Reconciler : rc'[p] # NoClaim =>
        ClaimGood(rc'[p], sub'[rc'[p].sub], resp'[rc'[p].sub])
  BY <1>1, ClaimStands
<1>3. \A p, q \in Reconciler :
        /\ rc'[p] # NoClaim /\ rc'[q] # NoClaim
        /\ rc'[p].sub = rc'[q].sub /\ rc'[p].version = rc'[q].version
        => p = q
  BY DEF WInv, ClaimsFit
<1> QED
  BY <1>2, <1>3 DEF ClaimsFit

\* A written claim shows a version that no other claim has seen.
LEMMA WriteKeepsClaims ==
  ASSUME BInv, BInv', WInv, \A s \in Submission : Outdates(s),
         NEW p \in Reconciler, NEW s \in Submission, NEW row \in SubmissionRow,
         row.version = sub[s].version, WriteClaim(p, s, row)
  PROVE  ClaimsFit'
<1> DEFINE u == [row EXCEPT !.version = @ + 1]
           c == ClaimOf(s, u)
<1>1. /\ u.version = sub[s].version + 1 /\ sub[s].version \in Nat
      /\ sub'[s] = u /\ c \in Claims
  BY BumpedTyped DEF WriteClaim, SubmissionRow, BInv, Typed
<1>2. /\ c.sub = s /\ c.version = u.version /\ c.marker = u.marker
      /\ c.retry = u.retry /\ c.obs = "none"
  BY DEF ClaimOf
<1>3. rc' = [rc EXCEPT ![p] = c] \/ UNCHANGED rc
  BY DEF WriteClaim
<1> HIDE DEF u, c
<1>4. CASE UNCHANGED rc
  BY <1>4, ForgetsKeepsClaims
<1>5. CASE rc' = [rc EXCEPT ![p] = c]
  <2>1. rc'[p] = c /\ \A q \in Reconciler : q # p => rc'[q] = rc[q]
    BY <1>5 DEF BInv, Typed
  <2>2. "none" \notin Status /\ c.version \in Nat
    BY <1>1, <1>2 DEF ProviderStatuses
  <2>3. ClaimGood(c, sub'[s], resp'[s])
    BY <1>1, <1>2, <2>2 DEF ClaimGood
  <2>4. \A q \in Reconciler : rc[q] # NoClaim /\ rc[q].sub = s => rc[q].version # c.version
    <3> SUFFICES ASSUME NEW q \in Reconciler, rc[q] # NoClaim, rc[q].sub = s
                 PROVE  rc[q].version # c.version
      OBVIOUS
    <3>1. rc[q] \in Claims /\ ClaimGood(rc[q], sub[s], resp[s])
      BY DEF BInv, Typed, WInv, ClaimsFit
    <3>2. rc[q].version \in Nat /\ rc[q].version <= sub[s].version
      BY <3>1 DEF Claims, ClaimGood
    <3> QED
      BY <1>1, <1>2, <3>2
  <2>5. \A q \in Reconciler : rc[q] # NoClaim =>
          ClaimGood(rc[q], sub'[rc[q].sub], resp'[rc[q].sub])
    <3>1. \A q \in Reconciler : rc[q] # NoClaim => rc[q].sub \in Submission
      BY DEF BInv, Typed, Claims
    <3> QED
      BY <3>1, ClaimStands
  <2>6. \A q \in Reconciler : rc'[q] # NoClaim =>
          ClaimGood(rc'[q], sub'[rc'[q].sub], resp'[rc'[q].sub])
    BY <1>2, <2>1, <2>3, <2>5
  <2>7. ASSUME NEW q \in Reconciler, NEW z \in Reconciler,
               rc'[q] # NoClaim, rc'[z] # NoClaim,
               rc'[q].sub = rc'[z].sub, rc'[q].version = rc'[z].version
        PROVE  q = z
    <3>1. CASE q = p \/ z = p
      BY <1>2, <2>1, <2>4, <2>7, <3>1
    <3>2. CASE q # p /\ z # p
      BY <2>1, <2>7, <3>2 DEF WInv, ClaimsFit
    <3> QED
      BY <3>1, <3>2
  <2> QED
    BY <2>6, <2>7 DEF ClaimsFit
<1> QED
  BY <1>3, <1>4, <1>5

\* What is retrieved is what the provider answers, if it answers.
LEMMA RetrieveKeepsClaims ==
  ASSUME BInv, BInv', WInv, NEW p \in Reconciler, Retrieve(p)
  PROVE  ClaimsFit'
<1>1. PICK obs \in Observations(rc[p].sub) : rc' = [rc EXCEPT ![p].obs = obs]
  BY DEF Retrieve
<1> DEFINE c == [rc[p] EXCEPT !.obs = obs]
<1>2. /\ rc[p] # NoClaim /\ rc[p].marker /\ rc[p] \in Claims
      /\ ClaimGood(rc[p], sub[rc[p].sub], resp[rc[p].sub])
      /\ UNCHANGED <<sub, resp>>
  BY DEF Retrieve, BInv, Typed, WInv, ClaimsFit
<1>3. /\ c.sub = rc[p].sub /\ c.version = rc[p].version /\ c.marker = rc[p].marker
      /\ c.retry = rc[p].retry /\ c.obs = obs
  BY <1>2 DEF Claims
<1>4. obs \in Status => resp[rc[p].sub] = obs
  BY DEF Observations, ProviderStatuses
<1>5. rc'[p] = c /\ \A q \in Reconciler : q # p => rc'[q] = rc[q]
  BY <1>1 DEF BInv, Typed
<1> HIDE DEF c
<1>6. ClaimGood(c, sub[rc[p].sub], resp[rc[p].sub])
  BY <1>2, <1>3, <1>4 DEF ClaimGood
<1>7. \A q \in Reconciler : rc'[q] # NoClaim =>
        ClaimGood(rc'[q], sub'[rc'[q].sub], resp'[rc'[q].sub])
  BY <1>2, <1>3, <1>5, <1>6 DEF WInv, ClaimsFit
<1>8. ASSUME NEW q \in Reconciler, NEW z \in Reconciler,
             rc'[q] # NoClaim, rc'[z] # NoClaim,
             rc'[q].sub = rc'[z].sub, rc'[q].version = rc'[z].version
      PROVE  q = z
  <2>1. /\ rc[q] # NoClaim /\ rc'[q].sub = rc[q].sub /\ rc'[q].version = rc[q].version
        /\ rc[z] # NoClaim /\ rc'[z].sub = rc[z].sub /\ rc'[z].version = rc[z].version
    BY <1>2, <1>3, <1>5, <1>8
  <2> QED
    BY <1>8, <2>1 DEF WInv, ClaimsFit
<1> QED
  BY <1>7, <1>8 DEF ClaimsFit

LEMMA StepKeepsClaims ==
  ASSUME BInv, BInv', WInv, [BNext]_bvars
  PROVE  ClaimsFit'
<1>0. \A s \in Submission : Outdates(s)
  BY StepKeepsTurns DEF TurnKept
<1>1. ASSUME \A p \in Reconciler : rc'[p] = rc[p] \/ rc'[p] = NoClaim
      PROVE  ClaimsFit'
  BY <1>0, <1>1, ForgetsKeepsClaims
<1>2. CASE \/ \E t \in Task, e \in Reading : SubmitStep(t, e)
           \/ \E t \in Task : CreateStep(t)
           \/ \E s \in Submission : ProviderStep(s)
           \/ \E r \in Run : ToggleSession(r)
           \/ \E e \in Reading : CloseExpired(e) \/ RecoverLeases(e)
           \/ Elapse
           \/ UNCHANGED bvars
  <2>1. CASE \/ \E t \in Task, e \in Reading : SubmitStep(t, e)
             \/ \E t \in Task : CreateStep(t)
    <3>1. UNCHANGED rc
      BY <2>1 DEF SubmitStep, CreateStep, Claim, StartRun, GiveUpRun, Reserve, Refuse,
         Prepare, MarkUncertain, ReleaseUnmarked, SubmitHeartbeat, Accept, CloseAmbiguity,
         SendCreate, Acknowledged, SubmitFails, Drop
    <3> QED
      BY <1>1, <3>1
  <2>2. CASE \E s \in Submission : ProviderStep(s)
    <3>1. UNCHANGED rc
      BY <2>2 DEF ProviderStep, Respond, RecordReceipt
    <3> QED
      BY <1>1, <3>1
  <2>3. CASE \/ \E r \in Run : ToggleSession(r)
             \/ \E e \in Reading : CloseExpired(e) \/ RecoverLeases(e)
             \/ Elapse
             \/ UNCHANGED bvars
    <3>1. UNCHANGED rc
      BY <2>3 DEF ToggleSession, CloseExpired, RecoverLeases, others, Elapse, bvars
    <3> QED
      BY <1>1, <3>1
  <2> QED
    BY <1>2, <2>1, <2>2, <2>3
<1>3. CASE \E p \in Reconciler : Retrieve(p) \/ CommitAgain(p) \/ DropClaim(p)
  <2>1. PICK p \in Reconciler : Retrieve(p) \/ CommitAgain(p) \/ DropClaim(p)
    BY <1>3
  <2>2. CASE CommitAgain(p) \/ DropClaim(p)
    <3>1. \A q \in Reconciler : rc'[q] = rc[q] \/ rc'[q] = NoClaim
      BY <2>2 DEF CommitAgain, DropClaim, BInv, Typed
    <3> QED
      BY <1>1, <3>1
  <2> QED
    BY <2>1, <2>2, RetrieveKeepsClaims
<1>4. CASE \E p \in Reconciler, e \in Reading : ReconcileStep(p, e)
  <2>1. PICK p \in Reconciler, e \in Reading : ReconcileStep(p, e)
    BY <1>4
  <2>2. CASE ClaimSubmission(p, e)
    <3>1. PICK s \in Candidates(e) :
            WriteClaim(p, s, ClaimedSubmission(sub[s], Expiry(sub[s], e)))
      BY <2>2 DEF ClaimSubmission
    <3> DEFINE row == ClaimedSubmission(sub[s], Expiry(sub[s], e))
    <3>2. s \in Submission /\ sub[s] \in SubmissionRow
      BY DEF Candidates, BInv, Typed
    <3>3. row \in SubmissionRow /\ row.version = sub[s].version
      <4>1. row.version = sub[s].version
        BY <3>2 DEF ClaimedSubmission, SubmissionRow
      <4> QED
        BY <3>2, <4>1, ExpiryTyped, ClaimedTyped
    <3>4. WriteClaim(p, s, row)
      BY <3>1
    <3> HIDE DEF row
    <3> QED
      BY <1>0, <3>2, <3>3, <3>4, WriteKeepsClaims
  <2>3. CASE HeartbeatClaim(p, e) \/ BindRetrieval(p, e)
    <3> DEFINE s == rc[p].sub
               later == [sub[s] EXCEPT !.next = Expiry(sub[s], e)]
               bound == [sub[s] EXCEPT !.marker = TRUE]
    <3>1. /\ Current(p, e)
          /\ WriteClaim(p, s, later) \/ WriteClaim(p, s, bound)
      BY <2>3 DEF HeartbeatClaim, BindRetrieval
    <3>2. s \in Submission /\ sub[s] \in SubmissionRow
      BY <3>1, ClaimedTurn DEF BInv, Typed
    <3>3. /\ later \in SubmissionRow /\ later.version = sub[s].version
          /\ bound \in SubmissionRow /\ bound.version = sub[s].version
      BY <3>2, ExpiryTyped DEF SubmissionRow
    <3> HIDE DEF s, later, bound
    <3> QED
      BY <1>0, <3>1, <3>2, <3>3, WriteKeepsClaims
  <2>4. CASE ForgetsClaim(p)
    <3>1. \A q \in Reconciler : rc'[q] = rc[q] \/ rc'[q] = NoClaim
      BY <2>4 DEF ForgetsClaim, BInv, Typed
    <3> QED
      BY <1>1, <3>1
  <2> QED
    BY <2>1, <2>2, <2>3, <2>4 DEF ReconcileStep, ReleaseBeforeRetrieval, HandBack,
       ReleaseNonterminal, RejectRetrieval, CommitTerminal
<1> QED
  BY <1>2, <1>3, <1>4 DEF BNext
---------------------------------------------------------------------------
(***************************************************************************)
(* What a step does to the run of a turn                                   *)
(***************************************************************************)

\* The row gets a new version, or shows the holder of a lease nothing new.
Advances(r) ==
  \/ run'[r].version > run[r].version
  \/ LeaseOf(r, run'[r]) = LeaseOf(r, run[r])

Quiet(row, new) ==
  /\ new.state = row.state /\ new.gen = row.gen /\ new.attempt = row.attempt
  /\ new.ckpt = row.ckpt
  /\ row.wait = None => new.wait = None

\* A change of a run that its submission, if it has one, need not follow.
Harmless(r) ==
  \/ Quiet(run[r], run'[r])
  \/ /\ run[r].state = "running" /\ run'[r].state \in SettledStates
     /\ run'[r].gen = run[r].gen /\ Plain(run'[r])
  \/ Unsubmitted(r) /\ run'[r].state # "waiting_provider" /\ Plain(run'[r])

\* A submitted turn and the row of its run.
LEMMA RowFacts ==
  ASSUME BInv, WInv, NEW s \in Submission, sub[s].state # "none"
  PROVE  /\ RunOf(s) \in Run /\ Linked(res[s], sub[s], run[RunOf(s)])
         /\ sub[s].state \in SubmissionStates
         /\ run[RunOf(s)].state \in {"running", "waiting_provider"} \cup SettledStates
<1>1. RunOf(s) \in Run /\ sub[s].state \in SubmissionStates
  BY DEF BInv, Typed, TurnInv, RunOf, SubmissionRow
<1>2. Linked(res[s], sub[s], run[RunOf(s)])
  BY DEF WInv, RowsFit
<1> QED
  BY <1>1, <1>2 DEF Linked, SubmissionStates, SettledStates, Terminal

LEMMA NothingSubmitted ==
  ASSUME BInv, WInv, NEW r \in Run,
         run[r].state \notin {"running", "waiting_provider"} \cup SettledStates
  PROVE  Unsubmitted(r)
BY RowFacts DEF Unsubmitted

\* A row that does not end in completed has had no checkpoint.
LEMMA PlainRow ==
  ASSUME WInv, NEW r \in Run, run[r].state # "completed"
  PROVE  run[r].ckpt = None
BY DEF WInv, RowsFit, Plain

\* Runs change harmlessly, and submissions go on being what they were.
LEMMA HarmlessRows ==
  ASSUME BInv, WInv, \A r \in Run : Harmless(r),
         \A s \in Submission :
           \/ sub'[s].state = sub[s].state
           \/ sub'[s].state \in Pollable /\ sub[s].state \in Pollable,
         \A s \in Submission : sub[s].state # "none" =>
           res'[s].run = res[s].run /\ res'[s].gen = res[s].gen
  PROVE  RowsFit'
<1>1. ASSUME NEW r \in Run
      PROVE  Plain(run'[r])
  BY DEF WInv, RowsFit, Plain, Harmless, Quiet
<1>2. ASSUME NEW s \in Submission, sub'[s].state # "none"
      PROVE  Linked(res'[s], sub'[s], run'[res'[s].run])
  <2>1. /\ sub[s].state # "none" /\ res'[s].run = RunOf(s) /\ res'[s].gen = res[s].gen
        /\ RunOf(s) \in Run
    BY <1>2, RowFacts DEF RunOf
  <2>2. Linked(res[s], sub[s], run[RunOf(s)]) /\ Harmless(RunOf(s))
    BY <2>1, RowFacts
  <2>3. ~Unsubmitted(RunOf(s))
    BY <2>1 DEF Unsubmitted
  <2>4. CASE Quiet(run[RunOf(s)], run'[RunOf(s)])
    BY <2>1, <2>2, <2>4 DEF Linked, Quiet
  <2>5. CASE /\ run[RunOf(s)].state = "running" /\ run'[RunOf(s)].state \in SettledStates
             /\ run'[RunOf(s)].gen = run[RunOf(s)].gen
    <3>1. sub[s].state = "prepared"
      <4>1. sub[s].state # "running"
        BY <2>1, RowFacts DEF SubmissionStates
      <4> QED
        BY <2>1, <2>2, <2>5, <4>1 DEF Linked
    <3> QED
      BY <2>1, <2>2, <2>5, <3>1 DEF Linked
  <2> QED
    BY <2>2, <2>3, <2>4, <2>5 DEF Harmless
<1>3. \A s \in Submission : Linked(res'[s], sub'[s], run'[res'[s].run])
  BY <1>2 DEF Linked
<1>4. \A s, q \in Submission :
        sub'[s].state # "none" /\ sub'[q].state # "none" /\ res'[s].run = res'[q].run => s = q
  BY DEF WInv, RowsFit, RunOf
<1>5. ASSUME NEW r \in Run, run'[r].state = "waiting_provider"
      PROVE  \E s \in Submission : sub'[s].state \in Pollable /\ res'[s].run = r
  <2>1. run[r].state = "waiting_provider"
    BY <1>5 DEF Harmless, Quiet, SettledStates, Terminal
  <2>2. PICK s \in Submission : sub[s].state \in Pollable /\ RunOf(s) = r
    BY <2>1 DEF WInv, RowsFit
  <2> QED
    BY <2>2 DEF RunOf
<1> QED
  BY <1>1, <1>3, <1>4, <1>5 DEF RowsFit, RunOf

\* Some submitted turns and their runs change together.
LEMMA JointRows ==
  ASSUME BInv, WInv, NEW B \in SUBSET Submission,
         \A s \in B : /\ sub[s].state # "none" /\ sub'[s].state # "none"
                      /\ Linked(res[s], sub'[s], run'[RunOf(s)])
                      /\ run'[RunOf(s)].state = "waiting_provider" =>
                           sub'[s].state \in Pollable,
         \A s \in Submission \ B : sub'[s].state = sub[s].state,
         \A s \in Submission : res'[s].run = res[s].run /\ res'[s].gen = res[s].gen,
         \A r \in Run : Plain(run'[r]),
         \A r \in Run : (\A s \in B : RunOf(s) # r) => run'[r] = run[r]
  PROVE  RowsFit'
<1>1. \A s, q \in Submission :
        sub'[s].state # "none" /\ sub'[q].state # "none" /\ res'[s].run = res'[q].run => s = q
  BY DEF WInv, RowsFit, RunOf
<1>2. ASSUME NEW s \in Submission, sub'[s].state # "none"
      PROVE  Linked(res'[s], sub'[s], run'[res'[s].run])
  <2>1. res'[s].run = RunOf(s) /\ res'[s].gen = res[s].gen
    BY DEF RunOf
  <2>2. CASE s \in B
    BY <2>1, <2>2 DEF Linked
  <2>3. CASE s \notin B
    <3>1. sub[s].state # "none" /\ sub'[s].state = sub[s].state /\ RunOf(s) \in Run
      BY <1>2, <2>3, RowFacts
    <3>2. \A q \in B : RunOf(q) # RunOf(s)
      BY <2>3, <3>1 DEF WInv, RowsFit
    <3>3. run'[RunOf(s)] = run[RunOf(s)]
      BY <3>1, <3>2
    <3>4. Linked(res[s], sub[s], run[RunOf(s)])
      BY <3>1, RowFacts
    <3> QED
      BY <2>1, <3>1, <3>3, <3>4 DEF Linked
  <2> QED
    BY <2>2, <2>3
<1>3. \A s \in Submission : Linked(res'[s], sub'[s], run'[res'[s].run])
  BY <1>2 DEF Linked
<1>4. ASSUME NEW r \in Run, run'[r].state = "waiting_provider"
      PROVE  \E s \in Submission : sub'[s].state \in Pollable /\ res'[s].run = r
  <2>1. CASE \E s \in B : RunOf(s) = r
    BY <1>4, <2>1 DEF RunOf
  <2>2. CASE \A s \in B : RunOf(s) # r
    <3>1. run[r].state = "waiting_provider"
      BY <1>4, <2>2
    <3>2. PICK s \in Submission : sub[s].state \in Pollable /\ RunOf(s) = r
      BY <3>1 DEF WInv, RowsFit
    <3>3. s \notin B
      BY <2>2, <3>2
    <3> QED
      BY <3>2, <3>3 DEF RunOf
  <2> QED
    BY <2>1, <2>2
<1> QED
  BY <1>1, <1>3, <1>4 DEF RowsFit, RunOf

\* A task that does not take part keeps what it knows.
LEMMA FitsKept ==
  ASSUME IInv, WInv, NEW x \in Task, wk'[x] = wk[x], held'[x] = held[x],
         \A r \in Run : Advances(r),
         wk[x].pc \in Handling => /\ res'[wk[x].sub].run = res[wk[x].sub].run
                                  /\ res'[wk[x].sub].gen = res[wk[x].sub].gen,
         \A s \in Submission : sub'[s].state # "none" =>
           /\ res'[s].run = res[s].run
           /\ \/ sub[s].state # "none"
              \/ run'[res[s].run].version > run[res[s].run].version
  PROVE  Fits(wk[x], held[x])'
<1>1. Fits(wk[x], held[x])
  BY DEF WInv
<1>2. ASSUME wk[x].pc \in {"leased", "ready", "reserved"}, Matches(held[x])'
      PROVE  Unsubmitted(held[x].run)'
  <2> DEFINE r == held[x].run
  <2>1. held[x] # NoLease /\ held[x] = LeaseOf(r, run'[r])
    BY <1>2 DEF Matches
  <2>2. r \in Run /\ held[x] \in Lease
    BY <2>1, HeldRun
  <2>3. held[x].version = run'[r].version
    BY <2>1 DEF LeaseOf
  <2>4. held[x].version <= run[r].version
    BY <2>1 DEF IInv, HeldInv
  <2>5. held[x].version \in Nat /\ run[r].version \in Nat
    BY <2>2 DEF Lease, IInv, Row
  <2> HIDE DEF r
  <2>6. ~(run'[r].version > run[r].version)
    BY <2>3, <2>4, <2>5
  <2>7. held[x] = LeaseOf(r, run[r])
    BY <2>1, <2>2, <2>6 DEF Advances
  <2>8. Unsubmitted(r)
    BY <1>1, <1>2, <2>1, <2>7 DEF Fits, Matches, r
  <2> QED
    BY <2>6, <2>8 DEF Unsubmitted, RunOf, r
<1> QED
  BY <1>1, <1>2 DEF Fits
---------------------------------------------------------------------------
(***************************************************************************)
(* A task and the runs it writes                                           *)
(***************************************************************************)

\* A write of one row.
LEMMA WrittenRow ==
  ASSUME IInv, NEW r \in Run, NEW new \in Row, new.version = run[r].version,
         run' = [run EXCEPT ![r] = Bumped(new)]
  PROVE  /\ \A q \in Run : Advances(q)
         /\ run'[r].version > run[r].version
         /\ \A q \in Run : q # r => run'[q] = run[q]
         /\ run'[r].state = new.state /\ run'[r].gen = new.gen
         /\ run'[r].attempt = new.attempt /\ run'[r].ckpt = new.ckpt
         /\ run'[r].wait = new.wait
<1>1. run'[r] = Bumped(new) /\ \A q \in Run : q # r => run'[q] = run[q]
  BY DEF IInv
<1>2. /\ Bumped(new).version = new.version + 1 /\ new.version \in Nat
      /\ Bumped(new).state = new.state /\ Bumped(new).gen = new.gen
      /\ Bumped(new).attempt = new.attempt /\ Bumped(new).ckpt = new.ckpt
      /\ Bumped(new).wait = new.wait
  BY DEF Bumped, Row
<1>3. run'[r].version > run[r].version
  BY <1>1, <1>2
<1>4. \A q \in Run : Advances(q)
  BY <1>1, <1>3 DEF Advances
<1> QED
  BY <1>1, <1>2, <1>3, <1>4

\* A fenced write, and the lease the task goes on with.
LEMMA FencedRow ==
  ASSUME IInv, NEW t \in Task, NEW e \in Reading, Fenced(t, e),
         NEW new \in Row, new.version = MyRow(t).version,
         Write(t, new) \/ GiveUp(t, new)
  PROVE  /\ held[t].run \in Run /\ MyRow(t) = run[held[t].run] /\ MyRow(t) \in Row
         /\ run' = [run EXCEPT ![held[t].run] = Bumped(new)]
         /\ new.version = run[held[t].run].version
         /\ held[t].gen = MyRow(t).gen /\ Matches(held[t])
         /\ held'[t] = NoLease \/ held'[t] = held[t]
              \/ held'[t] = LeaseOf(held[t].run, Bumped(new))
         /\ Write(t, new) /\ new.gen = MyRow(t).gen =>
              held'[t].run = held[t].run /\ held'[t].gen = held[t].gen
<1>1. held[t].run \in Run /\ MyRow(t) \in Row
  BY FencedFacts
<1>2. Matches(held[t]) /\ held[t] = LeaseOf(held[t].run, MyRow(t))
  BY DEF Fenced, Matches, MyRow
<1>3. held[t].gen = MyRow(t).gen
  BY <1>2 DEF LeaseOf
<1>4. \/ held'[t] = NoLease \/ held'[t] = held[t]
      \/ held'[t] = LeaseOf(held[t].run, Bumped(new))
  BY DEF Write, GiveUp, IInv, HeldInv
<1>5. Write(t, new) => held'[t] = held[t] \/ held'[t] = LeaseOf(held[t].run, Bumped(new))
  BY DEF Write, IInv, HeldInv
<1>6. /\ LeaseOf(held[t].run, Bumped(new)).run = held[t].run
      /\ LeaseOf(held[t].run, Bumped(new)).gen = new.gen
  BY DEF LeaseOf, Bumped, Row
<1>7. run' = [run EXCEPT ![held[t].run] = Bumped(new)]
  BY DEF Write, GiveUp
<1>8. MyRow(t) = run[held[t].run]
  BY DEF MyRow
<1>9. Write(t, new) /\ new.gen = MyRow(t).gen =>
        held'[t].run = held[t].run /\ held'[t].gen = held[t].gen
  BY <1>3, <1>5, <1>6
<1> QED
  BY <1>1, <1>2, <1>3, <1>4, <1>7, <1>8, <1>9

\* A task that goes on with its turn, or leaves it.
LEMMA OwnFits ==
  ASSUME WInv, NEW t \in Task, wk'[t].pc \notin {"leased", "ready", "reserved"},
         wk'[t].pc \in Handling =>
           /\ wk[t].pc \in Handling /\ wk'[t].sub = wk[t].sub
           /\ held'[t].run = held[t].run /\ held'[t].gen = held[t].gen
           /\ res'[wk[t].sub].run = res[wk[t].sub].run
           /\ res'[wk[t].sub].gen = res[wk[t].sub].gen
  PROVE  Fits(wk[t], held[t])'
BY DEF WInv, Fits

\* Every task fits when those that take no part keep what they know.
LEMMA OthersFit ==
  ASSUME IInv, BInv, WInv,
         \A x \in Task : \/ wk'[x] = wk[x] /\ held'[x] = held[x]
                         \/ Fits(wk[x], held[x])',
         \A r \in Run : Advances(r),
         \A s \in Submission : res[s].state # "none" =>
           res'[s].run = res[s].run /\ res'[s].gen = res[s].gen,
         \A s \in Submission : sub'[s].state # "none" =>
           /\ res[s].state # "none"
           /\ \/ sub[s].state # "none"
              \/ run'[res[s].run].version > run[res[s].run].version
  PROVE  \A x \in Task : Fits(wk[x], held[x])'
<1> SUFFICES ASSUME NEW x \in Task, wk'[x] = wk[x], held'[x] = held[x]
             PROVE  Fits(wk[x], held[x])'
  OBVIOUS
<1>1. wk[x].pc \in Handling => wk[x].sub \in Submission /\ res[wk[x].sub].state # "none"
  BY DEF BInv, Knows
<1>2. wk[x].pc \in Handling => /\ res'[wk[x].sub].run = res[wk[x].sub].run
                               /\ res'[wk[x].sub].gen = res[wk[x].sub].gen
  BY <1>1
<1>3. \A s \in Submission : sub'[s].state # "none" =>
        /\ res'[s].run = res[s].run
        /\ \/ sub[s].state # "none"
           \/ run'[res[s].run].version > run[res[s].run].version
  OBVIOUS
<1> QED
  BY <1>2, <1>3, FitsKept

\* Claim: nothing was submitted for a run that waits for a worker.
LEMMA ClaimRows ==
  ASSUME IInv, BInv, WInv, NEW t \in Task, NEW w \in WorkerId, NEW e \in Reading,
         Claim(t, w, e)
  PROVE  /\ \A r \in Run : Harmless(r) /\ Advances(r)
         /\ Fits(wk[t], held[t])'
<1>1. ClaimNext(t, w, e) /\ wk[t].pc = "idle" /\ held[t] = NoLease
  BY DEF Claim, At, ClaimNext
<1>2. PICK r \in Run :
        /\ run[r].state \in ClaimableStates
        /\ run' = [run EXCEPT ![r] = Bumped(ClaimedRow(run[r], w, e))]
        /\ \/ held' = [held EXCEPT ![t] = LeaseOf(r, Bumped(ClaimedRow(run[r], w, e)))]
           \/ UNCHANGED held
  BY <1>1 DEF ClaimNext, Scans, InState, ClaimableStates
<1> DEFINE new == ClaimedRow(run[r], w, e)
<1>3. RowInv(run[r]) /\ run[r] \in Row
  BY DEF IInv, RowInv
<1>4. Unsubmitted(r) /\ run[r].ckpt = None
  BY <1>2, NothingSubmitted, PlainRow DEF ClaimableStates, SettledStates, Terminal
<1>5. RowInv(new) /\ new \in Row
  BY <1>2, <1>3, ClaimedRowInv DEF RowInv
<1>6. new.state = "leased" /\ new.version = run[r].version /\ new.ckpt = None
  BY <1>3, <1>4 DEF ClaimedRow, Renewed, Row
<1>7. run' = [run EXCEPT ![r] = Bumped(new)]
  BY <1>2
<1>8. \/ held' = [held EXCEPT ![t] = LeaseOf(r, Bumped(new))]
      \/ UNCHANGED held
  BY <1>2
<1> HIDE DEF new
<1>9. /\ \A q \in Run : Advances(q)
      /\ \A q \in Run : q # r => run'[q] = run[q]
      /\ run'[r].state = "leased" /\ run'[r].ckpt = None
  BY ZenonT(30), <1>5, <1>6, <1>7, WrittenRow
<1>10. \A q \in Run : Harmless(q)
  BY <1>4, <1>9 DEF Harmless, Quiet, Plain
<1>11. Fits(wk[t], held[t])'
  <2>1. CASE held'[t] = NoLease
    <3>1. wk' = wk
      BY <2>1 DEF Claim
    <3> QED
      BY <1>1, <3>1 DEF Fits, Handling
  <2>2. CASE held'[t] # NoLease
    <3>1. held'[t] = LeaseOf(r, Bumped(new))
      BY <1>1, <1>8, <2>2 DEF IInv, HeldInv
    <3>2. held'[t].run = r
      BY <3>1 DEF LeaseOf
    <3>3. wk' = [wk EXCEPT ![t].pc = "leased"]
      BY <2>2 DEF Claim
    <3>4. wk'[t].pc = "leased"
      BY <3>3 DEF BInv, Typed, TaskState
    <3>5. Unsubmitted(r)'
      BY <1>4 DEF Unsubmitted, RunOf, Claim
    <3> QED
      BY <3>2, <3>4, <3>5 DEF Fits, Handling
  <2> QED
    BY <2>1, <2>2
<1> QED
  BY <1>9, <1>10, <1>11

\* Start, and giving up before anything was submitted.
LEMMA StartRows ==
  ASSUME IInv, BInv, WInv, NEW t \in Task, NEW e \in Reading, StartRun(t, e)
  PROVE  /\ \A r \in Run : Harmless(r) /\ Advances(r)
         /\ Fits(wk[t], held[t])'
<1> DEFINE r == held[t].run
           new == [Renewed(MyRow(t), e) EXCEPT !.state = "running"]
<1>1. Fenced(t, e) /\ MyRow(t).state = "leased" /\ Write(t, new) /\ wk[t].pc = "leased"
  BY DEF StartRun, Start, At
<1>2. MyRow(t) \in Row /\ RowInv(MyRow(t)) /\ r \in Run
  BY <1>1, FencedFacts
<1>3. /\ new \in Row /\ new.state = "running" /\ new.version = MyRow(t).version
      /\ new.gen = MyRow(t).gen /\ new.ckpt = MyRow(t).ckpt
  <2>1. new \in Row
    BY <1>1, <1>2, StartInv DEF RowInv
  <2> QED
    BY <1>2, <2>1 DEF Renewed, Row
<1> HIDE DEF new
<1>4. /\ Matches(held[t]) /\ run' = [run EXCEPT ![r] = Bumped(new)]
      /\ MyRow(t) = run[r] /\ held'[t].run = r /\ new.version = run[r].version
  BY <1>1, <1>3, FencedRow
<1>5. Unsubmitted(r)
  BY <1>1, <1>4 DEF WInv, Fits
<1> HIDE DEF r
<1>6. run[r].ckpt = None
  BY <1>1, <1>2, <1>4, PlainRow
<1>7. /\ \A q \in Run : Advances(q)
      /\ \A q \in Run : q # r => run'[q] = run[q]
      /\ run'[r].state = "running" /\ run'[r].ckpt = None
  <2>1. /\ new \in Row /\ r \in Run /\ new.version = run[r].version
        /\ run' = [run EXCEPT ![r] = Bumped(new)]
    BY <1>2, <1>3, <1>4
  <2>2. new.state = "running" /\ new.ckpt = None
    BY <1>3, <1>4, <1>6
  <2> QED
    BY ZenonT(30), <2>1, <2>2, WrittenRow
<1>8. \A q \in Run : Harmless(q)
  BY <1>5, <1>7 DEF Harmless, Quiet, Plain
<1>9. wk'[t].pc \in {"ready", "lost"}
  <2>1. PICK pc \in {"ready", "lost"} : wk' = [wk EXCEPT ![t].pc = pc]
    BY DEF StartRun, Goes
  <2> QED
    BY <2>1 DEF BInv, Typed, TaskState
<1>10. \A s \in Submission : sub'[s].state # "none" => res'[s].run # r
  BY <1>5 DEF Unsubmitted, RunOf, StartRun
<1> QED
  BY <1>4, <1>7, <1>8, <1>9, <1>10 DEF Fits, Handling, Unsubmitted, RunOf

LEMMA GiveUpRows ==
  ASSUME IInv, BInv, WInv, NEW t \in Task, NEW e \in Reading, GiveUpRun(t, e)
  PROVE  /\ \A r \in Run : Harmless(r) /\ Advances(r)
         /\ Fits(wk[t], held[t])'
<1> DEFINE r == held[t].run
<1>1. Fenced(t, e) /\ wk[t].pc = "ready"
  BY DEF GiveUpRun, Finish, ScheduleRetry, At
<1>2. MyRow(t) \in Row /\ RowInv(MyRow(t)) /\ r \in Run /\ MyRow(t).state \in LeasedStates
  BY <1>1, FencedFacts
<1>3. \E new \in Row : /\ new.state \in {"failed", "retry_scheduled"}
                       /\ new.version = MyRow(t).version
                       /\ new.ckpt = MyRow(t).ckpt
                       /\ GiveUp(t, new)
  <2>1. CASE Finish(t, e, "failed", "other")
    <3> DEFINE new == [Released(MyRow(t)) EXCEPT !.state = "failed", !.err = "other"]
    <3>1. GiveUp(t, new)
      BY <2>1 DEF Finish, Conclude
    <3>2. new \in Row
      BY <1>2 DEF Released, Row, Deadline, ErrorCodes, AiRunStates
    <3>3. new.state = "failed" /\ new.version = MyRow(t).version /\ new.ckpt = MyRow(t).ckpt
      BY <1>2 DEF Released, Row
    <3> HIDE DEF new
    <3> QED
      BY <3>1, <3>2, <3>3
  <2>2. CASE \E delay \in 0..MaxRetryDelay : ScheduleRetry(t, e, delay)
    <3>1. PICK delay \in 0..MaxRetryDelay : ScheduleRetry(t, e, delay)
      BY <2>2
    <3> DEFINE new == [Released(MyRow(t)) EXCEPT
                         !.state = "retry_scheduled", !.attempt = 0,
                         !.retry = @ + 1, !.wait = delay + e, !.err = "other"]
    <3>2. GiveUp(t, new)
      BY <3>1 DEF ScheduleRetry, Conclude
    <3>3. MyRow(t).retry < MaxRunRetries
      BY <3>1 DEF ScheduleRetry
    <3>4. new \in Row
      BY <1>2, <3>3, ScheduleRetryInv DEF RowInv
    <3>5. /\ new.state = "retry_scheduled" /\ new.version = MyRow(t).version
          /\ new.ckpt = MyRow(t).ckpt
      BY <1>2 DEF Released, Row
    <3> HIDE DEF new
    <3> QED
      BY <3>2, <3>4, <3>5
  <2> QED
    BY <2>1, <2>2 DEF GiveUpRun
<1>4. PICK new \in Row : /\ new.state \in {"failed", "retry_scheduled"}
                         /\ new.version = MyRow(t).version
                         /\ new.ckpt = MyRow(t).ckpt
                         /\ GiveUp(t, new)
  BY <1>3
<1>5. /\ Matches(held[t]) /\ run' = [run EXCEPT ![r] = Bumped(new)]
      /\ MyRow(t) = run[r] /\ new.version = run[r].version
  BY <1>1, <1>4, FencedRow
<1>6. Unsubmitted(r)
  BY <1>1, <1>5 DEF WInv, Fits
<1> HIDE DEF r
<1>7. run[r].ckpt = None
  BY <1>2, <1>5, PlainRow DEF LeasedStates, WorkerStates
<1>8. /\ \A q \in Run : Advances(q)
      /\ \A q \in Run : q # r => run'[q] = run[q]
      /\ run'[r].state \in {"failed", "retry_scheduled"} /\ run'[r].ckpt = None
  BY ZenonT(30), <1>2, <1>4, <1>5, <1>7, WrittenRow
<1>9. \A q \in Run : Harmless(q)
  BY <1>6, <1>8 DEF Harmless, Quiet, Plain
<1>10. wk'[t].pc \in {"idle", "lost"}
  BY DEF GiveUpRun, BInv, Typed, TaskState, Idle
<1> QED
  BY <1>8, <1>9, <1>10 DEF Fits, Handling

\* A renewed lease.
LEMMA RenewedRows ==
  ASSUME IInv, NEW t \in Task, NEW e \in Reading, Heartbeat(t, e)
  PROVE  /\ \A r \in Run : Quiet(run[r], run'[r]) /\ Advances(r)
         /\ held[t].run \in Run
         /\ run'[held[t].run].version > run[held[t].run].version
         /\ held'[t].run = held[t].run /\ held'[t].gen = held[t].gen
         /\ Matches(held[t])
<1> DEFINE r == held[t].run
           new == Renewed(MyRow(t), e)
<1>1. Fenced(t, e) /\ Write(t, new)
  BY DEF Heartbeat
<1>2. MyRow(t) \in Row /\ r \in Run
  BY <1>1, FencedFacts
<1>3. /\ new \in Row /\ new.state = MyRow(t).state /\ new.version = MyRow(t).version
      /\ new.gen = MyRow(t).gen /\ new.ckpt = MyRow(t).ckpt
      /\ new.attempt = MyRow(t).attempt /\ new.wait = MyRow(t).wait
  BY <1>2 DEF Renewed, Row, Deadline, Reading
<1> HIDE DEF new
<1>4. /\ Matches(held[t]) /\ run' = [run EXCEPT ![r] = Bumped(new)]
      /\ MyRow(t) = run[r] /\ held'[t].run = r /\ held'[t].gen = held[t].gen
      /\ new.version = run[r].version
  BY <1>1, <1>3, FencedRow
<1> HIDE DEF r
<1>5. /\ \A q \in Run : Advances(q)
      /\ run'[r].version > run[r].version
      /\ \A q \in Run : q # r => run'[q] = run[q]
      /\ Quiet(run[r], run'[r])
  BY ZenonT(30), <1>2, <1>3, <1>4, WrittenRow DEF Quiet
<1>6. \A q \in Run : Quiet(run[q], run'[q])
  BY <1>5 DEF Quiet
<1> QED
  BY <1>2, <1>4, <1>5, <1>6 DEF r

\* A pass of recover_expired_leases never takes a parked run, and closes one
\* whose turn may have been sent.
LEMMA RecoveredRows ==
  ASSUME IInv, BInv, WInv, NEW e \in Reading, RecoverExpiredLeases(e)
  PROVE  \A r \in Run : Harmless(r) /\ Advances(r)
<1>1. PICK X \in SUBSET Run :
        /\ \A r \in X : run[r].state \in WorkerStates
        /\ \A r \in Run : run'[r] = IF r \in X THEN Bumped(RecoveredRow(run[r], e)) ELSE run[r]
  <2>1. PICK W \in RecoveryWindows :
          /\ \A r \in W : run[r].left # None
          /\ run' = [r \in Run |-> IF r \in Expired(W, e)
                                   THEN Bumped(RecoveredRow(run[r], e)) ELSE run[r]]
    BY DEF RecoverExpiredLeases
  <2>2. W \subseteq Recoverable
    BY DEF RecoveryWindows
  <2>3. Recoverable \subseteq Run
    BY DEF Recoverable, InState
  <2>4. \A r \in W : run[r].state \in LeasedStates
    BY <2>1, <2>2, <2>3 DEF IInv, RowInv, WellFormed
  <2>5. \A r \in W : run[r].state \in RecoverableStates
    BY <2>2 DEF Recoverable, InState
  <2>6. \A r \in W : run[r].state \in WorkerStates
    BY <2>4, <2>5 DEF LeasedStates, WorkerStates, RecoverableStates
  <2> QED
    BY <2>1, <2>2, <2>3, <2>6 DEF Expired
<1> SUFFICES ASSUME NEW r \in Run PROVE Harmless(r) /\ Advances(r)
  OBVIOUS
<1>2. CASE r \notin X
  BY <1>1, <1>2 DEF Harmless, Quiet, Advances
<1>3. CASE r \in X
  <2> DEFINE mid == RecoveredRow(run[r], e)
             new == Bumped(mid)
  <2>1. /\ RowInv(run[r]) /\ run[r] \in Row /\ run[r].state \in WorkerStates
        /\ HistInv(run[r], outcomes[r]) /\ run[r].version \in Nat
    BY <1>1, <1>3 DEF IInv, RowInv, Row
  <2>2. new.version = run[r].version + 1 /\ RowInv(new)
    BY <2>1, RecoveredInv
  <2>3. Advances(r)
    <3>1. run'[r] = new
      BY <1>1, <1>3
    <3> HIDE DEF new
    <3> QED
      BY <2>1, <2>2, <3>1 DEF Advances
  <2>4. run[r].ckpt = None
    BY <2>1, PlainRow DEF WorkerStates
  <2>5. CASE run[r].state = "running"
    <3>1. mid = Settled(run[r], "recovery_required", "other")
      BY <2>4, <2>5 DEF RecoveredRow, Final, Adoptable
    <3>2. /\ new.state = "recovery_required" /\ new.ckpt = None
          /\ new.gen = run[r].gen
      BY <2>1, <2>4, <3>1 DEF Settled, Released, Bumped, Row
    <3> HIDE DEF new
    <3>3. run'[r] = new
      BY <1>1, <1>3 DEF new
    <3> QED
      BY <2>3, <2>5, <3>2, <3>3 DEF Harmless, Plain, SettledStates
  <2>6. CASE run[r].state # "running"
    <3>1. Unsubmitted(r)
      BY <2>1, <2>6, NothingSubmitted DEF WorkerStates, SettledStates, Terminal
    <3>2. new.ckpt = None /\ new.state \notin {"completed", "waiting_provider"}
      <4>1. CASE run[r].state = "leased"
        BY <2>1, <2>4, <4>1
        DEF RecoveredRow, Settled, Requeued, Released, Bumped, Row
      <4>2. CASE run[r].state = "waiting_tool"
        <5>1. mid = Settled(run[r], "recovery_required", "other")
          BY <2>4, <4>2 DEF RecoveredRow, Final, Adoptable
        <5> QED
          BY <2>1, <2>4, <5>1 DEF Settled, Released, Bumped, Row
      <4> QED
        BY <2>1, <2>6, <4>1, <4>2 DEF WorkerStates
    <3> HIDE DEF new
    <3>3. run'[r] = new
      BY <1>1, <1>3 DEF new
    <3> QED
      BY <2>3, <3>1, <3>2, <3>3 DEF Harmless, Plain
  <2> QED
    BY <2>5, <2>6
<1> QED
  BY <1>2, <1>3
---------------------------------------------------------------------------
(***************************************************************************)
(* The rows of runs and turns go on fitting together                       *)
(***************************************************************************)

\* Capacity in another state is of the same attempt.
LEMMA SameAttempt ==
  ASSUME BInv, NEW s \in Submission, UNCHANGED res \/ \E state : SetReservation(s, state)
  PROVE  \A q \in Submission : res'[q].run = res[q].run /\ res'[q].gen = res[q].gen
<1>1. CASE \E state : SetReservation(s, state)
  <2>1. PICK state : res' = [res EXCEPT ![s].state = state]
    BY <1>1 DEF SetReservation
  <2>2. \A q \in Submission : res[q] \in Reservation
    BY DEF BInv, Typed
  <2> QED
    BY <2>1, <2>2 DEF BInv, Typed, Reservation
<1> QED
  BY <1>1

\* A submission has a reservation.
LEMMA ReservedFirst ==
  ASSUME BInv, NEW s \in Submission, sub[s].state # "none"
  PROVE  res[s].state # "none"
BY DEF BInv, TurnInv

RowsKept == RowsFit' /\ \A x \in Task : Fits(wk[x], held[x])'

\* A step that writes no submission, and runs harmlessly.
LEMMA HarmlessKeepsRows ==
  ASSUME IInv, BInv, WInv, \A r \in Run : Harmless(r) /\ Advances(r),
         \A s \in Submission :
           \/ sub'[s].state = sub[s].state
           \/ sub'[s].state \in Pollable /\ sub[s].state \in Pollable,
         \A s \in Submission : res[s].state # "none" =>
           res'[s].run = res[s].run /\ res'[s].gen = res[s].gen,
         \A x \in Task : \/ wk'[x] = wk[x] /\ held'[x] = held[x]
                         \/ Fits(wk[x], held[x])'
  PROVE  RowsKept
<1>1. \A s \in Submission : sub'[s].state # "none" => sub[s].state # "none"
  OBVIOUS
<1>2. RowsFit'
  BY ReservedFirst, HarmlessRows
<1>3. \A x \in Task : Fits(wk[x], held[x])'
  BY <1>1, ReservedFirst, OthersFit
<1> QED
  BY <1>2, <1>3 DEF RowsKept

\* A claim, a start, an end before submission, and a crash.
LEMMA OutsideKeepsRows ==
  ASSUME IInv, BInv, WInv, NEW t \in Task, NEW e \in Reading,
         \/ \E w \in WorkerId : Claim(t, w, e)
         \/ StartRun(t, e) \/ GiveUpRun(t, e) \/ Drop(t),
         \A x \in Task : x # t => held'[x] = held[x]
  PROVE  RowsKept
<1>1. UNCHANGED <<res, sub>>
  BY DEF Claim, StartRun, GiveUpRun, Drop
<1>2. \A x \in Task : x # t => wk'[x] = wk[x]
  <2>1. \/ UNCHANGED wk
        \/ \E w : wk' = [wk EXCEPT ![t] = w]
    BY DEF Claim, StartRun, GiveUpRun, Drop, Goes
  <2> QED
    BY <2>1 DEF BInv, Typed
<1>3. (\A r \in Run : Harmless(r) /\ Advances(r)) /\ Fits(wk[t], held[t])'
  <2>1. CASE Drop(t)
    <3>1. UNCHANGED run
      BY <2>1 DEF Drop, Crash
    <3>2. wk'[t].pc = "idle"
      BY <2>1 DEF Drop, Idle, BInv, Typed
    <3> QED
      BY <3>1, <3>2 DEF Harmless, Quiet, Advances, Fits, Handling
  <2> QED
    BY <2>1, ClaimRows, StartRows, GiveUpRows
<1> QED
  BY <1>1, <1>2, <1>3, HarmlessKeepsRows

\* Capacity.
LEMMA ReserveKeepsRows ==
  ASSUME IInv, BInv, WInv, NEW t \in Task, NEW e \in Reading, NEW s \in Submission,
         Reserve(t, e, s)
  PROVE  RowsKept
<1>1. /\ wk[t].pc = "ready" /\ res[s] = NoReservation
      /\ UNCHANGED <<run, held, sub>>
      /\ res' = [res EXCEPT ![s] =
           [state |-> "reserved", run |-> held[t].run, gen |-> held[t].gen]]
      /\ wk' = [wk EXCEPT ![t] = [pc |-> "reserved", sub |-> s]] \/ UNCHANGED wk
  BY DEF Reserve, At
<1>2. /\ res'[s].run = held[t].run /\ res'[s].gen = held[t].gen
      /\ \A q \in Submission : q # s => res'[q] = res[q]
  BY <1>1 DEF BInv, Typed
<1>3. \A q \in Submission : res[q].state # "none" => res'[q] = res[q]
  BY <1>1, <1>2 DEF NoReservation
<1>4. Fits(wk[t], held[t])'
  <2>1. Matches(held[t]) => Unsubmitted(held[t].run)
    BY <1>1 DEF WInv, Fits
  <2>2. Matches(held[t])' => Unsubmitted(held[t].run)'
    BY <1>1, <1>3, <2>1, ReservedFirst DEF Matches, Unsubmitted, RunOf
  <2>3. CASE wk' = [wk EXCEPT ![t] = [pc |-> "reserved", sub |-> s]]
    <3>1. wk'[t].pc = "reserved" /\ wk'[t].sub = s
      BY <2>3 DEF BInv, Typed
    <3> QED
      BY <1>1, <1>2, <2>2, <3>1 DEF Fits
  <2>4. CASE UNCHANGED wk
    BY <1>1, <2>2, <2>4 DEF Fits, Handling
  <2> QED
    BY <1>1, <2>3, <2>4
<1>5. \A x \in Task : x # t => wk'[x] = wk[x] /\ held'[x] = held[x]
  BY <1>1 DEF BInv, Typed
<1>6. \A r \in Run : Harmless(r) /\ Advances(r)
  BY <1>1 DEF Harmless, Quiet, Advances
<1> QED
  BY <1>1, <1>3, <1>4, <1>5, <1>6, HarmlessKeepsRows

LEMMA CapacityKeepsRows ==
  ASSUME IInv, BInv, WInv, NEW t \in Task, NEW e \in Reading,
         Refuse(t, e) \/ MarkUncertain(t, e) \/ ReleaseUnmarked(t, e)
  PROVE  RowsKept
<1>1. wk[t].pc \in {"reserved", "unsure", "prepared", "unmarked"}
  BY DEF Refuse, MarkUncertain, ReleaseUnmarked, At
<1>2. SubOf(t) \in Submission
  BY <1>1, Mine DEF Handling
<1>3. UNCHANGED <<run, held, sub>>
  BY DEF Refuse, MarkUncertain, ReleaseUnmarked
<1>4. UNCHANGED res \/ \E state : SetReservation(SubOf(t), state)
  BY DEF Refuse, MarkUncertain, ReleaseUnmarked, ReleaseUnstarted
<1>5. \A q \in Submission : res'[q].run = res[q].run /\ res'[q].gen = res[q].gen
  BY <1>2, <1>4, SameAttempt
<1>6. \A x \in Task : x # t => wk'[x] = wk[x]
  <2>1. \E w : wk' = [wk EXCEPT ![t] = w]
    BY DEF Refuse, MarkUncertain, ReleaseUnmarked, Continues
  <2> QED
    BY <2>1 DEF BInv, Typed
<1>7. \/ wk[t].pc = "reserved" /\ wk'[t].pc = "ready"
      \/ wk'[t].pc = "lost"
      \/ wk'[t].pc \in {"send", "unmarked", "ambiguous"} /\ wk'[t].sub = wk[t].sub
  <2>1. wk[t] \in TaskState /\ wk \in [Task -> TaskState]
    BY DEF BInv, Typed
  <2>2. CASE Refuse(t, e)
    BY <2>1, <2>2 DEF Refuse, TaskState
  <2>3. CASE MarkUncertain(t, e) \/ ReleaseUnmarked(t, e)
    <3>1. PICK pc \in {"send", "unmarked", "ambiguous"} : wk' = [wk EXCEPT ![t].pc = pc]
      BY <2>3 DEF MarkUncertain, ReleaseUnmarked, Continues
    <3> QED
      BY <2>1, <3>1 DEF TaskState
  <2> QED
    BY <2>2, <2>3
<1>8. Fits(wk[t], held[t])'
  <2>1. CASE wk[t].pc = "reserved" /\ wk'[t].pc = "ready"
    <3>1. Matches(held[t]) => Unsubmitted(held[t].run)
      BY <2>1 DEF WInv, Fits
    <3>2. Matches(held[t])' => Unsubmitted(held[t].run)'
      BY <1>3, <1>5, <3>1 DEF Matches, Unsubmitted, RunOf
    <3> QED
      BY <2>1, <3>2 DEF Fits, Handling
  <2>2. CASE wk'[t].pc = "lost"
    BY <2>2 DEF Fits, Handling
  <2>3. CASE wk'[t].pc \in {"send", "unmarked", "ambiguous"} /\ wk'[t].sub = wk[t].sub
    <3>1. wk[t].pc \in Handling /\ wk[t].sub \in Submission
      BY <1>1, <1>2 DEF Handling, SubOf
    <3> QED
      BY <1>3, <1>5, <2>3, <3>1, OwnFits
  <2> QED
    BY <1>7, <2>1, <2>2, <2>3
<1>9. \A r \in Run : Harmless(r) /\ Advances(r)
  BY <1>3 DEF Harmless, Quiet, Advances
<1> QED
  BY <1>3, <1>5, <1>6, <1>8, <1>9, HarmlessKeepsRows

\* The request and what runs beside it.
LEMMA SendKeepsRows ==
  ASSUME IInv, BInv, WInv, NEW t \in Task, NEW e \in Reading,
         SubmitHeartbeat(t, e) \/ SendCreate(t) \/ Acknowledged(t) \/ SubmitFails(t),
         \A x \in Task : x # t => held'[x] = held[x]
  PROVE  RowsKept
<1>1. wk[t].pc \in {"send", "sent", "acked"} /\ UNCHANGED <<res, sub>>
  BY DEF SubmitHeartbeat, SendCreate, Acknowledged, SubmitFails, At
<1>2. PICK pc \in {"sent", "acked", "ambiguous"} : wk' = [wk EXCEPT ![t].pc = pc]
  BY DEF SubmitHeartbeat, SendCreate, Acknowledged, SubmitFails, Continues, Goes
<1>3. /\ wk'[t].pc \in {"sent", "acked", "ambiguous"} /\ wk'[t].sub = wk[t].sub
      /\ \A x \in Task : x # t => wk'[x] = wk[x]
  BY <1>2 DEF BInv, Typed, TaskState
<1>4. /\ \A r \in Run : Harmless(r) /\ Advances(r)
      /\ held'[t].run = held[t].run /\ held'[t].gen = held[t].gen
  <2>1. CASE SubmitHeartbeat(t, e)
    BY <2>1, RenewedRows DEF SubmitHeartbeat, Harmless
  <2>2. CASE SendCreate(t) \/ Acknowledged(t) \/ SubmitFails(t)
    <3>1. UNCHANGED <<run, held>>
      BY <2>2 DEF SendCreate, Acknowledged, SubmitFails
    <3> QED
      BY <3>1 DEF Harmless, Quiet, Advances
  <2> QED
    BY <2>1, <2>2
<1>5. Fits(wk[t], held[t])'
  <2>1. wk[t].pc \in Handling
    BY <1>1 DEF Handling
  <2> QED
    BY <1>1, <1>3, <1>4, <2>1, OwnFits
<1> QED
  BY <1>1, <1>3, <1>4, <1>5, HarmlessKeepsRows

\* Prepare: the run had no submission, and now has this one.
LEMMA PrepareKeepsRows ==
  ASSUME IInv, BInv, WInv, NEW t \in Task, NEW e \in Reading, Prepare(t, e),
         \A x \in Task : x # t => held'[x] = held[x]
  PROVE  RowsKept
<1> DEFINE s == wk[t].sub
           r == held[t].run
<1>1. /\ wk[t].pc = "reserved" /\ Heartbeat(t, e) /\ MyRow(t).state = "running"
      /\ UNCHANGED res
      /\ sub' = [sub EXCEPT ![s].state = "prepared"]
  BY DEF Prepare, At, SubOf
<1>2. wk[t].pc \in Handling
  BY <1>1 DEF Handling
<1>3. /\ s \in Submission /\ sub[s].state = "none" /\ res[s].state # "none"
      /\ sub[s] \in SubmissionRow
  BY <1>1, <1>2, Mine DEF SubOf, Knows
<1>4. /\ \A q \in Run : Quiet(run[q], run'[q]) /\ Advances(q)
      /\ r \in Run /\ run'[r].version > run[r].version
      /\ held'[t].run = r /\ held'[t].gen = held[t].gen
      /\ Matches(held[t])
  BY <1>1, RenewedRows
<1>5. /\ RunOf(s) = r /\ res[s].gen = held[t].gen /\ Unsubmitted(r)
  BY <1>1, <1>2, <1>4 DEF WInv, Fits, RunOf
<1>6. held[t].gen = run[r].gen /\ run[r].state = "running"
  <2>1. held[t] = LeaseOf(r, run[r])
    BY <1>4 DEF Matches
  <2>2. LeaseOf(r, run[r]).gen = run[r].gen
    BY DEF LeaseOf
  <2> QED
    BY <1>1, <2>1, <2>2 DEF MyRow
<1>7. /\ sub'[s].state = "prepared"
      /\ \A q \in Submission : q # s => sub'[q] = sub[q]
  BY <1>1, <1>3 DEF BInv, Typed, SubmissionRow
<1>8. wk'[t].pc \in {"prepared", "unsure"} /\ wk'[t].sub = s
      /\ \A x \in Task : x # t => wk'[x] = wk[x]
  <2>1. PICK pc \in {"prepared", "unsure"} : wk' = [wk EXCEPT ![t].pc = pc]
    BY DEF Prepare, Goes
  <2> QED
    BY <2>1 DEF BInv, Typed, TaskState
<1> HIDE DEF s, r
<1>9. RowsFit'
  <2>1. \A q \in Run : Plain(run'[q])
    BY <1>4 DEF WInv, RowsFit, Plain, Quiet
  <2>2. ASSUME NEW q \in Submission, sub'[q].state # "none"
        PROVE  Linked(res[q], sub'[q], run'[RunOf(q)])
    <3>1. CASE q = s
      <4>1. /\ run'[RunOf(s)].gen = res[s].gen /\ run'[RunOf(s)].state = "running"
        BY <1>4, <1>5, <1>6 DEF Quiet
      <4> QED
        BY <1>7, <3>1, <4>1 DEF Linked
    <3>2. CASE q # s
      <4>1. sub'[q] = sub[q] /\ sub[q].state # "none" /\ RunOf(q) \in Run
        BY <1>7, <2>2, <3>2, RowFacts
      <4>2. Linked(res[q], sub[q], run[RunOf(q)]) /\ Quiet(run[RunOf(q)], run'[RunOf(q)])
        BY <1>4, <4>1, RowFacts
      <4> QED
        BY <4>1, <4>2 DEF Linked, Quiet
    <3> QED
      BY <3>1, <3>2
  <2>3. \A q \in Submission : Linked(res[q], sub'[q], run'[RunOf(q)])
    BY <2>2 DEF Linked
  <2>4. ASSUME NEW q \in Submission, NEW z \in Submission,
               sub'[q].state # "none", sub'[z].state # "none", RunOf(q) = RunOf(z)
        PROVE  q = z
    <3>1. CASE q # s /\ z # s
      BY <1>7, <2>4, <3>1 DEF WInv, RowsFit
    <3>2. CASE q = s \/ z = s
      BY <1>5, <1>7, <2>4, <3>2 DEF Unsubmitted
    <3> QED
      BY <3>1, <3>2
  <2>5. ASSUME NEW q \in Run, run'[q].state = "waiting_provider"
        PROVE  \E z \in Submission : sub'[z].state \in Pollable /\ RunOf(z) = q
    <3>1. run[q].state = "waiting_provider"
      BY <1>4, <2>5 DEF Quiet
    <3>2. PICK z \in Submission : sub[z].state \in Pollable /\ RunOf(z) = q
      BY <3>1 DEF WInv, RowsFit
    <3>3. z # s
      BY <1>3, <3>2
    <3> QED
      BY <1>7, <3>2, <3>3
  <2>6. \A q \in Submission : RunOf(q)' = RunOf(q) /\ res'[q] = res[q]
    BY <1>1 DEF RunOf
  <2> QED
    BY <2>1, <2>3, <2>4, <2>5, <2>6 DEF RowsFit
<1>10. Fits(wk[t], held[t])'
  BY <1>1, <1>2, <1>4, <1>8, OwnFits DEF s, r
<1>11. \A q \in Submission : sub'[q].state # "none" =>
         /\ res[q].state # "none"
         /\ sub[q].state # "none" \/ run'[res[q].run].version > run[res[q].run].version
  BY <1>3, <1>4, <1>5, <1>7, ReservedFirst DEF RunOf
<1>12. \A x \in Task : Fits(wk[x], held[x])'
  BY <1>1, <1>4, <1>8, <1>10, <1>11, OthersFit
<1> QED
  BY <1>9, <1>12 DEF RowsKept

\* Acceptance and close_ambiguity change the submission and its run together.
LEMMA EndSubmitKeepsRows ==
  ASSUME IInv, BInv, WInv, NEW t \in Task, NEW e \in Reading,
         CloseAmbiguity(t, e) \/ \E window \in 1..ResponseWindow : Accept(t, e, window),
         \A x \in Task : x # t => held'[x] = held[x]
  PROVE  RowsKept
<1> DEFINE s == wk[t].sub
           r == held[t].run
<1>1. /\ wk[t].pc \in {"acked", "ambiguous"} /\ sub[s].state = "prepared"
      /\ MyRow(t).state = "running" /\ Fenced(t, e) /\ UNCHANGED res
  BY DEF CloseAmbiguity, Accept, AcceptBackground, Finish, At, SubOf
<1>2. wk[t].pc \in Handling
  BY <1>1 DEF Handling
<1>3. /\ s \in Submission /\ res[s].state # "none" /\ sub[s] \in SubmissionRow
  BY <1>2, Mine DEF SubOf, Knows
<1>4. RunOf(s) = r /\ res[s].gen = held[t].gen
  BY <1>2 DEF WInv, Fits, RunOf
<1>5. MyRow(t) \in Row /\ RowInv(MyRow(t)) /\ r \in Run /\ MyRow(t).state \in LeasedStates
  BY <1>1, FencedFacts
<1>6. \E new \in Row, u \in SubmissionRow :
        /\ new.version = MyRow(t).version /\ new.gen = MyRow(t).gen
        /\ new.ckpt = MyRow(t).ckpt /\ new.wait = None
        /\ GiveUp(t, new)
        /\ sub' = [sub EXCEPT ![s] = u]
        /\ \/ new.state = "waiting_provider" /\ u.state = "waiting_provider"
           \/ new.state = "recovery_required" /\ u.state = "recovery_required"
  <2>1. CASE CloseAmbiguity(t, e)
    <3> DEFINE new == [Released(MyRow(t)) EXCEPT !.state = "recovery_required", !.err = "other"]
               u == EndedRow(sub[s], "recovery_required")
    <3>1. GiveUp(t, new) /\ sub' = [sub EXCEPT ![s] = u]
      BY <2>1 DEF CloseAmbiguity, Finish, Conclude, SubOf
    <3>2. new \in Row
      BY <1>5, FinishInv DEF CompletionStates, RowInv
    <3>3. /\ new.state = "recovery_required" /\ new.version = MyRow(t).version
          /\ new.gen = MyRow(t).gen /\ new.ckpt = MyRow(t).ckpt /\ new.wait = None
      BY <1>5 DEF Released, Row
    <3>4. u \in SubmissionRow /\ u.state = "recovery_required"
      BY <1>3, EndedTyped DEF SubmissionStates
    <3> HIDE DEF new, u
    <3> QED
      BY <3>1, <3>2, <3>3, <3>4
  <2>2. CASE \E window \in 1..ResponseWindow : Accept(t, e, window)
    <3>1. PICK window \in 1..ResponseWindow : Accept(t, e, window)
      BY <2>2
    <3> DEFINE new == [Released(MyRow(t)) EXCEPT !.state = "waiting_provider", !.err = None]
               u == AcceptedRow(sub[s], e, window)
    <3>2. GiveUp(t, new) /\ sub' = [sub EXCEPT ![s] = u]
      BY <3>1 DEF Accept, AcceptBackground, SubOf
    <3>3. new \in Row
      BY <1>1, <1>5, AcceptBackgroundInv DEF RowInv
    <3>4. /\ new.state = "waiting_provider" /\ new.version = MyRow(t).version
          /\ new.gen = MyRow(t).gen /\ new.ckpt = MyRow(t).ckpt /\ new.wait = None
      BY <1>5 DEF Released, Row
    <3>5. u \in SubmissionRow /\ u.state = "waiting_provider"
      BY <1>3, AcceptedTyped DEF Reading
    <3> HIDE DEF new, u
    <3> QED
      BY <3>2, <3>3, <3>4, <3>5
  <2> QED
    BY <2>1, <2>2
<1>7. PICK new \in Row, u \in SubmissionRow :
        /\ new.version = MyRow(t).version /\ new.gen = MyRow(t).gen
        /\ new.ckpt = MyRow(t).ckpt /\ new.wait = None
        /\ GiveUp(t, new)
        /\ sub' = [sub EXCEPT ![s] = u]
        /\ \/ new.state = "waiting_provider" /\ u.state = "waiting_provider"
           \/ new.state = "recovery_required" /\ u.state = "recovery_required"
  BY <1>6
<1>8. /\ run' = [run EXCEPT ![r] = Bumped(new)]
      /\ MyRow(t) = run[r] /\ new.version = run[r].version
      /\ held[t].gen = run[r].gen
  BY <1>1, <1>7, FencedRow
<1>9. /\ sub'[s] = u /\ \A q \in Submission : q # s => sub'[q] = sub[q]
  BY <1>3, <1>7 DEF BInv, Typed
<1>10. Fits(wk[t], held[t])'
  <2>1. held'[t] = NoLease \/ held'[t] = held[t]
    BY <1>7 DEF GiveUp, IInv, HeldInv
  <2>2. wk[t] \in TaskState /\ wk \in [Task -> TaskState]
    BY DEF BInv, Typed
  <2>3. CASE held'[t] = NoLease
    <3>1. wk'[t].pc = "idle"
      BY <2>2, <2>3 DEF CloseAmbiguity, Accept, Idle
    <3> QED
      BY <3>1 DEF Fits, Handling
  <2>4. CASE held'[t] # NoLease
    <3>1. held'[t] = held[t] /\ wk'[t].pc \in {"lost", "ambiguous"} /\ wk'[t].sub = wk[t].sub
      BY <2>1, <2>2, <2>4 DEF CloseAmbiguity, Accept, TaskState
    <3> QED
      BY <1>1, <1>2, <3>1, OwnFits
  <2> QED
    BY <2>3, <2>4
<1>11. \A x \in Task : x # t => wk'[x] = wk[x]
  <2>1. \E w : wk' = [wk EXCEPT ![t] = w]
    BY DEF CloseAmbiguity, Accept
  <2> QED
    BY <2>1 DEF BInv, Typed
<1> HIDE DEF s, r
<1>12. run[r].ckpt = None /\ run[r].state = "running"
  BY <1>1, <1>5, <1>8, PlainRow
<1>13. /\ \A q \in Run : Advances(q)
       /\ \A q \in Run : q # r => run'[q] = run[q]
       /\ run'[r].state = new.state /\ run'[r].gen = new.gen
       /\ run'[r].ckpt = new.ckpt /\ run'[r].wait = new.wait
  BY ZenonT(30), <1>5, <1>8, WrittenRow
<1>14. \A q \in Run : Plain(run'[q])
  <2>1. run[r].ckpt = None /\ new.ckpt = run[r].ckpt /\ new.state # "completed"
    BY <1>7, <1>8, <1>12
  <2>2. Plain(run'[r])
    BY <1>13, <2>1 DEF Plain
  <2>3. \A q \in Run : Plain(run[q])
    BY DEF WInv, RowsFit
  <2> QED
    BY <1>13, <2>2, <2>3
<1>15. Linked(res[s], sub'[s], run'[RunOf(s)])
  BY <1>4, <1>7, <1>8, <1>9, <1>13 DEF Linked
<1>16. RowsFit'
  <2>1. /\ {s} \in SUBSET Submission
        /\ \A q \in {s} : /\ sub[q].state # "none" /\ sub'[q].state # "none"
                          /\ Linked(res[q], sub'[q], run'[RunOf(q)])
                          /\ run'[RunOf(q)].state = "waiting_provider" =>
                               sub'[q].state \in Pollable
    BY <1>1, <1>3, <1>4, <1>7, <1>9, <1>13, <1>15 DEF s
  <2>2. \A q \in Submission \ {s} : sub'[q].state = sub[q].state
    BY <1>9
  <2>3. \A q \in Run : (\A z \in {s} : RunOf(z) # q) => run'[q] = run[q]
    BY <1>4, <1>13
  <2> QED
    BY <1>1, <1>14, <2>1, <2>2, <2>3, JointRows
<1>17. \A q \in Submission : sub'[q].state # "none" =>
         res[q].state # "none" /\ sub[q].state # "none"
  BY <1>1, <1>3, <1>9, ReservedFirst DEF s
<1>18. \A x \in Task : Fits(wk[x], held[x])'
  BY <1>1, <1>10, <1>11, <1>13, <1>17, OthersFit
<1> QED
  BY <1>16, <1>18 DEF RowsKept

\* Turns closed for an operator, with their runs.
LEMMA CloseKeepsRows ==
  ASSUME IInv, BInv, WInv, NEW B \in SUBSET Submission, NEW q, CloseRecovery(B, q),
         \A s \in B : sub[s].state \in Pollable,
         UNCHANGED <<wk, res>>
  PROVE  RowsKept
<1> DEFINE X == {RunOf(s) : s \in B}
<1>1. /\ \A r \in Run : run'[r] = IF r \in X THEN Bumped(ParkedRowClosed(run[r])) ELSE run[r]
      /\ \A r \in X : run[r].state = "waiting_provider"
      /\ UNCHANGED held
  BY DEF CloseRecovery, CloseBackgroundRecovery
<1>2. /\ \A s \in Submission : sub'[s] =
           IF s \in B THEN EndedRow(sub[s], "recovery_required") ELSE sub[s]
  BY DEF CloseRecovery
<1>3. \A s \in B : /\ s \in Submission /\ sub'[s].state = "recovery_required"
                   /\ sub[s].state # "none" /\ RunOf(s) \in Run /\ RunOf(s) \in X
  <2>1. "recovery_required" \in SubmissionStates /\ \A s \in B : sub[s] \in SubmissionRow
    BY DEF SubmissionStates, BInv, Typed
  <2> QED
    BY <1>2, <2>1, EndedTyped, RowFacts
<1> HIDE DEF X
<1>4. ASSUME NEW r \in Run, r \in X
      PROVE  /\ run'[r].version > run[r].version /\ run'[r].state = "recovery_required"
             /\ run'[r].gen = run[r].gen /\ run'[r].ckpt = None
  <2>1. /\ run[r] \in Row /\ RowInv(run[r]) /\ run[r].state = "waiting_provider"
        /\ run[r].version \in Nat
    BY <1>1, <1>4 DEF IInv, RowInv, Row
  <2>2. run[r].ckpt = None
    BY <2>1, PlainRow
  <2> DEFINE new == Bumped(ParkedRowClosed(run[r]))
  <2>3. /\ new.version = run[r].version + 1 /\ new.state = "recovery_required"
        /\ new.gen = run[r].gen /\ new.ckpt = run[r].ckpt
    BY <2>1 DEF Bumped, ParkedRowClosed, Row
  <2>4. run'[r] = new
    BY <1>1, <1>4
  <2> HIDE DEF new
  <2> QED
    BY <2>1, <2>2, <2>3, <2>4
<1>5. \A r \in Run : Advances(r)
  BY <1>1, <1>4 DEF Advances
<1>6. \A r \in Run : Plain(run'[r])
  BY <1>1, <1>4 DEF WInv, RowsFit, Plain
<1>7. ASSUME NEW s \in B
      PROVE  /\ sub[s].state # "none" /\ sub'[s].state # "none"
             /\ Linked(res[s], sub'[s], run'[RunOf(s)])
             /\ run'[RunOf(s)].state = "waiting_provider" => sub'[s].state \in Pollable
  <2>1. Linked(res[s], sub[s], run[RunOf(s)])
    BY <1>3, RowFacts
  <2> QED
    BY <1>3, <1>4, <2>1 DEF Linked
<1>8. \A s \in Submission \ B : sub'[s].state = sub[s].state
  BY <1>2
<1>9. \A r \in Run : (\A s \in B : RunOf(s) # r) => run'[r] = run[r]
  BY <1>1 DEF X
<1>10. RowsFit'
  BY <1>6, <1>7, <1>8, <1>9, JointRows
<1>11. \A s \in Submission : sub'[s].state # "none" =>
         res[s].state # "none" /\ sub[s].state # "none"
  BY <1>3, <1>8, ReservedFirst
<1>12. \A x \in Task : Fits(wk[x], held[x])'
  BY <1>1, <1>5, <1>11, OthersFit
<1> QED
  BY <1>10, <1>12 DEF RowsKept

\* An answered turn, with its run.
LEMMA AnswerKeepsRows ==
  ASSUME IInv, BInv, WInv, NEW s \in Submission, sub[s].state \in Pollable,
         NEW status \in Status, NEW q, CommitAnswer(s, status, q), UNCHANGED wk
  PROVE  RowsKept
<1> DEFINE r == RunOf(s)
           final == FinalOf(status)
           new == [run[r] EXCEPT
                     !.state = final,
                     !.err = IF final = "completed" THEN None ELSE "other",
                     !.ckpt = IF final = "completed"
                              THEN [gen |-> run[r].attempt, kind |-> FinalKind] ELSE None]
           u == EndedRow(sub[s], final)
<1>1. /\ SetReservation(s, "committed") /\ run[r].state = "waiting_provider"
      /\ run' = [run EXCEPT ![r] = Bumped(new)] /\ UNCHANGED held
      /\ sub' = [sub EXCEPT ![s] = u]
  BY DEF CommitAnswer, CommitBackgroundTerminal
<1>2. /\ r \in Run /\ Linked(res[s], sub[s], run[r]) /\ sub[s] \in SubmissionRow
      /\ sub[s].state # "none"
  BY RowFacts DEF BInv, Typed
<1>3. RowInv(run[r]) /\ run[r] \in Row /\ run[r].attempt = run[r].gen
  BY <1>1, <1>2 DEF IInv, RowInv, WellFormed
<1>4. final \in {"completed", "failed", "cancelled"} /\ final \in Terminal
  BY DEF FinalOf, ProviderStatuses, Terminal
<1> HIDE DEF final
<1>5. new \in Row
  BY <1>1, <1>3, <1>4, CommitBackgroundInv DEF RowInv
<1>6. /\ new.state = final /\ new.version = run[r].version
      /\ new.gen = run[r].gen /\ new.attempt = run[r].attempt
      /\ new.ckpt = IF final = "completed"
                    THEN [gen |-> run[r].attempt, kind |-> FinalKind] ELSE None
  BY <1>3 DEF Row
<1>7. u.state = final
  BY <1>2 DEF EndedRow, SubmissionRow
<1> HIDE DEF new, u, r
<1>8. sub'[s] = u /\ \A z \in Submission : z # s => sub'[z] = sub[z]
  BY <1>1 DEF BInv, Typed
<1>9. \A z \in Submission : res'[z].run = res[z].run /\ res'[z].gen = res[z].gen
  BY <1>1, SameAttempt
<1>10. /\ \A z \in Run : Advances(z)
       /\ \A z \in Run : z # r => run'[z] = run[z]
       /\ run'[r].state = new.state /\ run'[r].gen = new.gen
       /\ run'[r].attempt = new.attempt /\ run'[r].ckpt = new.ckpt
  BY ZenonT(30), <1>1, <1>2, <1>5, <1>6, WrittenRow
<1>11. \A z \in Run : Plain(run'[z])
  <2>1. Plain(run'[r])
    BY <1>3, <1>6, <1>10 DEF Plain
  <2> QED
    BY <1>10, <2>1 DEF WInv, RowsFit
<1>12. /\ sub'[s].state # "none" /\ run'[r].state # "waiting_provider"
       /\ Linked(res[s], sub'[s], run'[r])
  <2>1. run'[r].gen = res[s].gen /\ run'[r].attempt = res[s].gen /\ run'[r].state = final
    BY <1>2, <1>3, <1>6, <1>10 DEF Linked
  <2> QED
    BY <1>4, <1>7, <1>8, <2>1 DEF Linked
<1>13. RowsFit'
  <2>1. /\ {s} \in SUBSET Submission
        /\ \A z \in {s} : /\ sub[z].state # "none" /\ sub'[z].state # "none"
                          /\ Linked(res[z], sub'[z], run'[RunOf(z)])
                          /\ run'[RunOf(z)].state = "waiting_provider" =>
                               sub'[z].state \in Pollable
    BY <1>2, <1>12 DEF r
  <2>2. \A z \in Submission \ {s} : sub'[z].state = sub[z].state
    BY <1>8
  <2>3. \A z \in Run : (\A x \in {s} : RunOf(x) # z) => run'[z] = run[z]
    BY <1>10 DEF r
  <2> QED
    BY <1>9, <1>11, <2>1, <2>2, <2>3, JointRows
<1>14. \A z \in Submission : sub'[z].state # "none" =>
         res[z].state # "none" /\ sub[z].state # "none"
  BY <1>2, <1>8, ReservedFirst
<1>15. \A x \in Task : Fits(wk[x], held[x])'
  BY <1>1, <1>9, <1>10, <1>14, OthersFit
<1> QED
  BY <1>13, <1>15 DEF RowsKept

\* A step that leaves runs and tasks alone.
LEMMA AsideKeepsRows ==
  ASSUME IInv, BInv, WInv, UNCHANGED <<run, held, wk, res>>,
         \A s \in Submission :
           \/ sub'[s].state = sub[s].state
           \/ sub'[s].state \in Pollable /\ sub[s].state \in Pollable
  PROVE  RowsKept
<1>1. \A r \in Run : Harmless(r) /\ Advances(r)
  BY DEF Harmless, Quiet, Advances
<1> QED
  BY <1>1, HarmlessKeepsRows

LEMMA ReconcileKeepsRows ==
  ASSUME IInv, BInv, WInv, NEW p \in Reconciler, NEW e \in Reading, ReconcileStep(p, e)
  PROVE  RowsKept
<1>1. CASE ClaimSubmission(p, e)
  <2>1. PICK s \in Candidates(e) :
          WriteClaim(p, s, ClaimedSubmission(sub[s], Expiry(sub[s], e)))
    BY <1>1 DEF ClaimSubmission
  <2>2. s \in Submission /\ sub[s].state \in Pollable /\ sub[s] \in SubmissionRow
    BY DEF Candidates, BInv, Typed
  <2>3. /\ UNCHANGED <<run, held, wk, res>>
        /\ sub' = [sub EXCEPT ![s] =
             [ClaimedSubmission(sub[s], Expiry(sub[s], e)) EXCEPT !.version = @ + 1]]
    BY <1>1, <2>1 DEF ClaimSubmission, WriteClaim
  <2>4. /\ sub'[s].state = "reconciling"
        /\ \A z \in Submission : z # s => sub'[z] = sub[z]
    BY <2>2, <2>3 DEF ClaimedSubmission, BInv, Typed, SubmissionRow
  <2> QED
    BY <2>2, <2>3, <2>4, AsideKeepsRows
<1>2. CASE HeartbeatClaim(p, e) \/ BindRetrieval(p, e)
  <2> DEFINE s == rc[p].sub
  <2>1. UNCHANGED <<run, held, wk, res>> /\ Current(p, e)
    BY <1>2 DEF HeartbeatClaim, BindRetrieval
  <2>2. s \in Submission /\ sub[s] \in SubmissionRow
    BY <2>1, ClaimedTurn DEF BInv, Typed
  <2>3. \E row : row.state = sub[s].state /\ sub' = [sub EXCEPT ![s] = row]
    <3>1. CASE HeartbeatClaim(p, e)
      <4> DEFINE row == [[sub[s] EXCEPT !.next = Expiry(sub[s], e)] EXCEPT !.version = @ + 1]
      <4>1. sub' = [sub EXCEPT ![s] = row]
        BY <3>1 DEF HeartbeatClaim, WriteClaim
      <4>2. row.state = sub[s].state
        BY <2>2 DEF SubmissionRow
      <4> HIDE DEF row
      <4> QED
        BY <4>1, <4>2
    <3>2. CASE BindRetrieval(p, e)
      <4> DEFINE row == [[sub[s] EXCEPT !.marker = TRUE] EXCEPT !.version = @ + 1]
      <4>1. sub' = [sub EXCEPT ![s] = row]
        BY <3>2 DEF BindRetrieval, WriteClaim
      <4>2. row.state = sub[s].state
        BY <2>2 DEF SubmissionRow
      <4> HIDE DEF row
      <4> QED
        BY <4>1, <4>2
    <3> QED
      BY <1>2, <3>1, <3>2
  <2>4. \A z \in Submission : sub'[z].state = sub[z].state
    BY <2>2, <2>3 DEF BInv, Typed
  <2> QED
    BY <2>1, <2>4, AsideKeepsRows
<1>3. CASE \E delay : Current(p, e) /\ HandBack(p, e, delay)
  <2>1. PICK delay : Current(p, e) /\ HandBack(p, e, delay)
    BY <1>3
  <2> DEFINE s == rc[p].sub
  <2>2. s \in Submission /\ sub[s].state \in Pollable /\ sub[s] \in SubmissionRow
    BY <2>1, ClaimedTurn DEF BInv, Typed
  <2>3. UNCHANGED <<wk, res>>
    BY <2>1 DEF HandBack
  <2>4. CASE CloseRecovery({s}, rcpt)
    <3>1. {s} \in SUBSET Submission /\ \A z \in {s} : sub[z].state \in Pollable
      BY <2>2
    <3> QED
      BY <2>3, <2>4, <3>1, CloseKeepsRows
  <2>5. CASE /\ sub' = [sub EXCEPT ![s] = ReleasedRow(sub[s], delay + e)]
             /\ UNCHANGED <<run, held, outcomes, rcpt>>
    <3>1. /\ sub'[s].state = "waiting_provider"
          /\ \A z \in Submission : z # s => sub'[z] = sub[z]
      BY <2>2, <2>5 DEF ReleasedRow, BInv, Typed, SubmissionRow
    <3> QED
      BY <2>2, <2>3, <2>5, <3>1, AsideKeepsRows
  <2> QED
    BY <2>1, <2>4, <2>5 DEF HandBack
<1>4. CASE RejectRetrieval(p, e) \/ CommitTerminal(p, e)
  <2> DEFINE s == rc[p].sub
             q == Match(rcpt[s])
  <2>1. Current(p, e) /\ UNCHANGED wk
    BY <1>4 DEF RejectRetrieval, CommitTerminal
  <2>2. s \in Submission /\ sub[s].state \in Pollable
    BY <2>1, ClaimedTurn
  <2>3. CASE \E all : CloseRecovery({s}, all) /\ UNCHANGED res
    <3>1. {s} \in SUBSET Submission /\ \A z \in {s} : sub[z].state \in Pollable
      BY <2>2
    <3> QED
      BY <2>1, <2>3, <3>1, CloseKeepsRows
  <2>4. CASE rc[p].obs \in Status /\ CommitAnswer(s, rc[p].obs, q)
    BY <2>1, <2>2, <2>4, AnswerKeepsRows
  <2> QED
    BY <1>4, <2>3, <2>4 DEF RejectRetrieval, CommitTerminal
<1> QED
  BY <1>1, <1>2, <1>3, <1>4 DEF ReconcileStep, ReleaseBeforeRetrieval, ReleaseNonterminal

LEMMA StepKeepsRows ==
  ASSUME IInv, BInv, WInv, [BNext]_bvars
  PROVE  RowsKept
<1>1. ASSUME NEW t \in Task, NEW e \in Reading, SubmitStep(t, e)
      PROVE  RowsKept
  <2>1. \A x \in Task : x # t => held'[x] = held[x]
    BY <1>1, Elsewhere
  <2> QED
    BY <1>1, <2>1, OutsideKeepsRows, ReserveKeepsRows, CapacityKeepsRows, SendKeepsRows,
       PrepareKeepsRows, EndSubmitKeepsRows
    DEF SubmitStep
<1>2. ASSUME NEW t \in Task, CreateStep(t)
      PROVE  RowsKept
  <2>1. \A x \in Task : x # t => held'[x] = held[x]
    BY <1>2, Elsewhere
  <2>2. 0 \in Reading
    BY LimitAssumption DEF Reading
  <2> QED
    BY <1>2, <2>1, <2>2, OutsideKeepsRows, SendKeepsRows DEF CreateStep
<1>3. ASSUME NEW p \in Reconciler, NEW e \in Reading, ReconcileStep(p, e)
      PROVE  RowsKept
  BY <1>3, ReconcileKeepsRows
<1>4. CASE \/ \E p \in Reconciler : Retrieve(p) \/ CommitAgain(p) \/ DropClaim(p)
           \/ \E s \in Submission : ProviderStep(s)
           \/ \E r \in Run : ToggleSession(r)
           \/ UNCHANGED bvars
  <2>1. UNCHANGED <<run, held, wk, res, sub>>
    <3>1. CASE \E p \in Reconciler : Retrieve(p) \/ CommitAgain(p) \/ DropClaim(p)
      BY <3>1 DEF Retrieve, CommitAgain, DropClaim
    <3>2. CASE \/ \E s \in Submission : ProviderStep(s)
               \/ \E r \in Run : ToggleSession(r)
               \/ UNCHANGED bvars
      BY <3>2 DEF ProviderStep, Respond, RecordReceipt, ToggleSession, bvars
    <3> QED
      BY <1>4, <3>1, <3>2
  <2> QED
    BY <2>1, AsideKeepsRows
<1>5. CASE \E e \in Reading : CloseExpired(e)
  <2>1. PICK e \in Reading : \E B \in Batches(e) : CloseRecovery(B, rcpt)
    BY <1>5 DEF CloseExpired
  <2>2. PICK B \in Batches(e) : CloseRecovery(B, rcpt)
    BY <2>1
  <2>3. B \in SUBSET Submission /\ \A s \in B : sub[s].state \in Pollable
    BY DEF Batches, Overdue
  <2>4. UNCHANGED <<wk, res>>
    BY <1>5 DEF CloseExpired
  <2> QED
    BY <2>2, <2>3, <2>4, CloseKeepsRows
<1>6. CASE \E e \in Reading : RecoverLeases(e)
  <2>1. PICK e \in Reading : RecoverExpiredLeases(e) /\ UNCHANGED others
    BY <1>6 DEF RecoverLeases
  <2>2. \A r \in Run : Harmless(r) /\ Advances(r)
    BY <2>1, RecoveredRows
  <2>3. UNCHANGED <<held, wk, res, sub>>
    BY <2>1 DEF RecoverExpiredLeases, others
  <2> QED
    BY <2>2, <2>3, HarmlessKeepsRows
<1>7. CASE Elapse
  <2>1. /\ UNCHANGED <<held, wk, res>>
        /\ run' = [r \in Run |-> [run[r] EXCEPT !.left = Later(@), !.wait = Later(@)]]
        /\ sub' = [s \in Submission |-> [sub[s] EXCEPT !.next = Later(@), !.dl = Later(@)]]
    BY <1>7 DEF Elapse, Tick
  <2>2. ASSUME NEW r \in Run
        PROVE  Harmless(r) /\ Advances(r)
    <3> DEFINE new == [run[r] EXCEPT !.left = Later(@), !.wait = Later(@)]
    <3>1. /\ new.state = run[r].state /\ new.gen = run[r].gen
          /\ new.attempt = run[r].attempt /\ new.owner = run[r].owner
          /\ new.version = run[r].version /\ new.retry = run[r].retry
          /\ new.ckpt = run[r].ckpt /\ new.wait = Later(run[r].wait)
      BY DEF IInv, Row
    <3>2. run'[r] = new
      BY <2>1
    <3>3. Later(None) = None
      BY DEF Later
    <3> HIDE DEF new
    <3> QED
      BY <3>1, <3>2, <3>3 DEF Harmless, Quiet, Advances, LeaseOf
  <2>3. \A s \in Submission : sub'[s].state = sub[s].state
    <3>1. \A s \in Submission : sub[s] \in SubmissionRow
      BY DEF BInv, Typed
    <3>2. \A s \in Submission : sub'[s] = [sub[s] EXCEPT !.next = Later(@), !.dl = Later(@)]
      BY <2>1
    <3> QED
      BY <3>1, <3>2 DEF SubmissionRow
  <2> QED
    BY <2>1, <2>2, <2>3, HarmlessKeepsRows
<1> QED
  BY <1>1, <1>2, <1>3, <1>4, <1>5, <1>6, <1>7 DEF BNext
---------------------------------------------------------------------------
(***************************************************************************)
(* Invariance, and what follows                                            *)
(***************************************************************************)

LEMMA InitWInv == BInit => WInv
<1> SUFFICES ASSUME BInit PROVE WInv
  OBVIOUS
<1>1. /\ \A s \in Submission : /\ sub[s] = NoSubmission /\ res[s] = NoReservation
                               /\ resp[s] = "none" /\ sent[s] = 0 /\ posted[s] = 0
                               /\ rcpt[s] = << >>
      /\ \A t \in Task : wk[t].pc = "idle"
      /\ \A p \in Reconciler : rc[p] = NoClaim
      /\ \A r \in Run : run[r] = QueuedRow
  BY DEF BInit, Init, Idle
<1>2. /\ active \in [Run -> BOOLEAN] /\ posted \in [Submission -> Nat]
      /\ rcpt \in [Submission -> Receipts]
  BY DEF BInit, Receipts
<1>3. RowsFit
  <2>1. \A r \in Run : Plain(run[r]) /\ run[r].state # "waiting_provider"
    BY <1>1 DEF Plain, QueuedRow
  <2>2. \A s \in Submission : sub[s].state = "none"
    BY <1>1 DEF NoSubmission
  <2> QED
    BY <2>1, <2>2 DEF RowsFit, Linked
<1>4. \A t \in Task : Fits(wk[t], held[t])
  BY <1>1 DEF Fits, Handling
<1>5. ASSUME NEW s \in Submission
      PROVE  TurnGood(s)
  <2>1. Dated(sub[s])
    BY <1>1 DEF Dated, NoSubmission
  <2>2. Charged(res[s], sub[s], sent[s], resp[s], posted[s])
    BY <1>1 DEF Charged, NoSubmission, NoReservation
  <2>3. ReceiptGood(rcpt[s], sub[s], resp[s])
    BY <1>1 DEF ReceiptGood
  <2> QED
    BY <2>1, <2>2, <2>3 DEF TurnGood
<1>6. ClaimsFit
  BY <1>1 DEF ClaimsFit
<1> QED
  BY <1>2, <1>3, <1>4, <1>5, <1>6 DEF WInv

LEMMA StepWInv == IInv /\ BInv /\ WInv /\ [BNext]_bvars => WInv'
<1> SUFFICES ASSUME IInv, BInv, WInv, [BNext]_bvars PROVE WInv'
  OBVIOUS
<1>1. BInv'
  BY StepBInv
<1>2. /\ \A s \in Submission : TurnGood(s)'
      /\ rcpt' \in [Submission -> Receipts] /\ posted' \in [Submission -> Nat]
  BY StepKeepsTurns DEF TurnKept
<1>3. ClaimsFit'
  BY <1>1, StepKeepsClaims
<1>4. RowsFit' /\ \A x \in Task : Fits(wk[x], held[x])'
  BY StepKeepsRows DEF RowsKept
<1>5. active' \in [Run -> BOOLEAN]
  <2>1. CASE \E r \in Run : ToggleSession(r)
    <3>1. PICK r \in Run : active' = [active EXCEPT ![r] = ~@]
      BY <2>1 DEF ToggleSession
    <3>2. active \in [Run -> BOOLEAN]
      BY DEF WInv
    <3> QED
      BY <3>1, <3>2, ZenonT(60)
  <2>2. CASE \/ \E t \in Task, e \in Reading : SubmitStep(t, e)
             \/ \E t \in Task : CreateStep(t)
    <3>1. UNCHANGED active
      BY <2>2 DEF SubmitStep, CreateStep, Claim, StartRun, GiveUpRun, Reserve, Refuse,
         Prepare, MarkUncertain, ReleaseUnmarked, SubmitHeartbeat, Accept, CloseAmbiguity,
         SendCreate, Acknowledged, SubmitFails, Drop
    <3> QED
      BY <3>1 DEF WInv
  <2>3. CASE \E p \in Reconciler, e \in Reading : ReconcileStep(p, e)
    <3>1. UNCHANGED active
      BY SMTT(30), <2>3 DEF ReconcileStep, ClaimSubmission, HeartbeatClaim, BindRetrieval,
         ReleaseBeforeRetrieval, ReleaseNonterminal, HandBack, RejectRetrieval, CommitTerminal
    <3> QED
      BY <3>1 DEF WInv
  <2>4. CASE \/ \E p \in Reconciler : Retrieve(p) \/ CommitAgain(p) \/ DropClaim(p)
             \/ \E s \in Submission : ProviderStep(s)
             \/ \E e \in Reading : CloseExpired(e) \/ RecoverLeases(e)
             \/ Elapse
             \/ UNCHANGED bvars
    <3>1. UNCHANGED active
      BY <2>4 DEF Retrieve, CommitAgain, DropClaim, ProviderStep, Respond, RecordReceipt,
         CloseExpired, RecoverLeases, others, Elapse, bvars
    <3> QED
      BY <3>1 DEF WInv
  <2> QED
    BY <2>1, <2>2, <2>3, <2>4 DEF BNext
<1> QED
  BY <1>2, <1>3, <1>4, <1>5 DEF WInv

LEMMA TurnInvariance == BSpec => [](IInv /\ BInv /\ WInv)
<1>1. BInit => WInv
  BY InitWInv
<1>2. IInv /\ BInv /\ WInv /\ [BNext]_bvars => WInv'
  BY StepWInv
<1> QED
  BY <1>1, <1>2, BackgroundInvariance, PTL DEF BSpec

\* "The create request is never retried": of all reservations and attempts of a
\* run at most one is ever sent, and once.
THEOREM CreatesAreSentOnce == BSpec => []CreateSentOnce
<1>1. BInv /\ WInv => CreateSentOnce
  <2> SUFFICES ASSUME BInv, WInv, NEW s \in Submission, NEW q \in Submission
               PROVE  /\ sent[s] <= 1
                      /\ sent[s] > 0 /\ sent[q] > 0 /\ RunOf(s) = RunOf(q) => s = q
    BY DEF CreateSentOnce
  <2>1. /\ sent[s] <= 1 /\ (sent[s] > 0 => sub[s].state # "none")
        /\ (sent[q] > 0 => sub[q].state # "none")
    BY DEF WInv, TurnGood, Charged
  <2> QED
    BY <2>1 DEF WInv, RowsFit
<1> QED
  BY <1>1, TurnInvariance, PTL

\* The claim fence of the reconcilers.
THEOREM ClaimsAreExclusive == BSpec => []ClaimIsExclusive
<1>1. WInv => ClaimIsExclusive
  BY DEF WInv, ClaimsFit, ClaimIsExclusive, Shows
<1> QED
  BY <1>1, TurnInvariance, PTL

LEMMA AtMostOne ==
  ASSUME NEW X, \A i, j \in X : i = j
  PROVE  Cardinality(X) <= 1
<1>1. CASE X = {}
  BY <1>1, FS_EmptySet
<1>2. CASE X # {}
  <2>1. PICK i \in X : TRUE
    BY <1>2
  <2>2. X = {i}
    BY <2>1
  <2>3. Cardinality({i}) = 1
    BY FS_Singleton
  <2> QED
    BY <2>2, <2>3
<1> QED
  BY <1>1, <1>2

\* A turn is answered with what the provider answered, and at most one webhook
\* is taken for it.
THEOREM AnswersAreTrue == BSpec => []AnswerIsTrue
<1>1. BInv /\ WInv => AnswerIsTrue
  <2> SUFFICES ASSUME BInv, WInv, NEW s \in Submission
               PROVE  /\ sub[s].state \in Answered =>
                           resp[s] \in Status /\ sub[s].state = FinalOf(resp[s])
                      /\ \A i \in DOMAIN rcpt[s] :
                           /\ rcpt[s][i].state \in {"processed", "duplicate"} =>
                                sub[s].state \in Answered /\ rcpt[s][i].kind = resp[s]
                           /\ rcpt[s][i].state = "matched" => sub[s].state \in Pollable
                      /\ Cardinality(In(rcpt[s], "matched") \cup In(rcpt[s], "processed")) <= 1
    BY DEF AnswerIsTrue
  <2>1. /\ Charged(res[s], sub[s], sent[s], resp[s], posted[s])
        /\ ReceiptGood(rcpt[s], sub[s], resp[s])
    BY DEF WInv, TurnGood
  <2> DEFINE X == In(rcpt[s], "matched") \cup In(rcpt[s], "processed")
  <2>2. \A i, j \in X : i = j
    BY <2>1 DEF In, ReceiptGood
  <2>3. Cardinality(X) <= 1
    BY <2>2, AtMostOne
  <2> QED
    BY <2>1, <2>3 DEF Charged, ReceiptGood
<1> QED
  BY <1>1, TurnInvariance, PTL

\* The rows of runs, outcomes, reservations, submissions and messages fit
\* together at every moment: no reconciler finds a parked turn it must refuse,
\* and no answer is visible without its usage.
LEMMA ParkedRows ==
  ASSUME IInv, BInv, WInv, NEW s \in Submission, sub[s].state \in Pollable
  PROVE  Bound(s) /\ ValidSubmission(sub[s]) /\ sub[s].next <= sub[s].dl
<1> DEFINE r == RunOf(s)
<1>1. r \in Run /\ Linked(res[s], sub[s], run[r]) /\ sub[s].state # "none"
  BY RowFacts
<1>2. /\ run[r].state = "waiting_provider" /\ run[r].wait = None
      /\ run[r].gen = res[s].gen
  BY <1>1 DEF Linked
<1>3. RowInv(run[r]) /\ HistInv(run[r], outcomes[r]) /\ run[r] \in Row
  BY <1>1 DEF IInv, RowInv
<1>4. /\ run[r].attempt = run[r].gen /\ run[r].err = None
      /\ run[r].owner = None /\ run[r].left = None
  BY <1>2, <1>3 DEF RowInv, WellFormed, LeasedStates, WorkerStates
<1>5. run[r].ckpt = None
  BY <1>1, <1>2, PlainRow
<1>6. res[s].state = "uncertain"
  BY DEF BInv, TurnInv
<1>7. EndedAttempts(run[r]) = run[r].gen - 1 /\ run[r].gen \in Nat
  BY <1>2, <1>3 DEF EndedAttempts, ClaimableStates, SettledStates, Terminal, Row
<1>8. ~\E o \in outcomes[r] : o.gen = res[s].gen
  BY <1>2, <1>3, <1>7 DEF HistInv
<1>9. ValidSubmission(sub[s]) /\ sub[s].next <= sub[s].dl
  BY DEF WInv, TurnGood, Dated
<1> QED
  BY <1>2, <1>4, <1>5, <1>6, <1>8, <1>9 DEF Bound

LEMMA AnsweredRows ==
  ASSUME IInv, BInv, WInv, NEW s \in Submission, sub[s].state \in Answered
  PROVE  /\ RunOf(s) \in Run
         /\ run[RunOf(s)].state = sub[s].state /\ run[RunOf(s)].gen = res[s].gen
         /\ run[RunOf(s)].attempt = res[s].gen
         /\ \E o \in outcomes[RunOf(s)] :
              /\ {q \in outcomes[RunOf(s)] : q.gen = res[s].gen} = {o}
              /\ o.gen = res[s].gen /\ o.state = sub[s].state
<1> DEFINE r == RunOf(s)
<1>1. r \in Run /\ Linked(res[s], sub[s], run[r]) /\ sub[s].state # "none"
  BY RowFacts
<1>2. /\ run[r].state = sub[s].state /\ run[r].gen = res[s].gen
      /\ run[r].attempt = res[s].gen
  BY <1>1 DEF Linked
<1>3. /\ run[r] \in Row /\ PaidAttempts(run[r]) /\ HistInv(run[r], outcomes[r])
  BY <1>1 DEF IInv, RowInv
<1>4. run[r].gen \in 1..EndedAttempts(run[r])
  BY <1>2, <1>3
  DEF EndedAttempts, PaidAttempts, ClaimableStates, SettledStates, Terminal, Row
<1>5. PICK o \in outcomes[r] : o.gen = run[r].gen
  BY <1>3, <1>4 DEF HistInv
<1>6. o.state = sub[s].state
  BY <1>2, <1>3, <1>5 DEF HistInv
<1>7. {q \in outcomes[r] : q.gen = res[s].gen} = {o}
  BY <1>2, <1>3, <1>5 DEF HistInv
<1> QED
  BY <1>1, <1>2, <1>5, <1>6, <1>7

THEOREM TurnsAreWhole == BSpec => []TurnIsWhole
<1>1. IInv /\ BInv /\ WInv => BTypeOK
  BY DEF IInv, HeldInv, TypeOK, BInv, Typed, WInv, Receipts, BTypeOK
<1>2. IInv /\ BInv /\ WInv => ParkedIsWhole
  <2> SUFFICES ASSUME IInv, BInv, WInv PROVE ParkedIsWhole
    OBVIOUS
  <2>1. \A s \in Submission : sub[s].state \in Pollable =>
          Bound(s) /\ ValidSubmission(sub[s]) /\ sub[s].next <= sub[s].dl
    BY ParkedRows
  <2>2. ASSUME NEW r \in Run, run[r].state = "waiting_provider"
        PROVE  \E s \in Submission :
                 /\ sub[s].state \in Pollable /\ RunOf(s) = r
                 /\ \A q \in Submission :
                      sub[q].state \in Pollable /\ RunOf(q) = r => q = s
    <3>1. PICK s \in Submission : sub[s].state \in Pollable /\ RunOf(s) = r
      BY <2>2 DEF WInv, RowsFit
    <3>2. \A q \in Submission : sub[q].state \in Pollable /\ RunOf(q) = r => q = s
      BY <3>1 DEF WInv, RowsFit
    <3> QED
      BY <3>1, <3>2
  <2> QED
    BY <2>1, <2>2 DEF ParkedIsWhole
<1>3. IInv /\ BInv /\ WInv => SettledAsAWhole
  <2> SUFFICES ASSUME IInv, BInv, WInv, NEW s \in Submission
               PROVE  /\ posted[s] = IF sub[s].state = "completed" THEN 1 ELSE 0
                      /\ res[s].state = "committed" <=> sub[s].state \in Answered
                      /\ sub[s].state \in Answered =>
                           /\ run[RunOf(s)].state = sub[s].state
                           /\ \E o \in outcomes[RunOf(s)] :
                                o.gen = res[s].gen /\ o.state = sub[s].state
    BY DEF SettledAsAWhole
  <2>1. Charged(res[s], sub[s], sent[s], resp[s], posted[s])
    BY DEF WInv, TurnGood
  <2>2. sub[s].state \in Answered =>
          /\ run[RunOf(s)].state = sub[s].state
          /\ \E o \in outcomes[RunOf(s)] : o.gen = res[s].gen /\ o.state = sub[s].state
    BY AnsweredRows
  <2> QED
    BY <2>1, <2>2 DEF Charged
<1> QED
  BY <1>1, <1>2, <1>3, TurnInvariance, PTL DEF TurnIsWhole

\* A late reconciler is told that its observation is the stored answer, or is
\* refused after the deadline.
THEOREM LateComersAreHarmless == BSpec => LateComersChangeNothing
<1>1. IInv /\ BInv /\ WInv => RepeatedCommitIsKnown
  <2> SUFFICES ASSUME IInv, BInv, WInv, NEW p \in Reconciler, rc[p] # NoClaim,
                      rc[p].obs \in Status, sub[rc[p].sub].state \in Answered
               PROVE  AlreadyReconciled(rc[p].sub, rc[p].obs)
    BY DEF RepeatedCommitIsKnown
  <2> DEFINE s == rc[p].sub
             x == rc[p].obs
             r == RunOf(s)
  <2>1. s \in Submission /\ ClaimGood(rc[p], sub[s], resp[s])
    BY DEF BInv, Typed, Claims, WInv, ClaimsFit
  <2>2. x = resp[s]
    BY <2>1 DEF ClaimGood
  <2>3. /\ Dated(sub[s]) /\ Charged(res[s], sub[s], sent[s], resp[s], posted[s])
        /\ ReceiptGood(rcpt[s], sub[s], resp[s])
    BY <2>1 DEF WInv, TurnGood
  <2>4. /\ sub[s].state = FinalOf(x) /\ sub[s].next = None /\ sub[s].marker
        /\ res[s].state = "committed"
        /\ posted[s] = IF sub[s].state = "completed" THEN 1 ELSE 0
    BY <2>2, <2>3 DEF Charged, Dated
  <2>5. /\ r \in Run /\ run[r].state = sub[s].state /\ run[r].gen = res[s].gen
        /\ run[r].attempt = res[s].gen
        /\ \E o \in outcomes[r] :
             /\ {q \in outcomes[r] : q.gen = res[s].gen} = {o}
             /\ o.gen = res[s].gen /\ o.state = sub[s].state
    BY <2>1, AnsweredRows
  <2>6. Plain(run[r])
    BY <2>5 DEF WInv, RowsFit
  <2>7. x = "completed" <=> sub[s].state = "completed"
    BY <2>4 DEF FinalOf, ProviderStatuses
  <2>8. IF x = "completed" THEN OutputIsStored(s) ELSE run[r].ckpt = None
    BY <2>4, <2>5, <2>6, <2>7 DEF OutputIsStored, Plain
  <2> DEFINE X == In(rcpt[s], "processed")
  <2>9. \A i \in X : rcpt[s][i].kind = x
    BY <2>2, <2>3 DEF In, ReceiptGood
  <2>10. Cardinality(X) <= 1
    <3>1. \A i, j \in X : i = j
      BY <2>3 DEF In, ReceiptGood
    <3> QED
      BY <3>1, AtMostOne
  <2> QED
    BY <2>4, <2>5, <2>8, <2>9, <2>10 DEF AlreadyReconciled
<1>2. BInv /\ WInv /\ [BNext]_bvars =>
        [\A s \in Submission :
           /\ sub[s].state \in Pollable
           /\ sub[s].dl <= -ClockError
           /\ sub'[s].version # sub[s].version
           => sub'[s].state = "recovery_required"]_bvars
  BY StepKeepsTurns DEF TurnKept, Refused
<1> QED
  BY <1>1, <1>2, TurnInvariance, PTL
  DEF BSpec, LateComersChangeNothing, LateWorkIsRefused
===========================================================================
