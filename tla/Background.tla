---------------------------- MODULE Background ----------------------------
(***************************************************************************)
(* Background provider turns: the submission, reconciliation, retrieval    *)
(* and terminal services of src/orm_background.rs, and the webhook         *)
(* receipts of src/orm_webhooks.rs.                                        *)
(*                                                                         *)
(* A worker reserves capacity, binds a submission to its attempt, marks    *)
(* the capacity uncertain, sends the create request once, and parks the    *)
(* run without a lease.  Reconcilers then poll: claim the submission, bind *)
(* an egress decision, GET the response, and release the claim, commit the *)
(* terminal answer, or close the turn for an operator.  Verified webhooks  *)
(* arrive at any time and are only hints.                                  *)
(*                                                                         *)
(* The run table is that of RunLease, and so is the treatment of time.  A  *)
(* submission is named by the reservation it is bound to.                  *)
(***************************************************************************)
EXTENDS RunLease, Sequences, FiniteSetsExt

CONSTANTS
  Submission,        \* reservations, and the submissions bound to them
  Reconciler,        \* concurrent reconciliation tasks
  Status,            \* terminal statuses of the provider that may occur
  ResponseWindow,    \* AiOpenAiBackgroundReconciliationWindows
  ClaimTtl,          \* AiOpenAiBackgroundReconciliationLimits::lease_ttl
  MaxDelay,          \* ...::maximum_retry_delay
  MaxRetries,        \* ...::maximum_retries
  MaxScan,           \* ...::maximum_candidate_scan
  MaxDuplicates,     \* the 64 of close_duplicate_terminal_receipts
  MaxReceipts,       \* model bound: receipts per submission
  MaxClaimVersion    \* model bound: nothing is claimed past this row version

ProviderStatuses == {"completed", "failed", "incomplete", "cancelled"}

ASSUME BackgroundAssumption ==
  /\ Status \subseteq ProviderStatuses
  /\ ResponseWindow \in Nat \ {0} /\ ClaimTtl \in Nat \ {0}
  /\ MaxDelay \in Nat \ {0} /\ MaxRetries \in Nat
  /\ MaxScan \in Nat \ {0} /\ MaxDuplicates \in Nat
  /\ MaxReceipts \in Nat /\ MaxClaimVersion \in Nat
  /\ None \notin Submission
  /\ IsFiniteSet(Submission)

VARIABLES
  wk,      \* where each task is in submit, and the reservation it handles
  res,     \* budget reservations
  sub,     \* submission rows
  active,  \* whether the session of each run is active
  resp,    \* the response at the provider
  rcpt,    \* webhook receipts of each response, in the order they came in
  rc,      \* each reconciler's copy of its claim, and what it retrieved
  sent,    \* how often each create request was sent
  posted   \* assistant messages written for each submission

others == <<wk, res, sub, active, resp, rcpt, rc, sent, posted>>
bvars == <<run, held, outcomes, wk, res, sub, active, resp, rcpt, rc, sent, posted>>

PC == {"idle", "leased", "ready", "reserved", "unsure", "prepared", "unmarked",
       "send", "sent", "acked", "ambiguous", "lost"}

Idle == [pc |-> "idle", sub |-> None]

NoReservation == [state |-> "none", run |-> None, gen |-> 0]

\* The columns of AiProviderBackgroundSubmissionRecord that a guard reads.
\* next is reconciliation_next_attempt_at and, under a claim, the expiry of the
\* claim too; marker: retrieval_egress_decision_id is set.
NoSubmission == [state |-> "none", next |-> None, dl |-> None, rgen |-> 0,
                 retry |-> 0, marker |-> FALSE, version |-> 0]

Answered == {"completed", "failed", "cancelled"}
Pollable == {"waiting_provider", "reconciling"}
SubmissionStates ==
  {"none", "prepared", "recovery_required"} \cup Answered \cup Pollable

NoClaim == [sub |-> None]

\* AiOpenAiBackgroundReconciliationClaim.  The row version is compared with
\* everything else the claim copies, and decides.
ClaimOf(s, row) ==
  [sub |-> s, version |-> row.version, retry |-> row.retry,
   marker |-> row.marker, obs |-> "none"]

\* The writes of a submission row, each a compare-and-swap.
AcceptedRow(row, e, window) ==
  [row EXCEPT !.state = "waiting_provider", !.next = e, !.dl = window + e,
              !.version = @ + 1]
EndedRow(row, state) ==
  [row EXCEPT !.state = state, !.next = None, !.version = @ + 1]
ReleasedRow(row, next) ==
  [row EXCEPT !.state = "waiting_provider", !.next = next, !.retry = @ + 1,
              !.marker = FALSE, !.version = @ + 1]
ClaimedSubmission(row, next) ==
  [row EXCEPT !.state = "reconciling", !.next = next, !.rgen = @ + 1,
              !.marker = FALSE]

RunOf(s) == res[s].run

At(t, pcs) == wk[t].pc \in pcs
SubOf(t) == wk[t].sub

\* The task goes on at pc if the reply of its fenced write arrived, else at
\* other.
Goes(t, pc, other) ==
  wk' = [wk EXCEPT ![t].pc = IF held'[t] = held[t] THEN other ELSE pc]

Continues(t, pcs) == \E pc \in pcs : wk' = [wk EXCEPT ![t].pc = pc]

SetReservation(s, state) == res' = [res EXCEPT ![s].state = state]
---------------------------------------------------------------------------
(***************************************************************************)
(* A worker, up to the reservation                                         *)
(***************************************************************************)

Claim(t, w, e) ==
  /\ At(t, {"idle"})
  /\ ClaimNext(t, w, e)
  /\ wk' = IF held'[t] = NoLease THEN wk ELSE [wk EXCEPT ![t].pc = "leased"]
  /\ UNCHANGED <<res, sub, active, resp, rcpt, rc, sent, posted>>

StartRun(t, e) ==
  /\ At(t, {"leased"})
  /\ Start(t, e)
  /\ Goes(t, "ready", "lost")
  /\ UNCHANGED <<res, sub, active, resp, rcpt, rc, sent, posted>>

\* A host whose submission was refused may end the run or try later.
GiveUpRun(t, e) ==
  /\ At(t, {"ready"})
  /\ \/ Finish(t, e, "failed", "other")
     \/ \E delay \in 0..MaxRetryDelay : ScheduleRetry(t, e, delay)
  /\ wk' = [wk EXCEPT ![t] = IF held'[t] = NoLease THEN Idle
                             ELSE [wk[t] EXCEPT !.pc = "lost"]]
  /\ UNCHANGED <<res, sub, active, resp, rcpt, rc, sent, posted>>

\* The task crashes, or returns with an error and drops its lease.
Drop(t) ==
  /\ Crash(t)
  /\ wk' = [wk EXCEPT ![t] = Idle]
  /\ UNCHANGED <<res, sub, active, resp, rcpt, rc, sent, posted>>

\* The budget service compares attempt and generation, not the row version.
BudgetFence(s, e) ==
  LET row == run[RunOf(s)] IN
  /\ row.state = "running"
  /\ row.attempt = res[s].gen /\ row.gen = res[s].gen
  /\ row.left # None /\ ~Reached(row.left, e)

Reserve(t, e, s) ==
  /\ At(t, {"ready"})
  /\ res[s] = NoReservation
  /\ MyRow(t).state = "running" /\ MyRow(t).attempt = held[t].gen
  /\ MyRow(t).gen = held[t].gen /\ ~Reached(MyRow(t).left, e)
  /\ res' = [res EXCEPT ![s] =
       [state |-> "reserved", run |-> held[t].run, gen |-> held[t].gen]]
  /\ \/ wk' = [wk EXCEPT ![t] = [pc |-> "reserved", sub |-> s]]
     \/ UNCHANGED wk
  /\ UNCHANGED <<run, held, outcomes, sub, active, resp, rcpt, rc, sent, posted>>

\* Mutant: capacity that may have been used is released too.
ReleaseUnstartedAlways(s, e) ==
  \/ /\ res[s].state \in {"reserved", "uncertain"}
     /\ BudgetFence(s, e)
     /\ SetReservation(s, "released")
  \/ UNCHANGED res

\* release_unstarted.  Only reserved capacity is released, and the call may
\* fail.
ReleaseUnstarted(s, e) ==
  \/ /\ res[s].state = "reserved"
     /\ BudgetFence(s, e)
     /\ SetReservation(s, "released")
  \/ UNCHANGED res

\* The call was refused, or prepare failed: the caller keeps its lease.  When
\* prepare failed after its commit, that lease is stale.
Refuse(t, e) ==
  /\ At(t, {"reserved", "unsure"})
  /\ ReleaseUnstarted(SubOf(t), e)
  /\ wk' = [wk EXCEPT ![t] = IF wk[t].pc = "reserved"
                             THEN [pc |-> "ready", sub |-> None]
                             ELSE [wk[t] EXCEPT !.pc = "lost"]]
  /\ UNCHANGED <<run, held, outcomes, sub, active, resp, rcpt, rc, sent, posted>>
---------------------------------------------------------------------------
(***************************************************************************)
(* Submission                                                              *)
(***************************************************************************)

\* attempt_id is unique among submissions.
AttemptIsUsed(r, gen) ==
  \E s \in Submission :
    sub[s].state # "none" /\ RunOf(s) = r /\ res[s].gen = gen

Prepare(t, e) ==
  LET s == SubOf(t) IN
  /\ At(t, {"reserved"})
  /\ MyRow(t).state = "running"
  /\ Heartbeat(t, e)
  /\ active[held[t].run]
  /\ res[s].state = "reserved" /\ res[s].gen = held[t].gen
  /\ ~AttemptIsUsed(held[t].run, held[t].gen)
  /\ sub' = [sub EXCEPT ![s].state = "prepared"]
  /\ Goes(t, "prepared", "unsure")
  /\ UNCHANGED <<res, active, resp, rcpt, rc, sent, posted>>

MarkUncertain(t, e) ==
  LET s == SubOf(t) IN
  /\ At(t, {"prepared"})
  /\ \/ /\ res[s].state = "reserved"
        /\ BudgetFence(s, e)
        /\ SetReservation(s, "uncertain")
        /\ Continues(t, {"send", "unmarked"})
     \/ UNCHANGED res /\ Continues(t, {"unmarked"})
  /\ UNCHANGED <<run, held, outcomes, sub, active, resp, rcpt, rc, sent, posted>>

\* The mark may or may not be there: release what is only reserved, then close.
ReleaseUnmarked(t, e) ==
  /\ At(t, {"unmarked"})
  /\ ReleaseUnstarted(SubOf(t), e)
  /\ Continues(t, {"ambiguous"})
  /\ UNCHANGED <<run, held, outcomes, sub, active, resp, rcpt, rc, sent, posted>>

\* Mutant: a create request that fails is sent again.
SendCreateAgain(t) ==
  /\ At(t, {"send"})
  /\ sent' = [sent EXCEPT ![SubOf(t)] = @ + 1]
  /\ resp' \in {resp, [resp EXCEPT ![SubOf(t)] = "open"]}
  /\ Continues(t, {"send", "sent"})
  /\ UNCHANGED <<run, held, outcomes, res, sub, active, rcpt, rc, posted>>

\* submit_provider_background: outside every transaction.  The request may not
\* reach the provider.
SendCreate(t) ==
  /\ At(t, {"send"})
  /\ sent' = [sent EXCEPT ![SubOf(t)] = @ + 1]
  /\ resp' \in {resp, [resp EXCEPT ![SubOf(t)] = "open"]}
  /\ Continues(t, {"sent"})
  /\ UNCHANGED <<run, held, outcomes, res, sub, active, rcpt, rc, posted>>

\* submit_with_heartbeats: beside the request.
SubmitHeartbeat(t, e) ==
  /\ At(t, {"sent"})
  /\ Heartbeat(t, e)
  /\ Goes(t, "sent", "ambiguous")
  /\ UNCHANGED <<res, sub, active, resp, rcpt, rc, sent, posted>>

Acknowledged(t) ==
  /\ At(t, {"sent"})
  /\ resp[SubOf(t)] # "none"
  /\ Continues(t, {"acked"})
  /\ UNCHANGED <<run, held, outcomes, res, sub, active, resp, rcpt, rc, sent, posted>>

\* The request, a heartbeat or the acceptance failed.
SubmitFails(t) ==
  /\ At(t, {"sent", "acked"})
  /\ Continues(t, {"ambiguous"})
  /\ UNCHANGED <<run, held, outcomes, res, sub, active, resp, rcpt, rc, sent, posted>>

\* accept: the deadline is fixed here, window after the earlier of the
\* provider's and the local clock.
Accept(t, e, window) ==
  LET s == SubOf(t) IN
  /\ At(t, {"acked"})
  /\ AcceptBackground(t, e)
  /\ sub[s].state = "prepared" /\ sub[s].version = 0
  /\ sub' = [sub EXCEPT ![s] = AcceptedRow(sub[s], e, window)]
  /\ wk' = [wk EXCEPT ![t] = IF held'[t] = NoLease THEN Idle
                             ELSE [wk[t] EXCEPT !.pc = "ambiguous"]]
  /\ UNCHANGED <<res, active, resp, rcpt, rc, sent, posted>>

CloseAmbiguity(t, e) ==
  LET s == SubOf(t) IN
  /\ At(t, {"ambiguous"})
  /\ MyRow(t).state = "running"
  /\ Finish(t, e, "recovery_required", "other")
  /\ sub[s].state = "prepared" /\ sub[s].version = 0
  /\ sub' = [sub EXCEPT ![s] = EndedRow(sub[s], "recovery_required")]
  /\ wk' = [wk EXCEPT ![t] = IF held'[t] = NoLease THEN Idle
                             ELSE [wk[t] EXCEPT !.pc = "lost"]]
  /\ UNCHANGED <<res, active, resp, rcpt, rc, sent, posted>>
---------------------------------------------------------------------------
(***************************************************************************)
(* The provider and the person                                             *)
(***************************************************************************)

Respond(s, status) ==
  /\ resp[s] = "open"
  /\ resp' = [resp EXCEPT ![s] = status]
  /\ UNCHANGED <<run, held, outcomes, wk, res, sub, active, rcpt, rc, sent, posted>>

\* record: a new supported event; an exact replay changes nothing.  That the
\* event tells the truth is not assumed.
RecordReceipt(s, kind) ==
  /\ resp[s] # "none"
  /\ Len(rcpt[s]) < MaxReceipts
  /\ rcpt' = [rcpt EXCEPT ![s] = Append(@, [kind |-> kind, state |-> "pending"])]
  /\ UNCHANGED <<run, held, outcomes, wk, res, sub, active, resp, rc, sent, posted>>

\* archive_session and restore_session: parked runs are not looked at.
ToggleSession(r) ==
  /\ active' = [active EXCEPT ![r] = ~@]
  /\ UNCHANGED <<run, held, outcomes, wk, res, sub, resp, rcpt, rc, sent, posted>>
---------------------------------------------------------------------------
(***************************************************************************)
(* Receipts of one response                                                *)
(***************************************************************************)

In(q, state) == {i \in DOMAIN q : q[i].state = state}

\* match_background_receipt: at most one is matched, the earliest.
Match(q) ==
  IF In(q, "matched") # {} \/ In(q, "pending") = {} THEN q
  ELSE [q EXCEPT ![Min(In(q, "pending"))].state = "matched"]

\* commit_matched_terminal_receipt and close_duplicate_terminal_receipts.
SettleReceipts(q, status) ==
  [i \in DOMAIN q |->
     [q[i] EXCEPT !.state =
        CASE @ = "matched" -> "processed"
          [] @ = "pending" -> IF q[i].kind = status THEN "duplicate" ELSE "recovery"
          [] OTHER -> @]]

\* close_matched_receipt_recovery.
CloseReceipts(q) ==
  [i \in DOMAIN q |->
     [q[i] EXCEPT !.state = IF @ = "matched" THEN "recovery" ELSE @]]
---------------------------------------------------------------------------
(***************************************************************************)
(* Reconciliation                                                          *)
(***************************************************************************)

\* The part of load_background_claim_graph that the services themselves keep.
Bound(s) ==
  LET row == run[RunOf(s)] IN
  /\ row.state = "waiting_provider"
  /\ row.attempt = res[s].gen /\ row.gen = res[s].gen
  /\ row.owner = None /\ row.left = None /\ row.wait = None
  /\ row.err = None /\ row.ckpt = None
  /\ res[s].state = "uncertain"
  /\ ~\E o \in outcomes[RunOf(s)] : o.gen = res[s].gen

\* load_background_claim_graph.
Whole(s) == Bound(s) /\ active[RunOf(s)]

\* validate_claimable_submission and validate_expired_submission, but for the
\* times, which the queries have compared.
ValidSubmission(row) ==
  /\ row.retry <= row.rgen /\ row.retry <= MaxRetries
  /\ row.version > 0
  /\ row.state = "waiting_provider" => ~row.marker /\ (row.rgen = 0) = (row.retry = 0)
  /\ row.state = "reconciling" => row.rgen > 0

\* Mutant: the deadline is not compared.
CandidatesForEver(e) ==
  {s \in Submission : sub[s].state \in Pollable /\ Reached(sub[s].next, e)}
Candidates(e) ==
  {s \in Submission : /\ sub[s].state \in Pollable
                      /\ Reached(sub[s].next, e) /\ ~Reached(sub[s].dl, e)}

\* The expiry of a claim never passes the deadline.
Expiry(row, e) == IF ClaimTtl + e < row.dl THEN ClaimTtl + e ELSE row.dl

\* Mutant: the claim is written without a compare-and-swap.
WriteClaimSameVersion(p, s, row) ==
  /\ sub' = [sub EXCEPT ![s] = row]
  /\ \/ rc' = [rc EXCEPT ![p] = ClaimOf(s, row)]
     \/ UNCHANGED rc

\* The write of a claimed row; the reply may be lost.
WriteClaim(p, s, row) ==
  /\ sub' = [sub EXCEPT ![s] = [row EXCEPT !.version = @ + 1]]
  /\ \/ rc' = [rc EXCEPT ![p] = ClaimOf(s, [row EXCEPT !.version = @ + 1])]
     \/ UNCHANGED rc

\* claim_next: the first candidate, or an error.
ClaimSubmission(p, e) ==
  /\ rc[p] = NoClaim
  /\ \E s \in Candidates(e) :
       /\ sub[s].version < MaxClaimVersion
       /\ \A q \in Candidates(e) : sub[s].next <= sub[q].next
       /\ ValidSubmission(sub[s]) /\ Whole(s)
       /\ WriteClaim(p, s, ClaimedSubmission(sub[s], Expiry(sub[s], e)))
       /\ rcpt' = [rcpt EXCEPT ![s] = Match(@)]
  /\ UNCHANGED <<run, held, outcomes, wk, res, active, resp, sent, posted>>

\* The row shows everything the claim shows.
Shows(p) ==
  /\ rc[p] # NoClaim
  /\ sub[rc[p].sub].state = "reconciling"
  /\ sub[rc[p].sub].version = rc[p].version

\* validate_current_reconciliation_claim.
Current(p, e) ==
  /\ Shows(p)
  /\ ~Reached(sub[rc[p].sub].next, e) /\ ~Reached(sub[rc[p].sub].dl, e)

HeartbeatClaim(p, e) ==
  LET s == rc[p].sub IN
  /\ Current(p, e)
  /\ ~rc[p].marker
  /\ sub[s].version < MaxClaimVersion
  /\ WriteClaim(p, s, [sub[s] EXCEPT !.next = Expiry(sub[s], e)])
  /\ UNCHANGED <<run, held, outcomes, wk, res, active, resp, rcpt, sent, posted>>

\* bind_retrieval_egress: from here on a GET may have happened.
BindRetrieval(p, e) ==
  LET s == rc[p].sub IN
  /\ Current(p, e)
  /\ ~rc[p].marker
  /\ Whole(s)
  /\ WriteClaim(p, s, [sub[s] EXCEPT !.marker = TRUE])
  /\ UNCHANGED <<run, held, outcomes, wk, res, active, resp, rcpt, sent, posted>>

\* retrieve_provider_background: outside every transaction.
Observations(s) ==
  {"retryable", "rejected", IF resp[s] = "open" THEN "pending" ELSE resp[s]}

Retrieve(p) ==
  /\ rc[p] # NoClaim
  /\ rc[p].marker /\ rc[p].obs = "none"
  /\ \E obs \in Observations(rc[p].sub) : rc' = [rc EXCEPT ![p].obs = obs]
  /\ UNCHANGED <<run, held, outcomes, wk, res, sub, active, resp, rcpt, sent, posted>>

ForgetsClaim(p) == \/ rc' = [rc EXCEPT ![p] = NoClaim]
                   \/ UNCHANGED rc

\* close_background_recovery of the submissions B, with their receipts as in q.
CloseRecovery(B, q) ==
  /\ CloseBackgroundRecovery({RunOf(s) : s \in B})
  /\ sub' = [s \in Submission |->
       IF s \in B THEN EndedRow(sub[s], "recovery_required") ELSE sub[s]]
  /\ rcpt' = [s \in Submission |-> IF s \in B THEN CloseReceipts(q[s]) ELSE q[s]]

\* A release of the claim, or the end when retries or time have run out.
HandBack(p, e, delay) ==
  LET s == rc[p].sub IN
  /\ IF sub[s].retry + 1 > MaxRetries \/ delay + e >= sub[s].dl
     THEN Whole(s) /\ CloseRecovery({s}, rcpt)
     ELSE /\ sub' = [sub EXCEPT ![s] = ReleasedRow(sub[s], delay + e)]
          /\ UNCHANGED <<run, held, outcomes, rcpt>>
  /\ ForgetsClaim(p)
  /\ UNCHANGED <<wk, res, active, resp, sent, posted>>

\* release_before_retrieval.
ReleaseBeforeRetrieval(p, e, delay) ==
  /\ Current(p, e)
  /\ ~rc[p].marker
  /\ HandBack(p, e, delay)

\* background_retry_delay.
RetryDelay(retry) == IF 2^retry < MaxDelay THEN 2^retry ELSE MaxDelay

\* release_nonterminal, and handle_retrieval_failure for a retryable failure.
ReleaseNonterminal(p, e) ==
  /\ Current(p, e)
  /\ rc[p].obs \in {"pending", "retryable"}
  /\ HandBack(p, e, RetryDelay(rc[p].retry))

\* handle_retrieval_failure for the others.
RejectRetrieval(p, e) ==
  /\ Current(p, e)
  /\ rc[p].obs = "rejected"
  /\ Whole(rc[p].sub)
  /\ CloseRecovery({rc[p].sub}, rcpt)
  /\ ForgetsClaim(p)
  /\ UNCHANGED <<wk, res, active, resp, sent, posted>>

\* The local state a terminal status maps to.
FinalOf(status) == IF status = "incomplete" THEN "failed" ELSE status

\* persist_background_provider_output: the message of a completed response.
PersistBackgroundOutput(s, status) ==
  posted' = [posted EXCEPT ![s] = IF status = "completed" THEN @ + 1 ELSE @]

\* Mutant: the usage is left to be settled later.
CommitAnswerOnly(s, status, q) ==
  /\ Cardinality(In(q, "pending")) <= MaxDuplicates
  /\ UNCHANGED res
  /\ CommitBackgroundTerminal(RunOf(s), FinalOf(status))
  /\ sub' = [sub EXCEPT ![s] = EndedRow(sub[s], FinalOf(status))]
  /\ PersistBackgroundOutput(s, status)
  /\ rcpt' = [rcpt EXCEPT ![s] = SettleReceipts(q, status)]

\* The terminal transaction, given the receipts q after matching.
CommitAnswer(s, status, q) ==
  /\ Cardinality(In(q, "pending")) <= MaxDuplicates
  /\ SetReservation(s, "committed")
  /\ CommitBackgroundTerminal(RunOf(s), FinalOf(status))
  /\ sub' = [sub EXCEPT ![s] = EndedRow(sub[s], FinalOf(status))]
  /\ PersistBackgroundOutput(s, status)
  /\ rcpt' = [rcpt EXCEPT ![s] = SettleReceipts(q, status)]

\* Mutant: the kind of the matched receipt is not compared.
NeverConflicts(q, status) == FALSE

\* The matched receipt expects another status.
Conflicts(q, status) == \E i \in In(q, "matched") : q[i].kind # status

\* commit_once.  A matched receipt of another kind closes the turn instead.
CommitTerminal(p, e) ==
  LET s == rc[p].sub
      status == rc[p].obs
      q == Match(rcpt[s])
  IN
  /\ Current(p, e)
  /\ status \in Status
  /\ Whole(s)
  /\ IF Conflicts(q, status)
     THEN CloseRecovery({s}, [rcpt EXCEPT ![s] = q]) /\ UNCHANGED <<res, posted>>
     ELSE CommitAnswer(s, status, q)
  /\ ForgetsClaim(p)
  /\ UNCHANGED <<wk, active, resp, sent>>

\* validate_existing_background_output.
OutputIsStored(s) ==
  /\ posted[s] = 1
  /\ run[RunOf(s)].ckpt = [gen |-> res[s].gen, kind |-> FinalKind]

\* validate_existing_background_terminal: the stored answer is the one that
\* this observation would have committed.
AlreadyReconciled(s, status) ==
  LET row == run[RunOf(s)] IN
  /\ sub[s].state = FinalOf(status)
  /\ sub[s].next = None /\ sub[s].marker
  /\ res[s].state = "committed"
  /\ row.state = FinalOf(status) /\ row.attempt = res[s].gen
  /\ \E o \in outcomes[RunOf(s)] :
       /\ {q \in outcomes[RunOf(s)] : q.gen = res[s].gen} = {o}
       /\ o.state = FinalOf(status)
  /\ IF status = "completed" THEN OutputIsStored(s) ELSE row.ckpt = None
  /\ Cardinality(In(rcpt[s], "processed")) <= 1
  /\ \A i \in In(rcpt[s], "processed") : rcpt[s][i].kind = status

\* commit, repeated or late: the turn is already answered.
CommitAgain(p) ==
  /\ rc[p] # NoClaim
  /\ rc[p].obs \in Status
  /\ sub[rc[p].sub].state \in Answered
  /\ AlreadyReconciled(rc[p].sub, rc[p].obs)
  /\ rc' = [rc EXCEPT ![p] = NoClaim]
  /\ UNCHANGED <<run, held, outcomes, wk, res, sub, active, resp, rcpt, sent, posted>>

DropClaim(p) ==
  /\ rc[p] # NoClaim
  /\ rc' = [rc EXCEPT ![p] = NoClaim]
  /\ UNCHANGED <<run, held, outcomes, wk, res, sub, active, resp, rcpt, sent, posted>>

\* Mutant: a claimed turn is left to its reconciler.
OverdueUnclaimed(e) ==
  {s \in Submission : sub[s].state = "waiting_provider" /\ Reached(sub[s].dl, e)}

Overdue(e) ==
  {s \in Submission : sub[s].state \in Pollable /\ Reached(sub[s].dl, e)}

\* The first MaxScan by deadline.
Batches(e) ==
  {B \in SUBSET Overdue(e) :
     /\ Cardinality(B) = Min({MaxScan, Cardinality(Overdue(e))})
     /\ \A s \in B, q \in Overdue(e) \ B : sub[s].dl <= sub[q].dl}

\* close_expired: all of the batch or nothing.
CloseExpired(e) ==
  /\ \E B \in Batches(e) :
       /\ B # {}
       /\ \A s \in B : ValidSubmission(sub[s]) /\ Whole(s)
       /\ CloseRecovery(B, rcpt)
  /\ UNCHANGED <<wk, res, active, resp, rc, sent, posted>>
---------------------------------------------------------------------------
RecoverLeases(e) == RecoverExpiredLeases(e) /\ UNCHANGED others

Elapse ==
  /\ Tick
  /\ sub' = [s \in Submission |->
       [sub[s] EXCEPT !.next = Later(@), !.dl = Later(@)]]
  /\ UNCHANGED <<wk, res, active, resp, rcpt, rc, sent, posted>>

BInit ==
  /\ Init
  /\ wk = [t \in Task |-> Idle]
  /\ res = [s \in Submission |-> NoReservation]
  /\ sub = [s \in Submission |-> NoSubmission]
  /\ active = [r \in Run |-> TRUE]
  /\ resp = [s \in Submission |-> "none"]
  /\ rcpt = [s \in Submission |-> <<>>]
  /\ rc = [p \in Reconciler |-> NoClaim]
  /\ sent = [s \in Submission |-> 0]
  /\ posted = [s \in Submission |-> 0]

SubmitStep(t, e) ==
  \/ \E w \in WorkerId : Claim(t, w, e)
  \/ StartRun(t, e)
  \/ GiveUpRun(t, e)
  \/ \E s \in Submission : Reserve(t, e, s)
  \/ Refuse(t, e)
  \/ Prepare(t, e)
  \/ MarkUncertain(t, e)
  \/ ReleaseUnmarked(t, e)
  \/ SubmitHeartbeat(t, e)
  \/ \E window \in 1..ResponseWindow : Accept(t, e, window)
  \/ CloseAmbiguity(t, e)

CreateStep(t) == SendCreate(t) \/ Acknowledged(t) \/ SubmitFails(t) \/ Drop(t)

ReconcileStep(p, e) ==
  \/ ClaimSubmission(p, e)
  \/ HeartbeatClaim(p, e)
  \/ BindRetrieval(p, e)
  \/ \E delay \in 1..MaxDelay : ReleaseBeforeRetrieval(p, e, delay)
  \/ ReleaseNonterminal(p, e)
  \/ RejectRetrieval(p, e)
  \/ CommitTerminal(p, e)

ProviderStep(s) == \E status \in Status : Respond(s, status) \/ RecordReceipt(s, status)

BNext ==
  \/ \E t \in Task, e \in Reading : SubmitStep(t, e)
  \/ \E t \in Task : CreateStep(t)
  \/ \E p \in Reconciler, e \in Reading : ReconcileStep(p, e)
  \/ \E p \in Reconciler : Retrieve(p) \/ CommitAgain(p) \/ DropClaim(p)
  \/ \E s \in Submission : ProviderStep(s)
  \/ \E r \in Run : ToggleSession(r)
  \/ \E e \in Reading : CloseExpired(e) \/ RecoverLeases(e)
  \/ Elapse

BSpec == BInit /\ [][BNext]_bvars

\* Time passes, and the host keeps calling close_expired.
BFairSpec == /\ BSpec
             /\ WF_bvars(Elapse)
             /\ WF_bvars(\E e \in Reading : CloseExpired(e))

---------------------------------------------------------------------------
(***************************************************************************)
(* Properties                                                              *)
(***************************************************************************)

Claims == [sub : Submission, version : Nat, retry : Nat, marker : BOOLEAN,
           obs : {"none", "pending", "retryable", "rejected"} \cup Status]

ReceiptStates == {"pending", "matched", "processed", "duplicate", "recovery"}

TaskState == [pc : PC, sub : Submission \cup {None}]
Reservation == [state : {"none", "reserved", "released", "uncertain", "committed"},
                run : Run \cup {None}, gen : Nat]
SubmissionRow == [state : SubmissionStates, next : Deadline, dl : Deadline,
                  rgen : Nat, retry : Nat, marker : BOOLEAN, version : Nat]

BTypeOK ==
  /\ TypeOK
  /\ wk \in [Task -> TaskState]
  /\ res \in [Submission -> Reservation]
  /\ sub \in [Submission -> SubmissionRow]
  /\ active \in [Run -> BOOLEAN]
  /\ resp \in [Submission -> {"none", "open"} \cup Status]
  /\ rcpt \in [Submission -> Seq([kind : Status, state : ReceiptStates])]
  /\ rc \in [Reconciler -> Claims \cup {NoClaim}]
  /\ sent \in [Submission -> Nat] /\ posted \in [Submission -> Nat]

\* "The create request is never retried": each is sent at most once, and of all
\* the reservations and attempts of a run at most one is ever sent, whatever
\* replies are lost and whatever recovery makes of the run.
CreateSentOnce ==
  \A s, q \in Submission :
    /\ sent[s] <= 1
    /\ sent[s] > 0 /\ sent[q] > 0 /\ RunOf(s) = RunOf(q) => s = q

\* "ReleaseUnused is forbidden after the background create boundary": whatever
\* fails after the request was sent, its capacity stays held until it is spent.
SentCapacityIsHeld ==
  \A s \in Submission : sent[s] > 0 => res[s].state \in {"uncertain", "committed"}

\* "There is no state in which assistant output is visible while usage is
\* uncertain", nor one in which usage is settled and run, outcome or submission
\* are not.
SettledAsAWhole ==
  \A s \in Submission :
    /\ posted[s] = IF sub[s].state = "completed" THEN 1 ELSE 0
    /\ res[s].state = "committed" <=> sub[s].state \in Answered
    /\ sub[s].state \in Answered =>
         /\ run[RunOf(s)].state = sub[s].state
         /\ \E o \in outcomes[RunOf(s)] :
              o.gen = res[s].gen /\ o.state = sub[s].state

\* Nothing but an archived session makes the reconciler refuse a parked turn:
\* the rows it loads always fit, and every parked run has the one submission
\* through which it can be ended.
ParkedIsWhole ==
  /\ \A s \in Submission : sub[s].state \in Pollable =>
       Bound(s) /\ ValidSubmission(sub[s]) /\ sub[s].next <= sub[s].dl
  /\ \A r \in Run : run[r].state = "waiting_provider" =>
       \E s \in Submission : /\ sub[s].state \in Pollable /\ RunOf(s) = r
                             /\ \A q \in Submission :
                                  sub[q].state \in Pollable /\ RunOf(q) = r => q = s

\* The claim fence: of all the claims that reconcilers keep, over expiries and
\* lost replies, at most one can still act on a submission.
ClaimIsExclusive ==
  \A p, q \in Reconciler : Shows(p) /\ Shows(q) /\ rc[p].sub = rc[q].sub => p = q

\* A turn is answered with what the provider's response says, never with what
\* a webhook says.  A webhook is accepted only if it agrees.
AnswerIsTrue ==
  \A s \in Submission :
    /\ sub[s].state \in Answered =>
         resp[s] \in Status /\ sub[s].state = FinalOf(resp[s])
    /\ \A i \in DOMAIN rcpt[s] :
         /\ rcpt[s][i].state \in {"processed", "duplicate"} =>
              sub[s].state \in Answered /\ rcpt[s][i].kind = resp[s]
         /\ rcpt[s][i].state = "matched" => sub[s].state \in Pollable
    /\ Cardinality(In(rcpt[s], "matched") \cup In(rcpt[s], "processed")) <= 1

\* A commit whose reply was lost can be repeated, and a reconciler that comes
\* late with the same observation is told so: whatever other reconcilers,
\* webhooks and expiry did in between, the stored answer passes for the one it
\* would have committed, so "already reconciled" and never a conflict.
RepeatedCommitIsKnown ==
  \A p \in Reconciler :
    rc[p] # NoClaim /\ rc[p].obs \in Status /\ sub[rc[p].sub].state \in Answered
      => AlreadyReconciled(rc[p].sub, rc[p].obs)

\* A turn whose deadline has passed on every clock is neither claimed, renewed,
\* released nor answered any more: it can only be closed for an operator.
LateWorkIsRefused ==
  [][\A s \in Submission :
       /\ sub[s].state \in Pollable
       /\ sub[s].dl <= -ClockError
       /\ sub'[s].version # sub[s].version
       => sub'[s].state = "recovery_required"]_bvars

\* What Settlement calls the states of reservations and submissions.
CostOf(state) ==
  CASE state = "reserved" -> "booked"
    [] state = "released" -> "freed"
    [] state = "uncertain" -> "held"
    [] state = "committed" -> "spent"
    [] OTHER -> "none"

AnswerOf(state) ==
  CASE state = "completed" -> "answered"
    [] state \in {"failed", "cancelled"} -> "refused"
    [] state = "recovery_required" -> "doubtful"
    [] OTHER -> "none"

TurnCost == [s \in Submission |-> CostOf(res[s].state)]
TurnSent == [s \in Submission |-> sent[s] > 0]
TurnAnswer == [s \in Submission |-> AnswerOf(sub[s].state)]

S == INSTANCE Settlement WITH
       Turn <- Submission, cost <- TurnCost, sent <- TurnSent, answer <- TurnAnswer

\* The background services implement the settlement of turns.
Settles == S!SSpec

\* No run waits for the provider for ever, once no session is archived any
\* more: it is answered, or closed after its deadline, though reconcilers,
\* provider and webhooks may do nothing at all.
ParkedRunEnds ==
  <>[](\A r \in Run : active[r]) =>
    \A r \in Run :
      run[r].state = "waiting_provider" ~> run[r].state # "waiting_provider"

\* The rows of a turn fit together at every moment: as long as it is parked,
\* and from the one step on that settles it.
TurnIsWhole == BTypeOK /\ ParkedIsWhole /\ SettledAsAWhole

\* A reconciler that comes late changes nothing: after the answer it is told
\* that its observation is the stored one, after the deadline it is refused.
LateComersChangeNothing == []RepeatedCommitIsKnown /\ LateWorkIsRefused
===========================================================================
