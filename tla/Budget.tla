------------------------------ MODULE Budget ------------------------------
(***************************************************************************)
(* Budget reservations and policy counters: src/orm_budget.rs, with the    *)
(* policy upsert of src/orm_configuration.rs.                              *)
(*                                                                         *)
(* A provider call first reserves its estimate in the current counter of   *)
(* every applicable policy, in one transaction; later the reservation is   *)
(* committed with the actual usage, released, or marked uncertain.  The    *)
(* six amounts of AiBudgetAmounts are added, subtracted and compared       *)
(* component by component, so one component stands for all.                *)
(***************************************************************************)
EXTENDS Integers, Sequences, FiniteSets, FiniteSetsExt

CONSTANTS
  Run,          \* runs whose attempts make provider calls
  Policy,       \* budget policies of the scope
  Key,          \* idempotency keys of one principal: one reservation each
  None,         \* a NULL column
  MaxEstimate,  \* deployment maximum_per_call
  MaxActual,    \* usage a provider may report (may exceed the estimate)
  Ceilings,     \* ceilings a policy may be given
  MaxStorable,  \* the largest storable amount (i64::MAX)
  MaxPolicies,  \* maximum_applicable_policies
  MaxGen,       \* model bound: attempts per run
  MaxPeriod     \* model bound: policy periods that begin

ASSUME BudgetAssumption ==
  /\ {MaxEstimate, MaxActual, MaxStorable} \subseteq Nat /\ Ceilings \subseteq Nat
  /\ {MaxPolicies, MaxGen, MaxPeriod} \subseteq Nat \ {0}
  /\ MaxEstimate <= MaxStorable
  /\ MaxActual <= MaxStorable      \* stored_amounts refuses more
  /\ None \notin Nat
ASSUME NoneAssumption == None \notin {"reserved", "uncertain", "committed", "released"}

VARIABLES
  lease,    \* what the budget service reads of a run: its generation and phase
  policy,   \* policy rows
  period,   \* the current period of the policies' interval
  counter,  \* counter rows by policy and period
  res,      \* reservation rows by idempotency key
  usage     \* usage entries appended for each reservation

budgetVars == <<lease, policy, period, counter, res, usage>>

Counter == Policy \X (1..MaxPeriod)
Amount == 0..MaxStorable

\* running: a live lease; background: the provider works on; closed: neither.
Phases == {"running", "background", "closed"}
OpenStates == {"reserved", "uncertain"}
Outcomes == {"committed", "released", "uncertain"}

NoRes == [state |-> None]
Reservation ==
  [state : OpenStates \cup Outcomes, run : Run, gen : 1..MaxGen,
   est : Amount, actual : Amount \cup {None}, counters : SUBSET Counter]

EmptyCounter == [reserved |-> 0, committed |-> 0]
---------------------------------------------------------------------------
\* The period a request falls in.  The service reads the clock before the
\* transaction, so a request may still be booked in the period just over.
BookedPeriods == {p \in {period - 1, period} : p >= 1}

\* validate_run_fence, validate_reconciliation_fence: neither compares the
\* lease owner or the row version.
LeaseIs(r, g, phase) == lease[r].gen = g /\ lease[r].phase = phase

Enabled == {p \in Policy : policy[p].enabled}

\* Mutant: only the committed usage counts against the ceiling.
FitsIgnoringReserved(p, c, est) ==
  /\ counter[c].reserved + est <= MaxStorable
  /\ counter[c].committed + est <= policy[p].ceiling

\* checked_add and validate_policy_capacity for one counter.
Fits(p, c, est) ==
  /\ counter[c].reserved + est + counter[c].committed <= MaxStorable
  /\ counter[c].reserved + est + counter[c].committed <= policy[p].ceiling

\* reserve: a known key changes nothing (an exact replay returns the stored
\* reservation, anything else is a conflict).
Reserve(k, r, g, est, at) ==
  LET booked == {<<p, at>> : p \in Enabled} IN
  /\ LeaseIs(r, g, "running")
  /\ res[k] = NoRes
  /\ Enabled # {}
  /\ Cardinality(Enabled) <= MaxPolicies
  /\ \A c \in booked : Fits(c[1], c, est)
  /\ counter' = [c \in Counter |->
       IF c \in booked THEN [counter[c] EXCEPT !.reserved = @ + est]
                       ELSE counter[c]]
  /\ res' = [res EXCEPT ![k] =
       [state |-> "reserved", run |-> r, gen |-> g, est |-> est,
        actual |-> None, counters |-> booked]]
  /\ UNCHANGED <<lease, policy, period, usage>>

\* The counters after a reservation stops holding its estimate.
Settle(rec, actual) ==
  [c \in Counter |->
     IF c \in rec.counters
     THEN [reserved |-> counter[c].reserved - rec.est,
           committed |-> counter[c].committed +
                         (IF actual = None THEN 0 ELSE actual)]
     ELSE counter[c]]

\* checked_sub and checked_add succeed for every counter of the reservation.
Settleable(rec, actual) ==
  \A c \in rec.counters :
    /\ counter[c].reserved >= rec.est
    /\ actual # None => counter[c].committed + actual <= MaxStorable

\* A reservation already in the outcome's state is answered without a write.
MayBecome(state, outcome) ==
  /\ state \in OpenStates
  /\ state # outcome
  /\ ~(state = "uncertain" /\ outcome = "released")

\* validate_reconciliation_actual.
ActualFor(outcome) ==
  CASE outcome = "committed" -> 0..MaxActual
    [] outcome = "released"  -> {None}
    [] outcome = "uncertain" -> {None} \cup (0..MaxActual)

\* Mutant: marking a call uncertain also gives its capacity back.
ApplySettlesUncertain(k, outcome, actual) ==
  /\ Settleable(res[k], IF outcome = "committed" THEN actual ELSE None)
  /\ counter' = Settle(res[k], IF outcome = "committed" THEN actual ELSE None)
  /\ usage' = IF outcome = "committed"
              THEN [usage EXCEPT ![k] = Append(@, actual)] ELSE usage
  /\ res' = [res EXCEPT ![k] = [@ EXCEPT !.state = outcome, !.actual = actual]]

\* The writes of reconcile_once and commit_uncertain_background_budget.
Apply(k, outcome, actual) ==
  /\ IF outcome = "uncertain" THEN UNCHANGED counter
     ELSE /\ Settleable(res[k], actual)
          /\ counter' = Settle(res[k], actual)
  /\ usage' = IF outcome = "committed"
              THEN [usage EXCEPT ![k] = Append(@, actual)] ELSE usage
  /\ res' = [res EXCEPT ![k] = [@ EXCEPT !.state = outcome, !.actual = actual]]

\* reconcile, by the attempt that reserved.
Reconcile(k, outcome, actual) ==
  /\ res[k] # NoRes
  /\ MayBecome(res[k].state, outcome)
  /\ LeaseIs(res[k].run, res[k].gen, "running")
  /\ Apply(k, outcome, actual)
  /\ UNCHANGED <<lease, policy, period>>

\* The background reconciler settles an uncertain call after its worker left;
\* its transaction also closes the run.
CommitBackground(k, actual) ==
  /\ res[k] # NoRes
  /\ res[k].state = "uncertain"
  /\ LeaseIs(res[k].run, res[k].gen, "background")
  /\ Apply(k, "committed", actual)
  /\ lease' = [lease EXCEPT ![res[k].run].phase = "closed"]
  /\ UNCHANGED <<policy, period>>
---------------------------------------------------------------------------
\* What run service, administrators and time do meanwhile.

\* An attempt starts running under the next generation.
NextAttempt(r) ==
  /\ lease[r].phase = "closed"
  /\ lease[r].gen < MaxGen
  /\ lease' = [lease EXCEPT ![r] = [gen |-> @.gen + 1, phase |-> "running"]]
  /\ UNCHANGED <<policy, period, counter, res, usage>>

\* The lease is lost, finished, or handed to the provider.
LeaveRunning(r, phase) ==
  /\ lease[r].phase = "running"
  /\ lease' = [lease EXCEPT ![r].phase = phase]
  /\ UNCHANGED <<policy, period, counter, res, usage>>

\* upsert_budget_policy.
UpsertBudgetPolicy(p, enabled, ceiling) ==
  /\ policy[p] # [enabled |-> enabled, ceiling |-> ceiling]
  /\ policy' = [policy EXCEPT ![p] = [enabled |-> enabled, ceiling |-> ceiling]]
  /\ UNCHANGED <<lease, period, counter, res, usage>>

NextPeriod ==
  /\ period < MaxPeriod
  /\ period' = period + 1
  /\ UNCHANGED <<lease, policy, counter, res, usage>>

BudgetInit ==
  /\ lease = [r \in Run |-> [gen |-> 1, phase |-> "running"]]
  /\ policy \in [Policy -> [enabled : BOOLEAN, ceiling : Ceilings]]
  /\ period = 1
  /\ counter = [c \in Counter |-> EmptyCounter]
  /\ res = [k \in Key |-> NoRes]
  /\ usage = [k \in Key |-> <<>>]

BudgetNext ==
  \/ \E k \in Key, r \in Run, g \in 1..MaxGen, est \in 1..MaxEstimate,
        at \in BookedPeriods : Reserve(k, r, g, est, at)
  \/ \E k \in Key, outcome \in Outcomes : \E actual \in ActualFor(outcome) :
        Reconcile(k, outcome, actual)
  \/ \E k \in Key, actual \in 0..MaxActual : CommitBackground(k, actual)
  \/ \E r \in Run : NextAttempt(r)
  \/ \E r \in Run, phase \in {"background", "closed"} : LeaveRunning(r, phase)
  \/ \E p \in Policy, enabled \in BOOLEAN, ceiling \in Ceilings :
        UpsertBudgetPolicy(p, enabled, ceiling)
  \/ NextPeriod

---------------------------------------------------------------------------
BudgetTypeOK ==
  /\ lease \in [Run -> [gen : 1..MaxGen, phase : Phases]]
  /\ policy \in [Policy -> [enabled : BOOLEAN, ceiling : Ceilings]]
  /\ period \in 1..MaxPeriod
  /\ counter \in [Counter -> [reserved : Amount, committed : Amount]]
  /\ res \in [Key -> Reservation \cup {NoRes}]
  /\ usage \in [Key -> Seq(0..MaxActual)]

In(c, states) == {k \in Key : res[k].state \in states /\ c \in res[k].counters}

\* A counter holds exactly the estimates of its unsettled reservations and the
\* actual usage of its committed ones: nothing is freed twice, kept after a
\* release, or counted in only some of the policies.  (checked_sub of a
\* settlement can therefore never fail.)
CountersBalance ==
  \A c \in Counter :
    /\ counter[c].reserved =
         MapThenSumSet(LAMBDA k : res[k].est, In(c, OpenStates))
    /\ counter[c].committed =
         MapThenSumSet(LAMBDA k : res[k].actual, In(c, {"committed"}))

\* "One usage fact per committed reservation", with the committed amount, and
\* none for released or uncertain ones.
UsageIsExact ==
  \A k \in Key :
    usage[k] = IF res[k].state = "committed" THEN <<res[k].actual>> ELSE <<>>

\* Concurrent calls never jointly overbook a policy: a counter rises above the
\* ceiling of its policy only because a provider reported more than was
\* reserved.
NeverOverbooked ==
  [][\A c \in Counter :
       LET total == counter[c].reserved + counter[c].committed
           next  == counter'[c].reserved + counter'[c].committed IN
       next > total /\ next > policy[c[1]].ceiling =>
         \E k \in Key : /\ res[k].state \in OpenStates
                        /\ res'[k].state = "committed"
                        /\ res'[k].actual > res[k].est
                        /\ c \in res[k].counters]_budgetVars

\* Capacity of a call whose transport may have begun is given back only
\* against authoritative usage, and a settled reservation is settled for good.
UncertainIsHeld ==
  [][\A k \in Key :
       /\ res[k].state = "uncertain" => res'[k].state \in {"uncertain", "committed"}
       /\ res[k].state \in {"committed", "released"} => res'[k] = res[k]]_budgetVars
===========================================================================
