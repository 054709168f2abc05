--------------------------- MODULE ReadOnlyAgent ---------------------------
(***************************************************************************)
(* The read-only agent: the coordinator of src/orm_coordinator.rs with its *)
(* loop guard (src/agent_loop.rs), the provider call executor of           *)
(* src/provider_calls.rs, the read-only tool service of src/orm_tools.rs   *)
(* and the checkpoint service of src/orm_checkpoints.rs.                   *)
(*                                                                         *)
(* A claimed run makes provider turns.  Each one is reserved, marked       *)
(* uncertain, sent, and committed; its result is checkpointed; the tools   *)
(* it asked for are run and recorded one by one; the complete batch is     *)
(* checkpointed and becomes the input of the next turn.  A worker may die  *)
(* anywhere.  Recovery hands a complete batch to another attempt, which    *)
(* adopts it; everything else that was started needs an operator.          *)
(*                                                                         *)
(* The run table is that of RunLease: an action here that touches a run    *)
(* is an action of RunLease and what happens along with it.                *)
(***************************************************************************)
EXTENDS RunLease, Sequences

CONSTANTS
  MaxProviderTurns,   \* AiAgentLoopLimits::maximum_provider_turns
  MaxTotalToolCalls,  \* AiAgentLoopLimits::maximum_total_tool_calls
  MaxToolCalls,       \* AiProviderCallLimits::maximum_tool_calls, per turn
  Stateless           \* StatelessReplay rather than ProviderRetained

ASSUME LoopAssumption ==
  /\ MaxProviderTurns \in Nat \ {0}
  /\ MaxTotalToolCalls \in Nat \ {0}
  /\ MaxToolCalls \in Nat
  /\ Stateless \in BOOLEAN

VARIABLES
  wk,     \* where each task is in the coordinator
  res,    \* the budget reservations of each run, in the order they were made
  tool,   \* the tool call rows of each run, in the order they were begun
  batch   \* the payload of the latest tool batch checkpoint of each run

rvars == <<run, held, outcomes, wk, res, tool, batch>>

\* Where a task is.  "withheld": a tool's result may not be shown to the model;
\* "broken": the provider call or the tool returned an error; "lost": a fenced
\* write was not acknowledged, so the lease is stale.
PC == {"idle", "leased", "adopt", "plan", "consume", "rules", "prepare", "send",
       "stream", "turn", "tools", "exec", "ran", "withheld", "output", "done",
       "broken", "lost"}

\* What a task keeps in memory: the counts of its AiAgentLoopGuard, the
\* reservation of the turn at hand, how many tools the turn asked for, how many
\* have a recorded result, and the row of the one that is running.
Idle == [pc |-> "idle", turns |-> 0, calls |-> 0, res |-> 0,
         asked |-> 0, done |-> 0, tool |-> 0]

\* sent: how often the request of this reservation went to the provider.
Reservation ==
  [turn : Nat, gen : Nat, sent : Nat,
   state : {"reserved", "released", "uncertain", "committed"}]

\* ran: how often the resolver of this call was invoked.
ToolCall ==
  [turn : Nat, index : Nat, gen : Nat, res : Nat, ran : Nat,
   state : {"executing", "completed", "egress_denied"}]

NoBatch == [gen |-> 0, turns |-> 0, calls |-> 0, res |-> 0]

At(t, pcs) == wk[t].pc \in pcs
RunOf(t) == held[t].run

\* The task goes on at pc if the reply of its fenced write arrived.
Goes(t, pc) ==
  wk' = [wk EXCEPT ![t].pc = IF held'[t] = held[t] THEN "lost" ELSE pc]

\* The task goes on at pc if the reply of its other call arrived.
Continues(t, pc) == \E next \in {pc, "broken"} : wk' = [wk EXCEPT ![t].pc = next]

ReservationOf(t) == res[RunOf(t)][wk[t].res]

SetReservation(t, state) ==
  res' = [res EXCEPT ![RunOf(t)][wk[t].res].state = state]
---------------------------------------------------------------------------
(***************************************************************************)
(* Claiming, starting, adopting                                            *)
(***************************************************************************)

Claim(t, w, e) ==
  /\ At(t, {"idle"})
  /\ ClaimNext(t, w, e)
  /\ wk' = IF held'[t] = NoLease THEN wk ELSE [wk EXCEPT ![t].pc = "leased"]
  /\ UNCHANGED <<res, tool, batch>>

\* execute_claimed: a run that links a checkpoint is adopted, another planned.
StartRun(t, e) ==
  /\ At(t, {"leased"})
  /\ Start(t, e)
  /\ Goes(t, IF held[t].ckpt = None THEN "plan" ELSE "adopt")
  /\ UNCHANGED <<res, tool, batch>>

\* checkpoint_budget_matches, and the rows of the turn's tools.
TurnIsProved(r, i, gen) ==
  /\ res[r][i].gen = gen
  /\ res[r][i].state = "committed"
  /\ \A j \in DOMAIN tool[r] : tool[r][j].res = i =>
       tool[r][j].gen = gen /\ tool[r][j].state = "completed"

\* Whether the durable rows prove a batch to its adopter.  A stateless batch
\* replays the whole conversation, so all of its turns have to be proved, and
\* all under the generation of the checkpoint.
BatchIsProved(r, ckpt) ==
  /\ batch[r].gen = ckpt.gen
  /\ TurnIsProved(r, batch[r].res, ckpt.gen)
  /\ Stateless => \A i \in DOMAIN res[r] : TurnIsProved(r, i, ckpt.gen)

\* Mutant: the adopter starts counting anew.
AdoptToolBatchFromZero(t) ==
  LET b == batch[RunOf(t)] IN
  /\ At(t, {"adopt"})
  /\ held[t].ckpt.kind = "tool_batch_persisted"
  /\ BatchIsProved(RunOf(t), held[t].ckpt)
  /\ b.turns \in 1..MaxProviderTurns /\ b.calls \in 1..MaxTotalToolCalls
  /\ wk' = [wk EXCEPT ![t].pc = "plan"]
  /\ UNCHANGED <<run, held, outcomes, res, tool, batch>>

\* adopt_tool_batch and resume_after_tool_batch.
AdoptToolBatch(t) ==
  LET b == batch[RunOf(t)] IN
  /\ At(t, {"adopt"})
  /\ held[t].ckpt.kind = "tool_batch_persisted"
  /\ BatchIsProved(RunOf(t), held[t].ckpt)
  /\ b.turns \in 1..MaxProviderTurns /\ b.calls \in 1..MaxTotalToolCalls
  /\ wk' = [wk EXCEPT ![t] = [@ EXCEPT !.pc = "plan", !.turns = b.turns,
                                       !.calls = b.calls]]
  /\ UNCHANGED <<run, held, outcomes, res, tool, batch>>

\* The host plans the turn; can_begin_provider_turn is tested before the batch
\* that feeds it is consumed.
PlanTurn(t) ==
  /\ At(t, {"plan"})
  /\ wk[t].turns < MaxProviderTurns
  /\ wk' = [wk EXCEPT ![t].pc = IF held[t].ckpt = None THEN "rules" ELSE "consume"]
  /\ UNCHANGED <<run, held, outcomes, res, tool, batch>>

ConsumeBeforeProvider(t, e) ==
  /\ At(t, {"consume"})
  /\ ConsumeAdoptionCheckpoint(t, e)
  /\ Goes(t, "rules")
  /\ UNCHANGED <<res, tool, batch>>
---------------------------------------------------------------------------
(***************************************************************************)
(* The provider call (AiProviderCallExecutor::execute)                     *)
(***************************************************************************)

\* validate_run_fence and validate_reconciliation_fence: the attempt and its
\* generation, not the row version, so heartbeats do not disturb them.
BudgetFence(t, e) ==
  LET row == run[RunOf(t)] IN
  /\ row.state = "running"
  /\ row.attempt = held[t].attempt /\ row.gen = held[t].gen
  /\ row.left # None /\ ~Reached(row.left, e)

Reserve(t, e) ==
  /\ At(t, {"rules"})
  /\ wk[t].turns < MaxProviderTurns
  /\ BudgetFence(t, e)
  /\ res' = [res EXCEPT ![RunOf(t)] = Append(@,
       [turn |-> wk[t].turns + 1, gen |-> held[t].gen, sent |-> 0,
        state |-> "reserved"])]
  /\ \E next \in {"prepare", "broken"} :
       wk' = [wk EXCEPT ![t] = [@ EXCEPT !.pc = next,
                                         !.res = Len(res[RunOf(t)]) + 1]]
  /\ UNCHANGED <<run, held, outcomes, tool, batch>>

\* release_unstarted: egress, principal or an attachment was refused.
ReleaseUnstarted(t, e) ==
  /\ At(t, {"prepare"})
  /\ BudgetFence(t, e)
  /\ SetReservation(t, "released")
  /\ wk' = [wk EXCEPT ![t].pc = "broken"]
  /\ UNCHANGED <<run, held, outcomes, tool, batch>>

\* Mutant: the request is sent before the reservation is marked uncertain.
SendFirst(t, e) ==
  /\ At(t, {"prepare"})
  /\ BudgetFence(t, e)
  /\ Continues(t, "send")
  /\ UNCHANGED <<run, held, outcomes, res, tool, batch>>

\* Nothing is sent before the reservation says that it may have been.
MarkUncertain(t, e) ==
  /\ At(t, {"prepare"})
  /\ BudgetFence(t, e)
  /\ SetReservation(t, "uncertain")
  /\ Continues(t, "send")
  /\ UNCHANGED <<run, held, outcomes, tool, batch>>

\* stream_provider.  No fence is checked here; the call may fail after the
\* provider has received it.
StreamProvider(t) ==
  /\ At(t, {"send"})
  /\ res' = [res EXCEPT ![RunOf(t)][wk[t].res].sent = @ + 1]
  /\ Continues(t, "stream")
  /\ UNCHANGED <<run, held, outcomes, tool, batch>>

\* execute_provider_with_heartbeats: beside the call, which keeps the lease it
\* was started with.
HeartbeatBeside(t, e) ==
  /\ At(t, {"rules", "prepare", "send", "stream"})
  /\ Heartbeat(t, e)
  /\ Goes(t, wk[t].pc)
  /\ UNCHANGED <<res, tool, batch>>

\* The stream is complete and asked for n tools: the usage is committed.
CommitUsage(t, e, n) ==
  /\ At(t, {"stream"})
  /\ BudgetFence(t, e)
  /\ ReservationOf(t).state = "uncertain"
  /\ SetReservation(t, "committed")
  /\ \E next \in {"turn", "broken"} :
       wk' = [wk EXCEPT ![t] = [@ EXCEPT !.pc = next, !.asked = n, !.done = 0]]
  /\ UNCHANGED <<run, held, outcomes, tool, batch>>
---------------------------------------------------------------------------
(***************************************************************************)
(* The result of a turn, its tools, the next input or the answer           *)
(***************************************************************************)

\* The reservation append_coordinator_checkpoint asks for.
Paid(t) == ReservationOf(t).state = "committed" /\ ReservationOf(t).gen = held[t].gen

\* Mutant: the total of tool calls is not limited.
PersistProviderTurnUnlimited(t, e) ==
  /\ At(t, {"turn"})
  /\ Paid(t)
  /\ LinkCheckpoint(t, e, "provider_turn_persisted")
  /\ wk' = [wk EXCEPT ![t] =
       IF held'[t] = held[t] THEN [@ EXCEPT !.pc = "lost"]
       ELSE [@ EXCEPT !.pc = IF wk[t].asked = 0 THEN "output" ELSE "tools",
                      !.turns = wk[t].turns + 1, !.calls = wk[t].calls + wk[t].asked]]
  /\ UNCHANGED <<res, tool, batch>>

\* observe_provider_turn and persist_provider_turn.
PersistProviderTurn(t, e) ==
  /\ At(t, {"turn"})
  /\ wk[t].calls + wk[t].asked <= MaxTotalToolCalls
  /\ Paid(t)
  /\ LinkCheckpoint(t, e, "provider_turn_persisted")
  /\ wk' = [wk EXCEPT ![t] =
       IF held'[t] = held[t] THEN [@ EXCEPT !.pc = "lost"]
       ELSE [@ EXCEPT !.pc = IF wk[t].asked = 0 THEN "output" ELSE "tools",
                      !.turns = wk[t].turns + 1, !.calls = wk[t].calls + wk[t].asked]]
  /\ UNCHANGED <<res, tool, batch>>

\* begin_tool_call checks the fence but does not write the run.
BeginToolCall(t, e) ==
  /\ At(t, {"tools"})
  /\ wk[t].done < wk[t].asked
  /\ Fenced(t, e)
  /\ MyRow(t).state = "running"
  /\ tool' = [tool EXCEPT ![RunOf(t)] = Append(@,
       [turn |-> wk[t].turns, index |-> wk[t].done + 1, gen |-> held[t].gen,
        res |-> wk[t].res, ran |-> 0, state |-> "executing"])]
  /\ \E next \in {"exec", "broken"} :
       wk' = [wk EXCEPT ![t] = [@ EXCEPT !.pc = next,
                                         !.tool = Len(tool[RunOf(t)]) + 1]]
  /\ UNCHANGED <<run, held, outcomes, res, batch>>

\* execute_tool, outside every transaction.  A resolver that fails or times
\* out has a result too.
ExecuteTool(t) ==
  /\ At(t, {"exec"})
  /\ tool' = [tool EXCEPT ![RunOf(t)][wk[t].tool].ran = @ + 1]
  /\ Continues(t, "ran")
  /\ UNCHANGED <<run, held, outcomes, res, batch>>

\* finish_tool_call and observe_tool_result.  A result that may not be shown to
\* the model ends the run, as failed.
FinishToolCall(t, e, state) ==
  /\ At(t, {"ran"})
  /\ MyRow(t).state = "running"
  /\ Heartbeat(t, e)
  /\ tool[RunOf(t)][wk[t].tool].state = "executing"
  /\ tool' = [tool EXCEPT ![RunOf(t)][wk[t].tool].state = state]
  /\ wk' = [wk EXCEPT ![t] =
       IF held'[t] = held[t] THEN [@ EXCEPT !.pc = "lost"]
       ELSE IF state = "completed" THEN [@ EXCEPT !.pc = "tools", !.done = wk[t].done + 1]
       ELSE [@ EXCEPT !.pc = "withheld"]]
  /\ UNCHANGED <<res, batch>>

\* AiAgentLoopGuard::continuation and persist_tool_batch: every tool the turn
\* asked for has a result, and the turn has no other tool row.
PersistToolBatch(t, e) ==
  LET r == RunOf(t)
      rows == {j \in DOMAIN tool[r] : tool[r][j].res = wk[t].res} IN
  /\ At(t, {"tools"})
  /\ wk[t].done = wk[t].asked
  /\ Paid(t)
  /\ Cardinality(rows) = wk[t].asked
  /\ \A j \in rows : tool[r][j].state = "completed"
  /\ LinkCheckpoint(t, e, "tool_batch_persisted")
  /\ batch' = [batch EXCEPT ![r] = [gen |-> held[t].gen, turns |-> wk[t].turns,
                                   calls |-> wk[t].calls, res |-> wk[t].res]]
  /\ Goes(t, "plan")
  /\ UNCHANGED <<res, tool>>

\* persist_output: the assistant message and its final checkpoint.
PersistOutput(t, e) ==
  /\ At(t, {"output"})
  /\ Paid(t)
  /\ LinkCheckpoint(t, e, FinalKind)
  /\ Goes(t, "done")
  /\ UNCHANGED <<res, tool, batch>>

\* Mutant: a provider call that failed fails the run.
EndingsFailProvider(pc) ==
  CASE pc \in {"plan", "withheld", "broken"} -> {"failed"}
    [] pc \in {"rules", "tools"} -> {"failed", "recovery_required"}
    [] pc \in {"adopt", "consume", "prepare", "send", "stream", "turn",
               "exec", "ran", "output"} -> {"recovery_required"}
    [] pc = "done" -> {"completed"}
    [] OTHER -> {}

\* How the coordinator ends a run from where it is: finish_failed when nothing
\* is in doubt (no plan, stale rules, a limit, a withheld result),
\* finish_recovery when something external may have happened, completed.
Endings(pc) ==
  CASE pc \in {"plan", "withheld"} -> {"failed"}
    [] pc \in {"rules", "tools"} -> {"failed", "recovery_required"}
    [] pc \in {"adopt", "consume", "prepare", "send", "stream", "turn",
               "exec", "ran", "output", "broken"} -> {"recovery_required"}
    [] pc = "done" -> {"completed"}
    [] OTHER -> {}

\* Rules are resolved before each tool, not after the last one.
End(t, e) ==
  /\ \E final \in Endings(wk[t].pc) :
       /\ At(t, {"tools"}) /\ final = "failed" => wk[t].done < wk[t].asked
       /\ Finish(t, e, final, IF final = "completed" THEN None ELSE "other")
  /\ wk' = [wk EXCEPT ![t] = IF held'[t] = NoLease THEN Idle
                             ELSE [@ EXCEPT !.pc = "lost"]]
  /\ UNCHANGED <<res, tool, batch>>

\* The task crashes, or returns an error to the host, which drops the lease.
Drop(t) ==
  /\ Crash(t)
  /\ wk' = [wk EXCEPT ![t] = Idle]
  /\ UNCHANGED <<res, tool, batch>>
---------------------------------------------------------------------------
AgentStep(t, e) ==
  \/ \E w \in WorkerId : Claim(t, w, e)
  \/ StartRun(t, e)
  \/ ConsumeBeforeProvider(t, e)
  \/ Reserve(t, e)
  \/ ReleaseUnstarted(t, e)
  \/ MarkUncertain(t, e)
  \/ HeartbeatBeside(t, e)
  \/ \E n \in 0..MaxToolCalls : CommitUsage(t, e, n)
  \/ PersistProviderTurn(t, e)
  \/ BeginToolCall(t, e)
  \/ \E state \in {"completed", "egress_denied"} : FinishToolCall(t, e, state)
  \/ PersistToolBatch(t, e)
  \/ PersistOutput(t, e)
  \/ End(t, e)

OwnStep(t) ==
  \/ AdoptToolBatch(t)
  \/ PlanTurn(t)
  \/ StreamProvider(t)
  \/ ExecuteTool(t)
  \/ Drop(t)

\* What the host, retention and time do to the run table meanwhile.
TableStep ==
  /\ \/ \E e \in Reading : RecoverExpiredLeases(e)
     \/ \E r \in Run : ClearCheckpoint(r)
     \/ Tick
  /\ UNCHANGED <<wk, res, tool, batch>>

RInit ==
  /\ Init
  /\ wk = [t \in Task |-> Idle]
  /\ res = [r \in Run |-> <<>>]
  /\ tool = [r \in Run |-> <<>>]
  /\ batch = [r \in Run |-> NoBatch]

RNext ==
  \/ \E t \in Task, e \in Reading : AgentStep(t, e)
  \/ \E t \in Task : OwnStep(t)
  \/ TableStep

RSpec == RInit /\ [][RNext]_rvars
---------------------------------------------------------------------------
(***************************************************************************)
(* Properties                                                              *)
(***************************************************************************)

RTypeOK ==
  /\ TypeOK
  /\ \A t \in Task : wk[t].pc \in PC
  /\ \A t \in Task : {wk[t].turns, wk[t].calls, wk[t].res, wk[t].asked,
                      wk[t].done, wk[t].tool} \subseteq Nat
  /\ res \in [Run -> Seq(Reservation)]
  /\ tool \in [Run -> Seq(ToolCall)]
  /\ batch \in [Run -> [gen : Nat, turns : Nat, calls : Nat, res : Nat]]

\* "Adoption never reruns a ... preceding provider turn": across crashes,
\* recovery and adoption, no turn of a run is sent to the provider twice.
TurnSentOnce ==
  \A r \in Run : \A i, j \in DOMAIN res[r] :
    /\ res[r][i].sent <= 1
    /\ (res[r][i].sent > 0 /\ res[r][j].sent > 0 /\ i # j) =>
         res[r][i].turn # res[r][j].turn

\* "Adoption never reruns a resolver": no tool call of a turn is executed twice.
ResolverRunsOnce ==
  \A r \in Run : \A i, j \in DOMAIN tool[r] :
    /\ tool[r][i].ran <= 1
    /\ (tool[r][i].ran > 0 /\ tool[r][j].ran > 0 /\ i # j) =>
         <<tool[r][i].turn, tool[r][i].index>> # <<tool[r][j].turn, tool[r][j].index>>

\* A request is sent only under capacity that stays booked until its usage is
\* known: whatever was sent is uncertain or committed, never free again.
SentIsHeld ==
  \A r \in Run : \A i \in DOMAIN res[r] :
    res[r][i].sent > 0 => res[r][i].state \in {"uncertain", "committed"}

\* A run that ends as completed or failed leaves nothing in doubt: every call
\* it made is paid for and every tool it began has a recorded result.  In all
\* other cases it is left to an operator.
EndedInNoDoubt ==
  \A r \in Run : run[r].state \in {"completed", "failed"} =>
    /\ \A i \in DOMAIN res[r] : res[r][i].state = "committed"
    /\ \A j \in DOMAIN tool[r] : tool[r][j].state # "executing"

\* The deployment's limits hold for the run as a whole, not for each attempt.
LoopIsBounded ==
  \A r \in Run :
    /\ Cardinality({i \in DOMAIN res[r] : res[r][i].sent > 0}) <= MaxProviderTurns
    /\ Cardinality({j \in DOMAIN tool[r] : tool[r][j].ran > 0}) <= MaxTotalToolCalls

\* A linked batch is what it claims: its turn is paid for, all tools of the
\* turn have results, and its counts are those of what the run really did.
LinkedBatchIsComplete ==
  \A r \in Run :
    run[r].ckpt # None /\ run[r].ckpt.kind = "tool_batch_persisted" =>
      /\ batch[r].gen = run[r].ckpt.gen
      /\ batch[r].res = Len(res[r])
      /\ TurnIsProved(r, batch[r].res, run[r].ckpt.gen)
      /\ batch[r].turns = Cardinality({i \in DOMAIN res[r] : res[r][i].sent > 0})
      /\ batch[r].calls = Cardinality({j \in DOMAIN tool[r] : tool[r][j].ran > 0})

\* Adoption repeats nothing: neither a turn of the provider nor a resolver.
NothingIsRepeated == TurnSentOnce /\ ResolverRunsOnce

\* The limits hold over all attempts, and the batch from which the next attempt
\* takes its counts tells what the run really did.
CountsAreKept == LoopIsBounded /\ LinkedBatchIsComplete
===========================================================================
