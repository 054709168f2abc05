------------------------ MODULE ReadOnlyAgentProofs ------------------------
(***************************************************************************)
(* What holds of the read-only agent for every number of runs and tasks    *)
(* and every limit.                                                        *)
(*                                                                         *)
(* First, the agent implements the run table: each of its steps is a step  *)
(* of RunLease or leaves the table alone.  Second, what was sent to the    *)
(* provider stays booked; the inductive invariant says that the task       *)
(* between reserving and committing is alone with its reservation.  Third, *)
(* no turn and no tool call is repeated by an adopter, counts go on where  *)
(* the batch left them, and a run that ended is in no doubt.               *)
(***************************************************************************)
EXTENDS ReadOnlyAgent, RunLeaseProofs, SequenceTheorems, FiniteSetTheorems

USE LoopAssumption

TaskState == [pc : PC, turns : Nat, calls : Nat, res : Nat, asked : Nat,
              done : Nat, tool : Nat]

\* Where a task is inside AiProviderCallExecutor::execute with a reservation.
Calling == {"prepare", "send", "stream"}

\* Every task inside a provider call has a reservation to itself, which was not
\* used before the request is sent and is uncertain by then.
BookInv ==
  /\ wk \in [Task -> TaskState]
  /\ res \in [Run -> Seq(Reservation)]
  /\ \A t \in Task : wk[t].pc # "idle" => held[t] # NoLease
  /\ \A t \in Task : wk[t].pc \in Calling => wk[t].res \in 1..Len(res[held[t].run])
  /\ \A t \in Task : wk[t].pc \in {"prepare", "send"} => ReservationOf(t).sent = 0
  /\ \A t \in Task : wk[t].pc = "send" => ReservationOf(t).state = "uncertain"
  /\ \A t, u \in Task :
       /\ wk[t].pc \in Calling /\ wk[u].pc \in Calling
       /\ held[t].run = held[u].run /\ wk[t].res = wk[u].res
       => t = u
  /\ SentIsHeld

\* The tool rows and batches are well formed.
ToolInv ==
  /\ tool \in [Run -> Seq(ToolCall)]
  /\ batch \in [Run -> [gen : Nat, turns : Nat, calls : Nat, res : Nat]]
---------------------------------------------------------------------------
(***************************************************************************)
(* The agent implements the run table                                      *)
(***************************************************************************)

\* What a fenced step of the agent does to the run table is a worker's step.
LEMMA AgentStepRefines ==
  ASSUME NEW t \in Task, NEW e \in Reading, AgentStep(t, e)
  PROVE  [Next]_vars
<1>1. CASE \E w \in WorkerId : Claim(t, w, e)
  BY <1>1 DEF Claim, Next, WorkerStep
<1>2. CASE StartRun(t, e)
  BY <1>2 DEF StartRun, Next, WorkerStep
<1>3. CASE ConsumeBeforeProvider(t, e)
  BY <1>3 DEF ConsumeBeforeProvider, Next, WorkerStep
<1>4. CASE HeartbeatBeside(t, e)
  BY <1>4 DEF HeartbeatBeside, Next, WorkerStep
<1>5. CASE PersistProviderTurn(t, e)
  BY <1>5 DEF PersistProviderTurn, Next, WorkerStep, CheckpointKinds, CoordinatorKinds
<1>6. CASE \E state \in {"completed", "egress_denied"} : FinishToolCall(t, e, state)
  BY <1>6 DEF FinishToolCall, Next, WorkerStep
<1>7. CASE PersistToolBatch(t, e)
  BY <1>7 DEF PersistToolBatch, Next, WorkerStep, CheckpointKinds, CoordinatorKinds,
              AdoptableKinds
<1>8. CASE PersistOutput(t, e)
  BY <1>8 DEF PersistOutput, Next, WorkerStep, CheckpointKinds
<1>9. CASE End(t, e)
  <2>1. PICK final \in Endings(wk[t].pc) :
          Finish(t, e, final, IF final = "completed" THEN None ELSE "other")
    BY <1>9 DEF End
  <2>2. final \in CompletionStates
    BY DEF Endings, CompletionStates, Terminal
  <2> QED
    BY <2>1, <2>2 DEF Next, WorkerStep
<1>10. CASE \/ Reserve(t, e) \/ ReleaseUnstarted(t, e) \/ MarkUncertain(t, e)
            \/ \E n \in 0..MaxToolCalls : CommitUsage(t, e, n)
            \/ BeginToolCall(t, e)
  BY <1>10 DEF Reserve, ReleaseUnstarted, MarkUncertain, CommitUsage,
               BeginToolCall, vars
<1> QED
  BY <1>1, <1>2, <1>3, <1>4, <1>5, <1>6, <1>7, <1>8, <1>9, <1>10 DEF AgentStep

\* Every step is a step of the run table, or leaves it alone.
LEMMA StepRefines == [RNext]_rvars => [Next]_vars
<1> SUFFICES ASSUME [RNext]_rvars PROVE [Next]_vars
  OBVIOUS
<1>1. CASE \E t \in Task, e \in Reading : AgentStep(t, e)
  BY <1>1, AgentStepRefines
<1>2. CASE \E t \in Task : OwnStep(t)
  BY <1>2 DEF OwnStep, AdoptToolBatch, PlanTurn, StreamProvider, ExecuteTool,
              Drop, Next, vars
<1>3. CASE TableStep
  BY <1>3 DEF TableStep, Next, ServiceStep
<1>4. CASE UNCHANGED rvars
  BY <1>4 DEF rvars, vars
<1> QED
  BY <1>1, <1>2, <1>3, <1>4 DEF RNext

\* The read-only agent is one of the run table's clients: the leases,
\* generations and final states of its runs are those of RunLease, so its
\* theorems hold of this deployment.
THEOREM ReadOnlyImplementsRunLease == RSpec => Spec
<1>1. RInit => Init
  BY DEF RInit
<1> QED
  BY <1>1, StepRefines, PTL DEF RSpec, Spec
---------------------------------------------------------------------------
(***************************************************************************)
(* What was sent stays booked                                              *)
(***************************************************************************)

\* A task's step leaves the leases of the others alone.
LEMMA Elsewhere ==
  ASSUME IInv, NEW t \in Task,
         (\E e \in Reading : AgentStep(t, e)) \/ OwnStep(t)
  PROVE  \A u \in Task : u # t => held'[u] = held[u]
<1>1. CASE \E e \in Reading : AgentStep(t, e)
  <2>1. \/ UNCHANGED held
        \/ \E h : held' = [held EXCEPT ![t] = h]
    BY ZenonT(90), <1>1 DEF AgentStep, Claim, ClaimNext, StartRun, Start,
      ConsumeBeforeProvider, ConsumeAdoptionCheckpoint, Reserve, ReleaseUnstarted,
      MarkUncertain, HeartbeatBeside, Heartbeat, CommitUsage, PersistProviderTurn,
      LinkCheckpoint, BeginToolCall, FinishToolCall, PersistToolBatch,
      PersistOutput, End, Finish, Conclude, GiveUp, Write
  <2> QED
    BY SMTT(30), <2>1 DEF IInv, HeldInv
<1>2. CASE OwnStep(t)
  BY <1>2 DEF OwnStep, AdoptToolBatch, PlanTurn, StreamProvider, ExecuteTool,
    Drop, Crash, IInv, HeldInv
<1> QED
  BY <1>1, <1>2

\* A step that leaves task t outside every provider call.
LEMMA BookKept ==
  ASSUME BookInv, UNCHANGED res, NEW t \in Task, NEW w \in TaskState,
         w.pc \notin Calling, w.pc # "idle" => held'[t] # NoLease,
         wk' = [wk EXCEPT ![t] = w],
         \A u \in Task : u # t => held'[u] = held[u]
  PROVE  BookInv'
<1>1. wk' \in [Task -> TaskState] /\ wk'[t] = w
  BY DEF BookInv
<1>2. \A u \in Task : u # t => wk'[u] = wk[u] /\ held'[u] = held[u]
  BY DEF BookInv
<1>3. \A u \in Task : wk'[u].pc \in Calling => u # t
  BY <1>1
<1>4. \A u \in Task : wk'[u].pc # "idle" => held'[u] # NoLease
  BY <1>1, <1>2 DEF BookInv
<1>5. \A u \in Task : wk'[u].pc \in Calling =>
        wk'[u].res \in 1..Len(res'[held'[u].run])
  BY <1>2, <1>3 DEF BookInv
<1>6. \A u \in Task : wk'[u].pc \in Calling => ReservationOf(u)' = ReservationOf(u)
  BY <1>2, <1>3 DEF ReservationOf, RunOf
<1>7. \A u \in Task : wk'[u].pc \in {"prepare", "send"} => ReservationOf(u)'.sent = 0
  BY <1>2, <1>3, <1>6 DEF BookInv, Calling
<1>8. \A u \in Task : wk'[u].pc = "send" => ReservationOf(u)'.state = "uncertain"
  BY <1>2, <1>3, <1>6 DEF BookInv, Calling
<1>9. \A u, v \in Task :
        /\ wk'[u].pc \in Calling /\ wk'[v].pc \in Calling
        /\ held'[u].run = held'[v].run /\ wk'[u].res = wk'[v].res
        => u = v
  BY <1>2, <1>3 DEF BookInv
<1>10. SentIsHeld'
  BY DEF BookInv, SentIsHeld
<1> QED
  BY <1>1, <1>4, <1>5, <1>7, <1>8, <1>9, <1>10 DEF BookInv

\* A heartbeat beside the call: the lease is renewed, the call goes on or not.
LEMMA HeartbeatBook ==
  ASSUME IInv, BookInv, NEW t \in Task, NEW e \in Reading, HeartbeatBeside(t, e),
         \A u \in Task : u # t => held'[u] = held[u]
  PROVE  BookInv'
<1>1. wk[t] \in TaskState /\ wk[t].pc # "idle" /\ held[t] # NoLease
  BY DEF BookInv, HeartbeatBeside, At
<1>2. UNCHANGED res
  BY DEF HeartbeatBeside
<1>3. CASE held'[t] = held[t]
  <2> DEFINE w == [wk[t] EXCEPT !.pc = "lost"]
  <2>1. w \in TaskState /\ w.pc = "lost" /\ wk' = [wk EXCEPT ![t] = w]
    BY <1>1, <1>3 DEF HeartbeatBeside, Goes, TaskState, PC
  <2> HIDE DEF w
  <2> QED
    BY <1>1, <1>2, <1>3, <2>1, BookKept DEF Calling
<1>4. CASE held'[t] # held[t]
  <2>1. wk' = wk
    BY <1>1, <1>4 DEF HeartbeatBeside, Goes, BookInv, TaskState
  <2>2. held'[t].run = held[t].run /\ held'[t] # NoLease
    <3>1. Write(t, Renewed(MyRow(t), e))
      BY DEF HeartbeatBeside, Heartbeat
    <3>2. held'[t] = LeaseOf(held[t].run, Bumped(Renewed(MyRow(t), e)))
      BY <1>4, <3>1 DEF Write, IInv, HeldInv
    <3> QED
      BY <1>1, <3>1, <3>2, WriteHolds DEF LeaseOf
  <2>3. \A u \in Task : held'[u].run = held[u].run
    BY <2>2
  <2>4. \A u \in Task : ReservationOf(u)' = ReservationOf(u)
    BY <1>2, <2>1, <2>3 DEF ReservationOf, RunOf
  <2>5. SentIsHeld'
    BY <1>2 DEF BookInv, SentIsHeld
  <2> QED
    BY <1>2, <2>1, <2>2, <2>3, <2>4, <2>5 DEF BookInv
<1> QED
  BY <1>3, <1>4

\* A task that changes its own reservation: the others' are not touched, for
\* no two tasks share one.
LEMMA OwnReservation ==
  ASSUME IInv, BookInv, NEW t \in Task, wk[t].pc \in Calling, UNCHANGED held,
         NEW w \in TaskState, w.res = wk[t].res, w.pc # "idle",
         wk' = [wk EXCEPT ![t] = w],
         NEW v \in Reservation,
         v.sent > 0 => v.state \in {"uncertain", "committed"},
         w.pc \in {"prepare", "send"} => v.sent = 0,
         w.pc = "send" => v.state = "uncertain",
         res' = [res EXCEPT ![RunOf(t)][wk[t].res] = v]
  PROVE  BookInv'
<1> DEFINE r == held[t].run
           i == wk[t].res
           s == res[r]
           new == [s EXCEPT ![i] = v]
<1>1. held[t] # NoLease /\ r \in Run
  BY HeldRun DEF BookInv, Calling
<1>2. s \in Seq(Reservation) /\ i \in 1..Len(s)
  BY <1>1 DEF BookInv
<1>3. res' = [res EXCEPT ![r] = new]
  BY DEF RunOf
<1>4. /\ new \in Seq(Reservation) /\ Len(new) = Len(s)
      /\ \A j \in 1..Len(s) : new[j] = IF j = i THEN v ELSE s[j]
  <2> HIDE DEF s, i
  <2> QED
    BY <1>2, ExceptSeq
<1>5. res'[r] = new /\ \A q \in Run : q # r => res'[q] = res[q]
  BY <1>1, <1>3 DEF BookInv
<1> HIDE DEF new
<1>6. res' \in [Run -> Seq(Reservation)]
  BY <1>1, <1>3, <1>4 DEF BookInv
<1>7. \A q \in Run : Len(res'[q]) = Len(res[q])
  BY <1>4, <1>5
<1>8. wk' \in [Task -> TaskState] /\ wk'[t] = w /\ \A u \in Task : u # t => wk'[u] = wk[u]
  BY DEF BookInv
<1>9. \A u \in Task : wk'[u].pc \in Calling =>
        wk[u].pc \in Calling /\ held[u].run \in Run /\ wk'[u].res = wk[u].res
  BY <1>8, HeldRun DEF BookInv, Calling
<1>10. ReservationOf(t)' = v
  BY <1>2, <1>4, <1>5, <1>8 DEF ReservationOf, RunOf
<1>11. \A u \in Task : u # t /\ wk'[u].pc \in Calling =>
         ReservationOf(u)' = ReservationOf(u)
  <2> SUFFICES ASSUME NEW u \in Task, u # t, wk'[u].pc \in Calling
               PROVE  ReservationOf(u)' = ReservationOf(u)
    OBVIOUS
  <2>1. held[u].run \in Run /\ wk[u].pc \in Calling /\ wk'[u].res = wk[u].res
    BY <1>9
  <2>2. wk[u].res \in 1..Len(res[held[u].run])
    BY <2>1 DEF BookInv
  <2>3. held[u].run # r \/ wk[u].res # i
    BY <2>1 DEF BookInv
  <2>4. res'[held[u].run][wk[u].res] = res[held[u].run][wk[u].res]
    BY <1>4, <1>5, <2>1, <2>2, <2>3
  <2> QED
    BY <2>1, <2>4 DEF ReservationOf, RunOf
<1>12. \A u \in Task : wk'[u].pc # "idle" => held'[u] # NoLease
  BY <1>1, <1>8 DEF BookInv
<1>13. \A u \in Task : wk'[u].pc \in Calling =>
         wk'[u].res \in 1..Len(res'[held'[u].run])
  BY <1>7, <1>9 DEF BookInv
<1>14. \A u \in Task : wk'[u].pc \in {"prepare", "send"} => ReservationOf(u)'.sent = 0
  BY <1>8, <1>10, <1>11 DEF BookInv, Calling
<1>15. \A u \in Task : wk'[u].pc = "send" => ReservationOf(u)'.state = "uncertain"
  BY <1>8, <1>10, <1>11 DEF BookInv, Calling
<1>16. \A u, x \in Task :
         /\ wk'[u].pc \in Calling /\ wk'[x].pc \in Calling
         /\ held'[u].run = held'[x].run /\ wk'[u].res = wk'[x].res
         => u = x
  BY <1>9 DEF BookInv
<1>17. SentIsHeld'
  <2> SUFFICES ASSUME NEW q \in Run, NEW j \in DOMAIN res'[q], res'[q][j].sent > 0
               PROVE  res'[q][j].state \in {"uncertain", "committed"}
    BY DEF SentIsHeld
  <2>1. res[q] \in Seq(Reservation) /\ res'[q] \in Seq(Reservation)
    BY <1>6 DEF BookInv
  <2>2. j \in 1..Len(res'[q]) /\ j \in 1..Len(res[q]) /\ j \in DOMAIN res[q]
    BY <1>7, <2>1, LenProperties
  <2>3. res'[q][j] = v \/ res'[q][j] = res[q][j]
    BY <1>4, <1>5, <2>2
  <2> QED
    BY <2>2, <2>3 DEF BookInv, SentIsHeld
<1> QED
  BY <1>6, <1>8, <1>12, <1>13, <1>14, <1>15, <1>16, <1>17 DEF BookInv
\* A new reservation is nobody else's.
LEMMA ReserveBook ==
  ASSUME IInv, BookInv, NEW t \in Task, NEW e \in Reading, Reserve(t, e)
  PROVE  BookInv'
<1> DEFINE r == held[t].run
           s == res[r]
           v == [turn |-> wk[t].turns + 1, gen |-> held[t].gen, sent |-> 0,
                 state |-> "reserved"]
           new == Append(s, v)
<1>1. wk[t] \in TaskState /\ held[t] # NoLease /\ r \in Run /\ held[t].gen \in Nat
  BY HeldRun DEF BookInv, Reserve, At
<1>2. s \in Seq(Reservation) /\ Len(s) \in Nat
  BY <1>1, LenProperties DEF BookInv
<1>3. v \in Reservation /\ v.sent = 0
  BY <1>1 DEF TaskState, Reservation
<1>4. res' = [res EXCEPT ![r] = new] /\ UNCHANGED held
  BY DEF Reserve, RunOf
<1>5. PICK next \in {"prepare", "broken"} :
        wk' = [wk EXCEPT ![t] = [wk[t] EXCEPT !.pc = next, !.res = Len(s) + 1]]
  BY DEF Reserve, RunOf
<1> DEFINE w == [wk[t] EXCEPT !.pc = next, !.res = Len(s) + 1]
<1> HIDE DEF v, s
<1>6. w \in TaskState /\ w.pc = next /\ w.res = Len(s) + 1
  <2>1. next \in PC /\ Len(s) + 1 \in Nat
    BY <1>2 DEF PC
  <2> QED
    BY <1>1, <2>1 DEF TaskState
<1> HIDE DEF w
<1>7. /\ new \in Seq(Reservation) /\ Len(new) = Len(s) + 1
      /\ \A j \in 1..Len(s) : new[j] = s[j]
      /\ new[Len(s) + 1] = v
  BY <1>2, <1>3, AppendProperties
<1> HIDE DEF new
<1>8. res'[r] = new /\ \A q \in Run : q # r => res'[q] = res[q]
  BY <1>1, <1>4 DEF BookInv
<1>9. res' \in [Run -> Seq(Reservation)]
  BY <1>1, <1>4, <1>7 DEF BookInv
<1>10. wk' \in [Task -> TaskState] /\ wk'[t] = w /\ \A u \in Task : u # t => wk'[u] = wk[u]
  BY <1>5, <1>6 DEF BookInv, w
<1>11. \A u \in Task : u # t /\ wk'[u].pc \in Calling =>
         /\ wk[u].pc \in Calling /\ held[u].run \in Run
         /\ wk[u].res \in 1..Len(res[held[u].run])
  BY <1>10, HeldRun DEF BookInv, Calling
<1>12. \A u \in Task : u # t /\ wk'[u].pc \in Calling =>
         /\ res'[held[u].run][wk[u].res] = res[held[u].run][wk[u].res]
         /\ wk[u].res \in 1..Len(res'[held[u].run])
         /\ held[u].run = r => wk[u].res # Len(s) + 1
  <2> SUFFICES ASSUME NEW u \in Task, u # t, wk'[u].pc \in Calling
               PROVE  /\ res'[held[u].run][wk[u].res] = res[held[u].run][wk[u].res]
                      /\ wk[u].res \in 1..Len(res'[held[u].run])
                      /\ held[u].run = r => wk[u].res # Len(s) + 1
    OBVIOUS
  <2>1. held[u].run \in Run /\ wk[u].res \in 1..Len(res[held[u].run])
    BY <1>11
  <2>2. CASE held[u].run # r
    BY <1>8, <2>1, <2>2
  <2>3. CASE held[u].run = r
    <3>1. wk[u].res \in 1..Len(s)
      BY <2>1, <2>3 DEF s
    <3>2. wk[u].res \in 1..Len(new) /\ wk[u].res # Len(s) + 1
      BY <1>2, <1>7, <3>1
    <3> QED
      BY <1>7, <1>8, <2>3, <3>1, <3>2 DEF s
  <2> QED
    BY <2>2, <2>3
<1>13. \A u \in Task : u # t /\ wk'[u].pc \in Calling =>
         ReservationOf(u)' = ReservationOf(u)
  BY <1>4, <1>10, <1>12 DEF ReservationOf, RunOf
<1>14. ReservationOf(t)' = v
  BY <1>4, <1>6, <1>7, <1>8, <1>10 DEF ReservationOf, RunOf
<1>15. \A u \in Task : wk'[u].pc # "idle" => held'[u] # NoLease
  BY <1>1, <1>4, <1>10 DEF BookInv
<1>16. \A u \in Task : wk'[u].pc \in Calling =>
         wk'[u].res \in 1..Len(res'[held'[u].run])
  BY <1>2, <1>4, <1>6, <1>7, <1>8, <1>10, <1>12
<1>17. \A u \in Task : wk'[u].pc \in {"prepare", "send"} => ReservationOf(u)'.sent = 0
  BY <1>3, <1>10, <1>13, <1>14 DEF BookInv, Calling
<1>18. \A u \in Task : wk'[u].pc = "send" => ReservationOf(u)'.state = "uncertain"
  BY <1>6, <1>10, <1>13 DEF BookInv, Calling
<1>19. \A u, x \in Task :
         /\ wk'[u].pc \in Calling /\ wk'[x].pc \in Calling
         /\ held'[u].run = held'[x].run /\ wk'[u].res = wk'[x].res
         => u = x
  BY <1>4, <1>6, <1>10, <1>11, <1>12 DEF BookInv
<1>20. SentIsHeld'
  <2> SUFFICES ASSUME NEW q \in Run, NEW j \in DOMAIN res'[q], res'[q][j].sent > 0
               PROVE  res'[q][j].state \in {"uncertain", "committed"}
    BY DEF SentIsHeld
  <2>1. CASE q # r
    BY <1>8, <2>1 DEF BookInv, SentIsHeld
  <2>2. CASE q = r
    <3>1. j \in 1..(Len(s) + 1) /\ DOMAIN s = 1..Len(s)
      BY <1>2, <1>7, <1>8, <2>2, LenProperties
    <3>2. CASE j = Len(s) + 1
      BY <1>3, <1>7, <1>8, <2>2, <3>2
    <3>3. CASE j # Len(s) + 1
      <4>1. j \in 1..Len(s)
        BY <1>2, <3>1, <3>3
      <4>2. res'[q][j] = res[q][j] /\ j \in DOMAIN res[q]
        BY SMTT(30), <1>7, <1>8, <2>2, <3>1, <4>1 DEF s
      <4> QED
        BY <4>2 DEF BookInv, SentIsHeld
    <3> QED
      BY <3>2, <3>3
  <2> QED
    BY <2>1, <2>2
<1> QED
  BY <1>9, <1>10, <1>15, <1>16, <1>17, <1>18, <1>19, <1>20 DEF BookInv
\* The steps of the executor on the reservation at hand: release, mark
\* uncertain, send, commit.
LEMMA CallStepBook ==
  ASSUME IInv, BookInv, NEW t \in Task,
         \/ \E e \in Reading : \/ ReleaseUnstarted(t, e) \/ MarkUncertain(t, e)
                              \/ \E n \in 0..MaxToolCalls : CommitUsage(t, e, n)
         \/ StreamProvider(t)
  PROVE  BookInv'
<1> DEFINE old == ReservationOf(t)
<1>1. wk[t] \in TaskState /\ wk[t].pc \in Calling /\ held[t] # NoLease
  BY DEF BookInv, ReleaseUnstarted, MarkUncertain, CommitUsage, StreamProvider, At, Calling
<1>2. held[t].run \in Run /\ wk[t].res \in 1..Len(res[held[t].run])
  BY <1>1, HeldRun DEF BookInv
<1>3. res[held[t].run] \in Seq(Reservation)
  BY <1>2 DEF BookInv
<1>4. old \in Reservation
  BY <1>2, <1>3, LenProperties DEF ReservationOf, RunOf
<1>5. old.sent > 0 => old.state \in {"uncertain", "committed"}
  <2>1. wk[t].res \in DOMAIN res[held[t].run]
    BY <1>2, <1>3, LenProperties
  <2> QED
    BY <1>2, <2>1 DEF BookInv, SentIsHeld, ReservationOf, RunOf
<1>6. UNCHANGED held
  BY DEF ReleaseUnstarted, MarkUncertain, CommitUsage, StreamProvider
<1>7. \A x : res' = [res EXCEPT ![RunOf(t)][wk[t].res].state = x]
              => res' = [res EXCEPT ![RunOf(t)][wk[t].res] = [old EXCEPT !.state = x]]
  BY <1>2 DEF BookInv, ReservationOf, RunOf
<1>8. CASE \E e \in Reading : ReleaseUnstarted(t, e)
  <2> DEFINE w == [wk[t] EXCEPT !.pc = "broken"]
             v == [old EXCEPT !.state = "released"]
  <2>1. wk[t].pc = "prepare"
    BY <1>8 DEF ReleaseUnstarted, At
  <2>2. old.sent = 0
    BY <2>1 DEF BookInv
  <2>3. v \in Reservation /\ ~(v.sent > 0)
    BY <1>4, <2>2 DEF Reservation
  <2>4. w \in TaskState /\ w.res = wk[t].res /\ w.pc = "broken"
    BY <1>1 DEF TaskState, PC
  <2>5. wk' = [wk EXCEPT ![t] = w]
    BY <1>8 DEF ReleaseUnstarted
  <2>6. res' = [res EXCEPT ![RunOf(t)][wk[t].res] = v]
    BY <1>7, <1>8 DEF ReleaseUnstarted, SetReservation
  <2> HIDE DEF w, v
  <2> QED
    BY <1>1, <1>6, <2>3, <2>4, <2>5, <2>6, OwnReservation
<1>9. CASE \E e \in Reading : MarkUncertain(t, e)
  <2>1. PICK next \in {"send", "broken"} : wk' = [wk EXCEPT ![t].pc = next]
    BY <1>9 DEF MarkUncertain, Continues
  <2> DEFINE w == [wk[t] EXCEPT !.pc = next]
             v == [old EXCEPT !.state = "uncertain"]
  <2>2. wk[t].pc = "prepare"
    BY <1>9 DEF MarkUncertain, At
  <2>3. old.sent = 0
    BY <2>2 DEF BookInv
  <2>4. v \in Reservation /\ v.sent = 0 /\ v.state = "uncertain"
    BY <1>4, <2>3 DEF Reservation
  <2>5. w \in TaskState /\ w.res = wk[t].res /\ w.pc = next
    BY <1>1 DEF TaskState, PC
  <2>6. wk' = [wk EXCEPT ![t] = w]
    BY <2>1
  <2>7. res' = [res EXCEPT ![RunOf(t)][wk[t].res] = v]
    BY <1>7, <1>9 DEF MarkUncertain, SetReservation
  <2> HIDE DEF w, v
  <2> QED
    BY <1>1, <1>6, <2>4, <2>5, <2>6, <2>7, OwnReservation
<1>10. CASE \E e \in Reading : \E n \in 0..MaxToolCalls : CommitUsage(t, e, n)
  <2>1. PICK n \in 0..MaxToolCalls, next \in {"turn", "broken"} :
          wk' = [wk EXCEPT ![t] = [@ EXCEPT !.pc = next, !.asked = n, !.done = 0]]
    BY <1>10 DEF CommitUsage
  <2> DEFINE w == [wk[t] EXCEPT !.pc = next, !.asked = n, !.done = 0]
             v == [old EXCEPT !.state = "committed"]
  <2>2. v \in Reservation /\ v.state = "committed"
    BY <1>4 DEF Reservation
  <2>3. n \in Nat /\ next \in PC
    BY DEF PC
  <2>4. w \in TaskState /\ w.res = wk[t].res /\ w.pc = next
    BY <1>1, <2>3 DEF TaskState
  <2>5. wk' = [wk EXCEPT ![t] = w]
    BY <2>1
  <2>6. res' = [res EXCEPT ![RunOf(t)][wk[t].res] = v]
    BY <1>7, <1>10 DEF CommitUsage, SetReservation
  <2> HIDE DEF w, v
  <2> QED
    BY <1>1, <1>6, <2>2, <2>4, <2>5, <2>6, OwnReservation
<1>11. CASE StreamProvider(t)
  <2>1. PICK next \in {"stream", "broken"} : wk' = [wk EXCEPT ![t].pc = next]
    BY <1>11 DEF StreamProvider, Continues
  <2> DEFINE w == [wk[t] EXCEPT !.pc = next]
             v == [old EXCEPT !.sent = @ + 1]
  <2>2. wk[t].pc = "send"
    BY <1>11 DEF StreamProvider, At
  <2>3. old.state = "uncertain"
    BY <2>2 DEF BookInv
  <2>4. v \in Reservation /\ v.state = "uncertain"
    BY <1>4, <2>3 DEF Reservation
  <2>5. w \in TaskState /\ w.res = wk[t].res /\ w.pc = next
    BY <1>1 DEF TaskState, PC
  <2>6. wk' = [wk EXCEPT ![t] = w]
    BY <2>1
  <2>7. res' = [res EXCEPT ![RunOf(t)][wk[t].res] = v]
    BY <1>2, <1>11 DEF StreamProvider, BookInv, ReservationOf, RunOf
  <2> HIDE DEF w, v
  <2> QED
    BY <1>1, <1>6, <2>4, <2>5, <2>6, <2>7, OwnReservation
<1> QED
  BY <1>8, <1>9, <1>10, <1>11
\* Where Goes leads, outside a provider call.
LEMMA GoesBook ==
  ASSUME IInv, BookInv, NEW t \in Task, NEW pc \in PC \ Calling, pc # "idle",
         wk[t].pc # "idle", Goes(t, pc), UNCHANGED res, held'[t] # NoLease,
         \A u \in Task : u # t => held'[u] = held[u]
  PROVE  BookInv'
<1> DEFINE w == [wk[t] EXCEPT !.pc = IF held'[t] = held[t] THEN "lost" ELSE pc]
<1>1. wk[t] \in TaskState
  BY DEF BookInv
<1>2. w \in TaskState /\ w.pc \notin Calling
  BY <1>1 DEF TaskState, PC, Calling
<1>3. wk' = [wk EXCEPT ![t] = w]
  BY DEF Goes
<1> HIDE DEF w
<1> QED
  BY <1>2, <1>3, BookKept

\* A step that makes or plans a turn, or ends the run, and keeps res.
LEMMA RunStepBook ==
  ASSUME IInv, BookInv, NEW t \in Task, NEW e \in Reading,
         \A u \in Task : u # t => held'[u] = held[u],
         \/ \E w \in WorkerId : Claim(t, w, e)
         \/ StartRun(t, e) \/ ConsumeBeforeProvider(t, e)
         \/ PersistToolBatch(t, e) \/ PersistOutput(t, e) \/ End(t, e)
  PROVE  BookInv'
<1>0. wk[t] \in TaskState /\ UNCHANGED res
  BY DEF BookInv, Claim, StartRun, ConsumeBeforeProvider, PersistToolBatch,
         PersistOutput, End
<1>1. CASE \E w \in WorkerId : Claim(t, w, e)
  <2> DEFINE w == IF held'[t] = NoLease THEN wk[t] ELSE [wk[t] EXCEPT !.pc = "leased"]
  <2>1. wk[t].pc = "idle" /\ wk' = [wk EXCEPT ![t] = w]
    BY <1>1 DEF Claim, At, BookInv
  <2>2. w \in TaskState /\ w.pc \notin Calling /\ (w.pc # "idle" => held'[t] # NoLease)
    BY <1>0, <2>1 DEF TaskState, PC, Calling
  <2> HIDE DEF w
  <2> QED
    BY <1>0, <2>1, <2>2, BookKept
<1>2. CASE StartRun(t, e) \/ ConsumeBeforeProvider(t, e) \/ PersistToolBatch(t, e)
           \/ PersistOutput(t, e)
  <2>1. wk[t].pc # "idle"
    BY <1>2 DEF StartRun, ConsumeBeforeProvider, PersistToolBatch, PersistOutput, At
  <2>2. \E row : Write(t, row)
    BY <1>2 DEF StartRun, Start, ConsumeBeforeProvider, ConsumeAdoptionCheckpoint,
      PersistToolBatch, PersistOutput, LinkCheckpoint
  <2>3. held[t] # NoLease
    BY <2>1 DEF BookInv
  <2>4. held'[t] # NoLease
    BY <2>2, <2>3, WriteHolds
  <2>5. \E pc \in {"plan", "adopt", "rules", "done"} : Goes(t, pc)
    BY <1>2 DEF StartRun, ConsumeBeforeProvider, PersistToolBatch, PersistOutput
  <2> QED
    BY <1>0, <2>1, <2>4, <2>5, GoesBook DEF PC, Calling
<1>3. CASE End(t, e)
  <2> DEFINE w == IF held'[t] = NoLease THEN Idle ELSE [wk[t] EXCEPT !.pc = "lost"]
  <2>1. wk' = [wk EXCEPT ![t] = w]
    BY <1>3 DEF End
  <2>2. w \in TaskState /\ w.pc \notin Calling /\ (w.pc # "idle" => held'[t] # NoLease)
    BY <1>0 DEF TaskState, PC, Calling, Idle
  <2> HIDE DEF w
  <2> QED
    BY <1>0, <2>1, <2>2, BookKept
<1> QED
  BY <1>1, <1>2, <1>3

\* The steps that record a turn's result and run its tools.
LEMMA ToolStepBook ==
  ASSUME IInv, BookInv, ToolInv, NEW t \in Task, NEW e \in Reading,
         \A u \in Task : u # t => held'[u] = held[u],
         \/ PersistProviderTurn(t, e) \/ BeginToolCall(t, e)
         \/ \E state \in {"completed", "egress_denied"} : FinishToolCall(t, e, state)
  PROVE  BookInv'
<1>0. /\ wk[t] \in TaskState /\ UNCHANGED res
      /\ wk[t].pc # "idle" /\ held[t] # NoLease
  BY DEF BookInv, PersistProviderTurn, BeginToolCall, FinishToolCall, At
<1>1. \E w \in TaskState : /\ w.pc \notin Calling /\ w.pc # "idle"
                           /\ wk' = [wk EXCEPT ![t] = w]
  <2>1. CASE wk' = [wk EXCEPT ![t] = [wk[t] EXCEPT !.pc = "lost"]]
    <3>1. [wk[t] EXCEPT !.pc = "lost"] \in TaskState
      BY <1>0 DEF TaskState, PC
    <3>2. [wk[t] EXCEPT !.pc = "lost"].pc = "lost"
      BY <1>0 DEF TaskState
    <3> QED
      BY <2>1, <3>1, <3>2 DEF Calling
  <2>2. CASE PersistProviderTurn(t, e) /\ held'[t] # held[t]
    <3> DEFINE pc == IF wk[t].asked = 0 THEN "output" ELSE "tools"
               w == [wk[t] EXCEPT !.pc = pc, !.turns = wk[t].turns + 1,
                                  !.calls = wk[t].calls + wk[t].asked]
    <3>1. pc \in PC /\ pc \notin Calling /\ pc # "idle"
      BY DEF PC, Calling
    <3>2. wk' = [wk EXCEPT ![t] = w]
      BY <1>0, <2>2 DEF PersistProviderTurn, TaskState
    <3>3. wk[t].turns + 1 \in Nat /\ wk[t].calls + wk[t].asked \in Nat
      BY <1>0 DEF TaskState
    <3> HIDE DEF pc
    <3>4. w \in TaskState /\ w.pc = pc
      BY <1>0, <3>1, <3>3 DEF TaskState
    <3> QED
      BY <3>1, <3>2, <3>4
  <2>3. CASE BeginToolCall(t, e)
    <3>1. PICK next \in {"exec", "broken"} :
            wk' = [wk EXCEPT ![t] = [@ EXCEPT !.pc = next,
                                              !.tool = Len(tool[RunOf(t)]) + 1]]
      BY <2>3 DEF BeginToolCall
    <3> DEFINE n == Len(tool[RunOf(t)]) + 1
               w == [wk[t] EXCEPT !.pc = next, !.tool = n]
    <3>2. next \in PC /\ next \notin Calling /\ next # "idle"
      BY DEF PC, Calling
    <3>3. wk' = [wk EXCEPT ![t] = w]
      BY <3>1
    <3>4. n \in Nat
      BY <1>0, HeldRun, LenProperties DEF ToolInv, RunOf
    <3> HIDE DEF n
    <3>5. w \in TaskState /\ w.pc = next
      BY <1>0, <3>2, <3>4 DEF TaskState
    <3> QED
      BY <3>2, <3>3, <3>5
  <2>4. CASE FinishToolCall(t, e, "completed") /\ held'[t] # held[t]
    <3> DEFINE w == [wk[t] EXCEPT !.pc = "tools", !.done = wk[t].done + 1]
    <3>1. wk' = [wk EXCEPT ![t] = w]
      BY <1>0, <2>4 DEF FinishToolCall, TaskState
    <3>2. wk[t].done + 1 \in Nat
      BY <1>0 DEF TaskState
    <3>3. w \in TaskState /\ w.pc = "tools"
      BY <1>0, <3>2 DEF TaskState, PC
    <3> HIDE DEF w
    <3> QED
      BY <3>1, <3>3 DEF Calling
  <2>5. CASE FinishToolCall(t, e, "egress_denied") /\ held'[t] # held[t]
    <3> DEFINE w == [wk[t] EXCEPT !.pc = "withheld"]
    <3>1. wk' = [wk EXCEPT ![t] = w]
      BY <2>5 DEF FinishToolCall
    <3>2. w \in TaskState /\ w.pc = "withheld"
      BY <1>0 DEF TaskState, PC
    <3> HIDE DEF w
    <3> QED
      BY <3>1, <3>2 DEF Calling
  <2>6. CASE held'[t] = held[t] /\ ~BeginToolCall(t, e)
    <3>1. wk' = [wk EXCEPT ![t] = [wk[t] EXCEPT !.pc = "lost"]]
      BY <2>6 DEF PersistProviderTurn, FinishToolCall
    <3> QED
      BY <2>1, <3>1
  <2> QED
    BY <2>2, <2>3, <2>4, <2>5, <2>6
<1>2. held'[t] # NoLease
  <2>1. UNCHANGED held \/ \E row : Write(t, row)
    BY DEF PersistProviderTurn, LinkCheckpoint, BeginToolCall, FinishToolCall, Heartbeat
  <2> QED
    BY <1>0, <2>1, WriteHolds
<1> QED
  BY <1>0, <1>1, <1>2, BookKept
\* A task's own steps outside the provider call.
LEMMA OwnStepBook ==
  ASSUME IInv, BookInv, ToolInv, NEW t \in Task,
         \A u \in Task : u # t => held'[u] = held[u],
         AdoptToolBatch(t) \/ PlanTurn(t) \/ ExecuteTool(t) \/ Drop(t)
  PROVE  BookInv'
<1>0. wk[t] \in TaskState /\ UNCHANGED res
  BY DEF BookInv, AdoptToolBatch, PlanTurn, ExecuteTool, Drop
<1>1. CASE AdoptToolBatch(t)
  <2> DEFINE b == batch[RunOf(t)]
             w == [wk[t] EXCEPT !.pc = "plan", !.turns = b.turns, !.calls = b.calls]
  <2>1. wk' = [wk EXCEPT ![t] = w]
    BY <1>1 DEF AdoptToolBatch
  <2>2. b.turns \in Nat /\ b.calls \in Nat
    BY <1>1 DEF AdoptToolBatch
  <2>3. held[t] # NoLease /\ held'[t] = held[t]
    BY <1>1 DEF AdoptToolBatch, At, BookInv
  <2> HIDE DEF b
  <2>4. w \in TaskState /\ w.pc = "plan"
    BY <1>0, <2>2 DEF TaskState, PC
  <2> HIDE DEF w
  <2> QED
    BY <1>0, <2>1, <2>3, <2>4, BookKept DEF Calling
<1>2. CASE PlanTurn(t) \/ ExecuteTool(t)
  <2>1. PICK pc \in {"rules", "consume", "ran", "broken"} : wk' = [wk EXCEPT ![t].pc = pc]
    BY <1>2 DEF PlanTurn, ExecuteTool, Continues
  <2> DEFINE w == [wk[t] EXCEPT !.pc = pc]
  <2>2. wk' = [wk EXCEPT ![t] = w]
    BY <2>1
  <2>3. w \in TaskState /\ w.pc = pc
    BY <1>0 DEF TaskState, PC
  <2>4. held[t] # NoLease /\ held'[t] = held[t]
    BY <1>2 DEF PlanTurn, ExecuteTool, At, BookInv
  <2> HIDE DEF w
  <2> QED
    BY <1>0, <2>2, <2>3, <2>4, BookKept DEF Calling
<1>3. CASE Drop(t)
  <2>1. Idle \in TaskState /\ Idle.pc = "idle"
    BY DEF Idle, TaskState, PC
  <2>2. wk' = [wk EXCEPT ![t] = Idle]
    BY <1>3 DEF Drop
  <2> QED
    BY <1>0, <2>1, <2>2, BookKept DEF Calling
<1> QED
  BY <1>1, <1>2, <1>3

\* Every step keeps the bookings.
LEMMA StepBook == IInv /\ BookInv /\ ToolInv /\ [RNext]_rvars => BookInv'
<1> SUFFICES ASSUME IInv, BookInv, ToolInv, [RNext]_rvars PROVE BookInv'
  OBVIOUS
<1>1. CASE \E t \in Task, e \in Reading : AgentStep(t, e)
  <2>1. PICK t \in Task, e \in Reading : AgentStep(t, e)
    BY <1>1
  <2>2. \A u \in Task : u # t => held'[u] = held[u]
    BY <2>1, Elsewhere
  <2>3. CASE \/ \E w \in WorkerId : Claim(t, w, e)
             \/ StartRun(t, e) \/ ConsumeBeforeProvider(t, e)
             \/ PersistToolBatch(t, e) \/ PersistOutput(t, e) \/ End(t, e)
    BY <2>2, <2>3, RunStepBook
  <2>4. CASE \/ PersistProviderTurn(t, e) \/ BeginToolCall(t, e)
             \/ \E state \in {"completed", "egress_denied"} : FinishToolCall(t, e, state)
    BY <2>2, <2>4, ToolStepBook
  <2>5. CASE Reserve(t, e)
    BY <2>5, ReserveBook
  <2>6. CASE HeartbeatBeside(t, e)
    BY <2>2, <2>6, HeartbeatBook
  <2>7. CASE \/ ReleaseUnstarted(t, e) \/ MarkUncertain(t, e)
             \/ \E n \in 0..MaxToolCalls : CommitUsage(t, e, n)
    BY <2>7, CallStepBook
  <2> QED
    BY <2>1, <2>3, <2>4, <2>5, <2>6, <2>7 DEF AgentStep
<1>2. CASE \E t \in Task : OwnStep(t)
  <2>1. PICK t \in Task : OwnStep(t)
    BY <1>2
  <2>2. \A u \in Task : u # t => held'[u] = held[u]
    BY <2>1, Elsewhere
  <2> QED
    BY <2>1, <2>2, OwnStepBook, CallStepBook DEF OwnStep
<1>3. CASE TableStep \/ UNCHANGED rvars
  <2>1. UNCHANGED <<held, wk, res>>
    BY <1>3 DEF TableStep, RecoverExpiredLeases, ClearCheckpoint, Tick, rvars
  <2>2. \A u \in Task : ReservationOf(u)' = ReservationOf(u)
    BY <2>1 DEF ReservationOf, RunOf
  <2>3. SentIsHeld'
    BY <2>1 DEF BookInv, SentIsHeld
  <2> QED
    BY <2>1, <2>2, <2>3 DEF BookInv
<1> QED
  BY <1>1, <1>2, <1>3 DEF RNext
\* Replacing a row, or none, by a well formed one.
LEMMA ReplaceRow ==
  ASSUME NEW S, NEW seq \in Seq(S), NEW i, NEW v, i \in 1..Len(seq) => v \in S
  PROVE  [seq EXCEPT ![i] = v] \in Seq(S)
<1>1. CASE i \in 1..Len(seq)
  BY <1>1, ExceptSeq
<1>2. CASE i \notin 1..Len(seq)
  <2>1. seq \in [1..Len(seq) -> S]
    BY LenProperties
  <2>2. [seq EXCEPT ![i] = v] = seq
    BY <1>2, <2>1
  <2> QED
    BY <2>2
<1> QED
  BY <1>1, <1>2

\* Every step keeps the tool rows and the batches well formed.
LEMMA StepTool == IInv /\ BookInv /\ ToolInv /\ [RNext]_rvars => ToolInv'
<1> SUFFICES ASSUME IInv, BookInv, ToolInv, [RNext]_rvars PROVE ToolInv'
  OBVIOUS
<1> DEFINE Batch == [gen : Nat, turns : Nat, calls : Nat, res : Nat]
<1>1. CASE \E t \in Task, e \in Reading : BeginToolCall(t, e)
  <2>1. PICK t \in Task, e \in Reading : BeginToolCall(t, e)
    BY <1>1
  <2> DEFINE v == [turn |-> wk[t].turns, index |-> wk[t].done + 1, gen |-> held[t].gen,
                   res |-> wk[t].res, ran |-> 0, state |-> "executing"]
  <2>2. held[t] # NoLease /\ wk[t] \in TaskState
    BY <2>1 DEF BeginToolCall, At, BookInv
  <2>3. held[t].run \in Run /\ held[t].gen \in Nat
    BY <2>2, HeldRun
  <2>4. v \in ToolCall
    BY <2>2, <2>3 DEF TaskState, ToolCall
  <2>5. UNCHANGED batch /\ tool' = [tool EXCEPT ![held[t].run] = Append(tool[held[t].run], v)]
    BY <2>1 DEF BeginToolCall, RunOf
  <2> HIDE DEF v
  <2>6. Append(tool[held[t].run], v) \in Seq(ToolCall)
    BY <2>3, <2>4, AppendProperties DEF ToolInv
  <2> QED
    BY <2>3, <2>5, <2>6 DEF ToolInv
<1>2. CASE \E t \in Task : ExecuteTool(t)
  <2>1. PICK t \in Task : ExecuteTool(t)
    BY <1>2
  <2> DEFINE s == tool[held[t].run]
             i == wk[t].tool
             v == [s[i] EXCEPT !.ran = s[i].ran + 1]
  <2>2. held[t] # NoLease
    BY <2>1 DEF ExecuteTool, At, BookInv
  <2>3. held[t].run \in Run
    BY <2>2, HeldRun
  <2>4. s \in Seq(ToolCall)
    BY <2>3 DEF ToolInv
  <2>5. UNCHANGED batch /\ tool' = [tool EXCEPT ![held[t].run] = [s EXCEPT ![i] = v]]
    BY <2>1 DEF ExecuteTool, RunOf
  <2> HIDE DEF s, i
  <2>6. i \in 1..Len(s) => s[i] \in ToolCall
    BY <2>4, LenProperties
  <2>7. i \in 1..Len(s) => v \in ToolCall
    BY SMTT(30), <2>6 DEF ToolCall
  <2> HIDE DEF v
  <2>8. [s EXCEPT ![i] = v] \in Seq(ToolCall)
    BY <2>4, <2>7, ReplaceRow
  <2> QED
    BY <2>3, <2>5, <2>8 DEF ToolInv
<1>3. CASE \E t \in Task, e \in Reading, state \in {"completed", "egress_denied"} :
             FinishToolCall(t, e, state)
  <2>1. PICK t \in Task, e \in Reading, state \in {"completed", "egress_denied"} :
          FinishToolCall(t, e, state)
    BY <1>3
  <2> DEFINE s == tool[held[t].run]
             i == wk[t].tool
             v == [s[i] EXCEPT !.state = state]
  <2>2. held[t] # NoLease
    BY <2>1 DEF FinishToolCall, At, BookInv
  <2>3. held[t].run \in Run
    BY <2>2, HeldRun
  <2>4. s \in Seq(ToolCall)
    BY <2>3 DEF ToolInv
  <2>5. UNCHANGED batch /\ tool' = [tool EXCEPT ![held[t].run] = [s EXCEPT ![i] = v]]
    BY <2>1 DEF FinishToolCall, RunOf
  <2> HIDE DEF s, i
  <2>6. i \in 1..Len(s) => s[i] \in ToolCall
    BY <2>4, LenProperties
  <2>7. i \in 1..Len(s) => v \in ToolCall
    BY <2>6 DEF ToolCall
  <2> HIDE DEF v
  <2>8. [s EXCEPT ![i] = v] \in Seq(ToolCall)
    BY <2>4, <2>7, ReplaceRow
  <2> QED
    BY <2>3, <2>5, <2>8 DEF ToolInv
<1>4. CASE \E t \in Task, e \in Reading : PersistToolBatch(t, e)
  <2>1. PICK t \in Task, e \in Reading : PersistToolBatch(t, e)
    BY <1>4
  <2> DEFINE b == [gen |-> held[t].gen, turns |-> wk[t].turns,
                   calls |-> wk[t].calls, res |-> wk[t].res]
  <2>2. held[t] # NoLease /\ wk[t] \in TaskState
    BY <2>1 DEF PersistToolBatch, At, BookInv
  <2>3. held[t].run \in Run /\ held[t].gen \in Nat
    BY <2>2, HeldRun
  <2>4. b \in Batch
    BY <2>2, <2>3 DEF TaskState
  <2>5. UNCHANGED tool /\ batch' = [batch EXCEPT ![held[t].run] = b]
    BY <2>1 DEF PersistToolBatch, RunOf
  <2> HIDE DEF b
  <2> QED
    BY <2>3, <2>4, <2>5 DEF ToolInv
<1>5. CASE UNCHANGED <<tool, batch>>
  BY <1>5 DEF ToolInv
<1>6. \/ \E t \in Task, e \in Reading :
           \/ BeginToolCall(t, e) \/ PersistToolBatch(t, e)
           \/ \E state \in {"completed", "egress_denied"} : FinishToolCall(t, e, state)
      \/ \E t \in Task : ExecuteTool(t)
      \/ UNCHANGED <<tool, batch>>
  <2>1. CASE \E t \in Task, e \in Reading : AgentStep(t, e)
    <3>1. PICK t \in Task, e \in Reading : AgentStep(t, e)
      BY <2>1
    <3>2. \/ BeginToolCall(t, e) \/ PersistToolBatch(t, e)
          \/ \E state \in {"completed", "egress_denied"} : FinishToolCall(t, e, state)
          \/ UNCHANGED <<tool, batch>>
      BY <3>1 DEF AgentStep, Claim, StartRun, ConsumeBeforeProvider, Reserve,
        ReleaseUnstarted, MarkUncertain, HeartbeatBeside, CommitUsage,
        PersistProviderTurn, PersistOutput, End
    <3> QED
      BY <3>2
  <2>2. CASE \E t \in Task : OwnStep(t)
    BY <2>2 DEF OwnStep, AdoptToolBatch, PlanTurn, StreamProvider, Drop
  <2>3. CASE TableStep \/ UNCHANGED rvars
    BY <2>3 DEF TableStep, rvars
  <2> QED
    BY <2>1, <2>2, <2>3 DEF RNext
<1> QED
  BY <1>1, <1>2, <1>3, <1>4, <1>5, <1>6

\* The initial state: nothing is leased, reserved or begun.
LEMMA InitBook == RInit => IInv /\ BookInv /\ ToolInv
<1> SUFFICES ASSUME RInit PROVE IInv /\ BookInv /\ ToolInv
  OBVIOUS
<1>1. IInv
  BY InitInv DEF RInit
<1>2. \A t \in Task : wk[t] = Idle /\ Idle.pc = "idle"
  BY DEF RInit, Idle
<1>3. Idle \in TaskState
  BY DEF Idle, TaskState, PC
<1>4. wk \in [Task -> TaskState]
  BY <1>3 DEF RInit
<1>5. /\ res \in [Run -> Seq(Reservation)] /\ \A r \in Run : DOMAIN res[r] = {}
      /\ tool \in [Run -> Seq(ToolCall)]
  BY EmptySeq DEF RInit
<1>6. SentIsHeld
  BY <1>5 DEF SentIsHeld
<1>7. NoBatch \in [gen : Nat, turns : Nat, calls : Nat, res : Nat]
  BY DEF NoBatch
<1>8. ToolInv
  BY <1>5, <1>7 DEF ToolInv, RInit
<1>9. BookInv
  BY <1>2, <1>4, <1>5, <1>6 DEF BookInv, Calling
<1> QED
  BY <1>1, <1>8, <1>9

\* The inductive invariant, from which both theorems follow.
LEMMA BookAlways == RSpec => [](IInv /\ BookInv /\ ToolInv)
<1>1. IInv /\ BookInv /\ ToolInv /\ [RNext]_rvars => (IInv /\ BookInv /\ ToolInv)'
  BY StepRefines, NextInv, StepBook, StepTool
<1> QED
  BY InitBook, <1>1, PTL DEF RSpec

\* The rows and the coordinators' memory are well formed, whatever fails.
THEOREM ReadOnlyTypeCorrect == RSpec => []RTypeOK
<1>1. IInv => TypeOK
  BY DEF IInv, HeldInv, TypeOK
<1>2. BookInv /\ ToolInv /\ TypeOK => RTypeOK
  <2> SUFFICES ASSUME BookInv, ToolInv, TypeOK PROVE RTypeOK
    OBVIOUS
  <2>1. \A t \in Task : wk[t] \in TaskState
    BY DEF BookInv
  <2>2. \A t \in Task : wk[t].pc \in PC
    BY <2>1 DEF TaskState
  <2>3. \A t \in Task : {wk[t].turns, wk[t].calls, wk[t].res, wk[t].asked,
                        wk[t].done, wk[t].tool} \subseteq Nat
    BY <2>1 DEF TaskState
  <2> QED
    BY <2>2, <2>3 DEF RTypeOK, BookInv, ToolInv
<1> QED
  BY BookAlways, <1>1, <1>2, PTL

\* Whatever the provider may have received stays booked, as uncertain or
\* committed: a crash, a lost reply or a stale lease between marking, sending
\* and committing never frees the capacity.
THEOREM SentStaysBooked == RSpec => []SentIsHeld
<1>1. BookInv => SentIsHeld
  BY DEF BookInv
<1> QED
  BY BookAlways, <1>1, PTL
---------------------------------------------------------------------------
(***************************************************************************)
(* Nothing is repeated, nothing is lost from count or left in doubt        *)
(*                                                                         *)
(* A run is claimed again only while it has done nothing, or while it      *)
(* links all it has done.  Whoever may still reach the provider or a       *)
(* resolver works on the latest attempt of a run that nobody will claim.   *)
(* Below s, c, b and row are the reservations, the tool rows, the batch    *)
(* and the row of a run, w and h the memory and the lease of a task.       *)
(***************************************************************************)

\* Where what a task does next may count.
Started == {"rules", "prepare", "send", "stream", "turn", "tools", "exec", "ran",
            "withheld", "output"}

LinksBatch(row) == row.ckpt # None /\ row.ckpt.kind = "tool_batch_persisted"
AllPaid(s) == \A i \in 1..Len(s) : s[i].state = "committed" /\ s[i].sent = 1
AllRan(c) == \A j \in 1..Len(c) : c[j].state = "completed" /\ c[j].ran = 1
NoDoubt(s, c) ==
  /\ \A i \in 1..Len(s) : s[i].state = "committed"
  /\ \A j \in 1..Len(c) : c[j].state # "executing"

\* Reservations are the turns in their order, tool rows calls of these turns.
History(s, c) ==
  /\ Len(s) <= MaxProviderTurns /\ Len(c) <= MaxTotalToolCalls
  /\ \A i \in 1..Len(s) : s[i].turn = i /\ s[i].sent <= 1
  /\ \A j \in 1..Len(c) : c[j].ran <= 1 /\ c[j].res = c[j].turn /\ c[j].turn <= Len(s)
  /\ \A j, k \in 1..Len(c) :
       c[j].turn = c[k].turn /\ c[j].index = c[k].index => j = k

\* What is left to adopt is all the run did.
Batched(row, s, c, b) ==
  /\ Len(s) >= 1 /\ b.turns = Len(s) /\ b.res = Len(s) /\ b.calls = Len(c)
  /\ b.gen = row.ckpt.gen
  /\ AllPaid(s) /\ AllRan(c)
  /\ s[Len(s)].gen = row.ckpt.gen
  /\ \A j \in 1..Len(c) : c[j].res = Len(s) => c[j].gen = row.ckpt.gen

\* A run that can be claimed did nothing yet, or links all it did.
Fits(row, s, c, b) ==
  /\ History(s, c)
  /\ row.ckpt # None =>
       row.ckpt.kind \in {"tool_batch_persisted", "provider_turn_persisted", FinalKind}
  /\ LinksBatch(row) => Batched(row, s, c, b)
  /\ Final(row) \/ row.state \in {"completed", "failed"} => NoDoubt(s, c)
  /\ row.state \in ClaimableStates \cup {"leased"} =>
       /\ row.ckpt = None => Len(s) = 0 /\ Len(c) = 0
       /\ row.ckpt # None => LinksBatch(row)
  /\ row.state \in ClaimableStates /\ row.ckpt # None =>
       row.err = "checkpoint_adoption_ready"

\* The latest attempt is the task's; and nobody else will ever claim the run.
Mine(h, row) == h # NoLease /\ h.gen = row.gen
Alone(h, row) ==
  /\ Mine(h, row)
  /\ row.state \in {"running", "recovery_required"}
  /\ ~LinksBatch(row) /\ ~Final(row)

\* The task plans the first turn of a run, or one that a linked batch feeds.
First(w, h) == w.pc = "plan" /\ h.ckpt = None
Fed(w, h, row) == w.pc \in {"plan", "consume"} /\ Mine(h, row) /\ LinksBatch(row)

\* Between turns, in the provider call, and among the tools of a turn.
Ready(w, s, c) ==
  w.turns = Len(s) /\ w.calls = Len(c) /\ AllPaid(s) /\ AllRan(c)
InCall(w, h, s, c) ==
  /\ w.res = w.turns + 1 /\ w.res = Len(s) /\ w.calls = Len(c)
  /\ \A i \in 1..Len(s) : i # w.res => s[i].state = "committed" /\ s[i].sent = 1
  /\ AllRan(c) /\ \A j \in 1..Len(c) : c[j].turn <= w.turns
  /\ s[w.res].gen = h.gen
  /\ w.pc \in {"prepare", "send"} => s[w.res].sent = 0
  /\ w.pc \in {"stream", "turn"} => s[w.res].sent = 1
  /\ w.pc = "turn" => s[w.res].state = "committed" /\ w.done = 0
Begun(w) == IF w.pc = "tools" THEN w.done ELSE w.done + 1
InTools(w, h, s, c) ==
  /\ w.turns = Len(s) /\ w.res = w.turns /\ w.res >= 1 /\ AllPaid(s)
  /\ s[w.res].gen = h.gen
  /\ Begun(w) <= w.asked /\ w.asked <= w.calls /\ w.calls <= MaxTotalToolCalls
  /\ Len(c) + w.asked = w.calls + Begun(w)
  /\ \A j \in 1..Len(c) : /\ c[j].res = w.res => c[j].gen = h.gen
                          /\ c[j].turn = w.turns => c[j].index <= Begun(w)
  /\ w.pc = "tools" => AllRan(c)
  /\ w.pc # "tools" =>
       /\ w.tool = Len(c) /\ w.tool >= 1
       /\ c[w.tool].state = "executing"
       /\ c[w.tool].ran = IF w.pc = "exec" THEN 0 ELSE 1
       /\ \A j \in 1..Len(c) : j # w.tool => c[j].state = "completed" /\ c[j].ran = 1

\* What the program counter of a task says of the run.
Knows(w, h, row, s, c) ==
  /\ w.pc \in {"leased", "adopt"} => w.turns = 0 /\ w.calls = 0
  /\ w.pc \in {"adopt", "consume"} => h.ckpt # None
  /\ w.pc \in {"adopt", "plan", "consume"} =>
       h.ckpt = None \/ h.ckpt.kind = "tool_batch_persisted"
  /\ w.pc = "done" => h.ckpt # None /\ h.ckpt.kind = FinalKind
  /\ w.pc \in Started \/ First(w, h) => Alone(h, row)
  /\ w.pc = "rules" \/ First(w, h) \/ Fed(w, h, row) => Ready(w, s, c)
  /\ w.pc \in {"prepare", "send", "stream", "turn"} => InCall(w, h, s, c)
  /\ w.pc \in {"tools", "exec", "ran"} => InTools(w, h, s, c)
  /\ w.pc \in {"withheld", "output"} => NoDoubt(s, c)

\* An attempt is of one task.
Attempts ==
  /\ \A t \in Task : held[t] # NoLease => held[t].gen <= run[held[t].run].gen
  /\ \A t, u \in Task :
       /\ held[t] # NoLease /\ held[u] # NoLease
       /\ held[t].run = held[u].run /\ held[t].gen = held[u].gen
       => t = u

RunFits(r) == Fits(run[r], res[r], tool[r], batch[r])
TaskFits(t) ==
  /\ wk[t].pc = "idle" => wk[t].turns = 0 /\ wk[t].calls = 0
  /\ held[t] # NoLease =>
       Knows(wk[t], held[t], run[held[t].run], res[held[t].run], tool[held[t].run])
AgentInv ==
  /\ Attempts
  /\ \A r \in Run : RunFits(r)
  /\ \A t \in Task : TaskFits(t)
\* A task whose attempt is not the latest knows nothing that could change.
LEMMA StaleKnows ==
  ASSUME NEW w, NEW h, NEW row, NEW s, NEW c, Knows(w, h, row, s, c), ~Mine(h, row),
         NEW row2, NEW s2, NEW c2, ~Mine(h, row2)
  PROVE  Knows(w, h, row2, s2, c2)
<1>1. w.pc \notin Started /\ ~First(w, h)
  BY DEF Knows, Alone
<1> QED BY <1>1 DEF Knows, Started, Fed

\* What else happens to the row of the task's attempt leaves it alone.
LEMMA KnowsRow ==
  ASSUME NEW w, NEW h, NEW row, NEW s, NEW c, Knows(w, h, row, s, c),
         NEW row2, row2.gen = row.gen,
         Alone(h, row) => Alone(h, row2), LinksBatch(row2) => LinksBatch(row)
  PROVE  Knows(w, h, row2, s, c)
<1>1. Fed(w, h, row2) => Fed(w, h, row)
  BY DEF Fed, Mine
<1> QED BY <1>1 DEF Knows

\* A step of task t on its run r touches nothing else.
Only(t, r) ==
  /\ \A u \in Task \ {t} : held'[u] = held[u] /\ wk'[u] = wk[u]
  /\ held'[t] # NoLease => held'[t].run = r
  /\ \A q \in Run \ {r} :
       /\ run'[q] = run[q] /\ res'[q] = res[q] /\ tool'[q] = tool[q] /\ batch'[q] = batch[q]

\* The other runs are as they were.
LEMMA OtherRuns ==
  ASSUME AgentInv, NEW t \in Task, NEW r \in Run, Only(t, r), RunFits(r)'
  PROVE  \A q \in Run : RunFits(q)'
BY DEF AgentInv, Only, RunFits

\* Of those that work on r, only t holds the latest attempt.
LEMMA OthersAreStale ==
  ASSUME AgentInv, NEW t \in Task, held[t] # NoLease, Mine(held[t], run[held[t].run]),
         NEW u \in Task \ {t}, held[u] # NoLease, held[u].run = held[t].run
  PROVE  ~Mine(held[u], run[held[u].run])
BY DEF AgentInv, Attempts, Mine

\* A step of the task with the latest attempt, on its own run.
LEMMA OwnStepFits ==
  ASSUME IInv, AgentInv, NEW t \in Task, held[t] # NoLease, Mine(held[t], run[held[t].run]),
         NEW r \in Run, held[t].run = r,
         Only(t, r), run'[r].gen = run[r].gen,
         held'[t] # NoLease => held'[t].gen = held[t].gen,
         RunFits(r)', TaskFits(t)'
  PROVE  AgentInv'
<1>1. ASSUME NEW u \in Task PROVE TaskFits(u)'
  <2>1. CASE u = t
    BY <2>1
  <2>2. CASE u # t
    <3>1. held'[u] = held[u] /\ wk'[u] = wk[u] /\ TaskFits(u)
      BY <2>2 DEF Only, AgentInv
    <3>2. CASE held[u] = NoLease
      BY <3>1, <3>2 DEF TaskFits
    <3>3. CASE held[u] # NoLease /\ held[u].run # r
      <4>1. held[u].run \in Run \ {r}
        BY <3>3, HeldRun
      <4> QED BY <3>1, <3>3, <4>1 DEF TaskFits, Only
    <3>4. CASE held[u] # NoLease /\ held[u].run = r
      <4>1. ~Mine(held[u], run[r])
        BY <2>2, <3>4, OthersAreStale
      <4>2. ~Mine(held[u], run'[r])
        BY <4>1 DEF Mine
      <4>3. Knows(wk[u], held[u], run[r], res[r], tool[r])
        BY <3>1, <3>4 DEF TaskFits
      <4>4. Knows(wk[u], held[u], run'[r], res'[r], tool'[r])
        BY <4>1, <4>2, <4>3, StaleKnows
      <4> QED BY <3>1, <3>4, <4>4 DEF TaskFits
    <3> QED BY <3>2, <3>3, <3>4
  <2> QED BY <2>1, <2>2
<1>2. Attempts'
  <2>1. ASSUME NEW u \in Task, held'[u] # NoLease
        PROVE  held[u] # NoLease /\ held'[u].run = held[u].run /\ held'[u].gen = held[u].gen
    BY <2>1 DEF Only
  <2>2. ASSUME NEW u \in Task, held'[u] # NoLease
        PROVE  held'[u].gen <= run'[held'[u].run].gen
    <3>1. held[u] # NoLease /\ held'[u].run = held[u].run /\ held'[u].gen = held[u].gen
      BY <2>1, <2>2
    <3>2. held[u].run \in Run /\ held[u].gen <= run[held[u].run].gen
      BY <3>1, HeldRun DEF AgentInv, Attempts
    <3>3. run'[held[u].run].gen = run[held[u].run].gen
      BY <3>2 DEF Only
    <3> QED BY <3>1, <3>2, <3>3
  <2> QED BY <2>1, <2>2 DEF AgentInv, Attempts
<1> QED BY <1>1, <1>2, OtherRuns DEF AgentInv

\* What a fenced task knows of its row.
LEMMA FencedMine ==
  ASSUME IInv, NEW t \in Task, NEW e \in Reading, Fenced(t, e)
  PROVE  /\ held[t] # NoLease /\ held[t].run \in Run
         /\ Mine(held[t], run[held[t].run])
         /\ held[t].ckpt = MyRow(t).ckpt /\ held[t].gen = MyRow(t).gen
         /\ MyRow(t).attempt = MyRow(t).gen /\ MyRow(t) \in Row
<1>1. held[t] # NoLease /\ held[t] = LeaseOf(held[t].run, MyRow(t))
  BY DEF Fenced, Matches, MyRow
<1>2. held[t].run \in Run /\ MyRow(t) \in Row /\ RowInv(MyRow(t))
      /\ MyRow(t).state \in LeasedStates
  BY FencedFacts
<1>3. MyRow(t).attempt = MyRow(t).gen
  BY <1>2 DEF RowInv, WellFormed
<1>4. held[t].ckpt = MyRow(t).ckpt /\ held[t].gen = MyRow(t).gen
  BY <1>1 DEF LeaseOf
<1> QED BY <1>1, <1>2, <1>3, <1>4 DEF Mine, MyRow

\* What a step of t makes of its memory and of the run it works on.
Does(t, w, s, c, b) ==
  /\ wk' = [wk EXCEPT ![t] = w]
  /\ res' = [res EXCEPT ![RunOf(t)] = s]
  /\ tool' = [tool EXCEPT ![RunOf(t)] = c]
  /\ batch' = [batch EXCEPT ![RunOf(t)] = b]

\* The same, read component by component.
LEMMA DoesIt ==
  ASSUME IInv, BookInv, ToolInv, NEW t \in Task, held[t] # NoLease,
         NEW w, NEW s, NEW c, NEW b, Does(t, w, s, c, b)
  PROVE  /\ wk'[t] = w /\ \A u \in Task \ {t} : wk'[u] = wk[u]
         /\ held[t].run \in Run
         /\ res'[held[t].run] = s /\ tool'[held[t].run] = c /\ batch'[held[t].run] = b
         /\ \A q \in Run \ {held[t].run} :
              res'[q] = res[q] /\ tool'[q] = tool[q] /\ batch'[q] = batch[q]
BY HeldRun DEF Does, RunOf, BookInv, ToolInv

\* Such a step beside the run table.
LEMMA MemoryStep ==
  ASSUME IInv, BookInv, ToolInv, AgentInv, NEW t \in Task, held[t] # NoLease,
         UNCHANGED <<run, held>>, Mine(held[t], run[held[t].run]),
         NEW w, NEW s, NEW c, NEW b, Does(t, w, s, c, b), w.pc # "idle",
         Fits(run[held[t].run], s, c, b), Knows(w, held[t], run[held[t].run], s, c)
  PROVE  AgentInv'
<1> DEFINE r == held[t].run
<1>1. /\ wk'[t] = w /\ \A u \in Task \ {t} : wk'[u] = wk[u]
      /\ r \in Run /\ res'[r] = s /\ tool'[r] = c /\ batch'[r] = b
      /\ \A q \in Run \ {r} : res'[q] = res[q] /\ tool'[q] = tool[q] /\ batch'[q] = batch[q]
  BY DoesIt
<1>2. Only(t, r)
  BY <1>1 DEF Only
<1>3. RunFits(r)' /\ TaskFits(t)'
  BY <1>1 DEF RunFits, TaskFits
<1>4. held'[t].gen = held[t].gen /\ run'[r].gen = run[r].gen
  OBVIOUS
<1> QED BY <1>1, <1>2, <1>3, <1>4, OwnStepFits

\* A task that only thinks.
LEMMA ThoughtStep ==
  ASSUME IInv, BookInv, ToolInv, AgentInv, NEW t \in Task, held[t] # NoLease,
         UNCHANGED <<run, held, res, tool, batch>>,
         NEW w, wk' = [wk EXCEPT ![t] = w], w.pc # "idle",
         Knows(w, held[t], run[held[t].run], res[held[t].run], tool[held[t].run])
  PROVE  AgentInv'
<1>1. wk'[t] = w /\ \A u \in Task \ {t} : wk'[u] = wk[u]
  BY DEF BookInv
<1>2. \A r \in Run : RunFits(r)'
  BY DEF AgentInv, RunFits
<1>3. \A u \in Task : TaskFits(u)'
  BY <1>1 DEF AgentInv, TaskFits
<1>4. Attempts'
  BY DEF AgentInv, Attempts
<1> QED BY <1>2, <1>3, <1>4 DEF AgentInv

\* The version of a row tells nobody anything.
LEMMA BumpedFits ==
  ASSUME NEW row, NEW s, NEW c, NEW b, row \in Row
  PROVE  /\ Fits(row, s, c, b) => Fits(Bumped(row), s, c, b)
         /\ \A w, h : Knows(w, h, row, s, c) => Knows(w, h, Bumped(row), s, c)
         /\ Bumped(row).gen = row.gen
<1>1. /\ Bumped(row).gen = row.gen /\ Bumped(row).state = row.state
      /\ Bumped(row).ckpt = row.ckpt /\ Bumped(row).err = row.err
  BY DEF Bumped, Row
<1> HIDE DEF Bumped
<1>2. Fits(row, s, c, b) => Fits(Bumped(row), s, c, b)
  BY <1>1 DEF Fits, LinksBatch, Batched, Final
<1>3. ASSUME NEW w, NEW h, Knows(w, h, row, s, c) PROVE Knows(w, h, Bumped(row), s, c)
  BY <1>1, <1>3, KnowsRow DEF Alone, Mine, LinksBatch, Final
<1> QED BY <1>1, <1>2, <1>3

\* A fenced write that goes along with it.
LEMMA WriteStep ==
  ASSUME IInv, BookInv, ToolInv, AgentInv, NEW t \in Task, NEW e \in Reading, Fenced(t, e),
         NEW new \in Row, new.gen = MyRow(t).gen, Write(t, new) \/ GiveUp(t, new),
         NEW w, NEW s, NEW c, NEW b, Does(t, w, s, c, b),
         w.pc = "idle" => w.turns = 0 /\ w.calls = 0,
         Fits(new, s, c, b),
         held'[t] # NoLease => Knows(w, held'[t], new, s, c)
  PROVE  AgentInv'
<1>1. held[t] # NoLease /\ held[t].run \in Run /\ Mine(held[t], run[held[t].run])
      /\ MyRow(t) = run[held[t].run]
  BY FencedMine DEF MyRow
<1>0. PICK r \in Run : r = held[t].run
  BY <1>1
<1>2. run' = [run EXCEPT ![r] = Bumped(new)]
      /\ (held' = held \/ held' = [held EXCEPT ![t] = NoLease]
          \/ held' = [held EXCEPT ![t] = LeaseOf(r, Bumped(new))])
  BY <1>0 DEF Write, GiveUp
<1>3. run'[r] = Bumped(new) /\ \A q \in Run \ {r} : run'[q] = run[q]
  BY <1>2 DEF IInv
<1>4. /\ wk'[t] = w /\ \A u \in Task \ {t} : wk'[u] = wk[u]
      /\ res'[r] = s /\ tool'[r] = c /\ batch'[r] = b
      /\ \A q \in Run \ {r} : res'[q] = res[q] /\ tool'[q] = tool[q] /\ batch'[q] = batch[q]
  BY <1>0, <1>1, DoesIt
<1>5. /\ \A u \in Task \ {t} : held'[u] = held[u]
      /\ held'[t] \in {held[t], NoLease, LeaseOf(r, Bumped(new))}
  BY <1>2 DEF IInv, HeldInv
<1>6. Bumped(new).gen = new.gen /\ new.gen = run[r].gen /\ held[t].gen = run[r].gen
  BY <1>0, <1>1, BumpedFits DEF Mine
<1>7. held'[t] # NoLease => held'[t].run = r /\ held'[t].gen = held[t].gen
  BY <1>0, <1>5, <1>6 DEF LeaseOf
<1>8. Only(t, r)
  BY <1>3, <1>4, <1>5, <1>7 DEF Only
<1>9. RunFits(r)'
  <2>1. Fits(Bumped(new), s, c, b)
    BY BumpedFits
  <2>2. Fits(run'[r], res'[r], tool'[r], batch'[r])
    BY <1>3, <1>4, <2>1
  <2> QED BY <2>2 DEF RunFits
<1>10. TaskFits(t)'
  <2>1. held'[t] # NoLease => Knows(w, held'[t], Bumped(new), s, c)
    BY BumpedFits
  <2>2. held'[t] # NoLease => Knows(wk'[t], held'[t], run'[r], res'[r], tool'[r])
    BY <1>3, <1>4, <2>1
  <2> QED BY <1>4, <1>7, <2>2 DEF TaskFits
<1> QED BY <1>0, <1>1, <1>3, <1>6, <1>7, <1>8, <1>9, <1>10, OwnStepFits
---------------------------------------------------------------------------
(* What the steps make of what a task knows *)

\* A task that has a lease: its memory, its run, and what it knows.
LEMMA AtWork ==
  ASSUME IInv, BookInv, ToolInv, AgentInv, NEW t \in Task, wk[t].pc # "idle"
  PROVE  LET r == held[t].run IN
         /\ held[t] # NoLease /\ r \in Run /\ wk[t] \in TaskState /\ run[r] \in Row
         /\ res[r] \in Seq(Reservation) /\ tool[r] \in Seq(ToolCall)
         /\ Fits(run[r], res[r], tool[r], batch[r])
         /\ Knows(wk[t], held[t], run[r], res[r], tool[r])
<1>1. held[t] # NoLease /\ wk[t] \in TaskState
  BY DEF BookInv
<1>2. held[t].run \in Run
  BY <1>1, HeldRun
<1>3. RunFits(held[t].run) /\ TaskFits(t)
  BY <1>2 DEF AgentInv
<1> QED BY <1>1, <1>2, <1>3 DEF RunFits, TaskFits, BookInv, ToolInv, IInv

\* A task that has given up knows nothing.
LEMMA LostKnows ==
  ASSUME NEW w, w.pc \in {"broken", "lost"}, NEW h, NEW row, NEW s, NEW c
  PROVE  Knows(w, h, row, s, c)
BY DEF Knows, Started, First, Fed

\* A renewed lease shows the same attempt and checkpoint.
LEMMA KnowsLease ==
  ASSUME NEW w, NEW h, NEW row, NEW s, NEW c, Knows(w, h, row, s, c),
         h # NoLease, NEW h2, h2 # NoLease, h2.gen = h.gen, h2.ckpt = h.ckpt
  PROVE  Knows(w, h2, row, s, c)
<1>1. /\ Mine(h2, row) <=> Mine(h, row)
      /\ First(w, h2) <=> First(w, h)
  BY DEF Mine, First
<1>2. /\ Alone(h2, row) <=> Alone(h, row)
      /\ Fed(w, h2, row) <=> Fed(w, h, row)
  BY <1>1 DEF Alone, Fed
<1>3. /\ InCall(w, h2, s, c) <=> InCall(w, h, s, c)
      /\ InTools(w, h2, s, c) <=> InTools(w, h, s, c)
  BY DEF InCall, InTools
<1> QED BY <1>1, <1>2, <1>3 DEF Knows

\* A run that nobody will claim has to have a history, no more.
LEMMA AloneFits ==
  ASSUME NEW h, NEW row, Alone(h, row),
         row.ckpt # None => row.ckpt.kind = "provider_turn_persisted",
         NEW s, NEW c, History(s, c), NEW b
  PROVE  Fits(row, s, c, b)
BY DEF Fits, Alone, ClaimableStates

\* Nor can such a run link anything but the result of a turn.
LEMMA AloneKind ==
  ASSUME NEW h, NEW row, Alone(h, row), NEW s, NEW c, NEW b, Fits(row, s, c, b)
  PROVE  row.ckpt # None => row.ckpt.kind = "provider_turn_persisted"
BY DEF Fits, Alone, LinksBatch, Final

\* Planning a turn starts it, or goes on to the batch that feeds it.
LEMMA PlanKnows ==
  ASSUME NEW w \in TaskState, w.pc = "plan", NEW h, NEW row, NEW s, NEW c,
         Knows(w, h, row, s, c)
  PROVE  Knows([w EXCEPT !.pc = IF h.ckpt = None THEN "rules" ELSE "consume"],
               h, row, s, c)
<1> DEFINE new == [w EXCEPT !.pc = IF h.ckpt = None THEN "rules" ELSE "consume"]
<1>1. /\ new.pc = (IF h.ckpt = None THEN "rules" ELSE "consume")
      /\ new.turns = w.turns /\ new.calls = w.calls
  BY DEF TaskState
<1> HIDE DEF new
<1>2. CASE h.ckpt = None
  BY <1>1, <1>2 DEF Knows, Started, First, Fed, Ready
<1>3. CASE h.ckpt # None
  BY <1>1, <1>3 DEF Knows, Started, First, Fed, Ready
<1> QED BY <1>2, <1>3 DEF new

\* An adopter counts on from the batch.
LEMMA AdoptKnows ==
  ASSUME NEW w, w.pc = "adopt", NEW h, NEW row, NEW s, NEW c, NEW b,
         Knows(w, h, row, s, c), Fits(row, s, c, b),
         NEW new, new.pc = "plan", new.turns = b.turns, new.calls = b.calls
  PROVE  Knows(new, h, row, s, c)
<1>1. Fed(new, h, row) => Ready(new, s, c)
  BY DEF Fed, Fits, Batched, Ready
<1> QED BY <1>1 DEF Knows, Started, First
---------------------------------------------------------------------------
(* Steps beside the run table *)

\* A sequence that a step replaces, of two that it may leave alone.
LEMMA Unchanged ==
  ASSUME BookInv, ToolInv, NEW r \in Run
  PROVE  /\ UNCHANGED res => res' = [res EXCEPT ![r] = res[r]]
         /\ UNCHANGED tool => tool' = [tool EXCEPT ![r] = tool[r]]
         /\ UNCHANGED batch => batch' = [batch EXCEPT ![r] = batch[r]]
BY DEF BookInv, ToolInv

\* A turn is planned.
LEMMA PlanStep ==
  ASSUME IInv, BookInv, ToolInv, AgentInv, NEW t \in Task, PlanTurn(t)
  PROVE  AgentInv'
<1> DEFINE new == [wk[t] EXCEPT !.pc = IF held[t].ckpt = None THEN "rules" ELSE "consume"]
<1>1. wk[t].pc = "plan" /\ UNCHANGED <<run, held, res, tool, batch>>
      /\ wk' = [wk EXCEPT ![t] = new]
  BY DEF PlanTurn, At
<1>2. /\ held[t] # NoLease /\ wk[t] \in TaskState
      /\ Knows(wk[t], held[t], run[held[t].run], res[held[t].run], tool[held[t].run])
  BY <1>1, AtWork
<1>3. new.pc # "idle"
  BY <1>2 DEF TaskState
<1>4. Knows(new, held[t], run[held[t].run], res[held[t].run], tool[held[t].run])
  BY <1>1, <1>2, PlanKnows
<1> HIDE DEF new
<1> QED BY <1>1, <1>2, <1>3, <1>4, ThoughtStep

\* A batch is adopted.
LEMMA AdoptStep ==
  ASSUME IInv, BookInv, ToolInv, AgentInv, NEW t \in Task, AdoptToolBatch(t)
  PROVE  AgentInv'
<1> DEFINE b == batch[held[t].run]
           new == [wk[t] EXCEPT !.pc = "plan", !.turns = b.turns, !.calls = b.calls]
<1>1. wk[t].pc = "adopt" /\ UNCHANGED <<run, held, res, tool, batch>>
      /\ wk' = [wk EXCEPT ![t] = new]
  BY DEF AdoptToolBatch, At, RunOf
<1>2. /\ held[t] # NoLease /\ wk[t] \in TaskState
      /\ Fits(run[held[t].run], res[held[t].run], tool[held[t].run], b)
      /\ Knows(wk[t], held[t], run[held[t].run], res[held[t].run], tool[held[t].run])
  BY <1>1, AtWork
<1>3. new.pc = "plan" /\ new.turns = b.turns /\ new.calls = b.calls
  BY <1>2 DEF TaskState
<1> HIDE DEF new, b
<1>4. Knows(new, held[t], run[held[t].run], res[held[t].run], tool[held[t].run])
  BY <1>1, <1>2, <1>3, AdoptKnows
<1> QED BY <1>1, <1>2, <1>3, <1>4, ThoughtStep

\* A step of a task that is alone with its run, on the history of the run.
LEMMA AloneStep ==
  ASSUME IInv, BookInv, ToolInv, AgentInv, NEW t \in Task, wk[t].pc # "idle",
         UNCHANGED <<run, held, batch>>, Alone(held[t], run[held[t].run]),
         NEW w, NEW s, NEW c,
         wk' = [wk EXCEPT ![t] = w],
         res' = [res EXCEPT ![held[t].run] = s],
         tool' = [tool EXCEPT ![held[t].run] = c],
         w.pc # "idle", History(s, c),
         Knows(w, held[t], run[held[t].run], s, c)
  PROVE  AgentInv'
<1>1. /\ held[t] # NoLease /\ held[t].run \in Run
      /\ Fits(run[held[t].run], res[held[t].run], tool[held[t].run], batch[held[t].run])
  BY AtWork
<1>2. Fits(run[held[t].run], s, c, batch[held[t].run])
  BY <1>1, AloneKind, AloneFits
<1>3. Does(t, w, s, c, batch[held[t].run])
  BY <1>1, Unchanged DEF Does, RunOf
<1>4. Mine(held[t], run[held[t].run])
  BY DEF Alone
<1> QED BY <1>1, <1>2, <1>3, <1>4, MemoryStep

\* A new reservation: the next turn.
LEMMA ReserveStep ==
  ASSUME IInv, BookInv, ToolInv, AgentInv, NEW t \in Task, NEW e \in Reading, Reserve(t, e)
  PROVE  AgentInv'
<1> DEFINE w == wk[t]
           h == held[t]
           row == run[held[t].run]
           s == res[held[t].run]
           c == tool[held[t].run]
           v == [turn |-> w.turns + 1, gen |-> h.gen, sent |-> 0, state |-> "reserved"]
           s2 == Append(s, v)
<1>1. w.pc = "rules" /\ w.turns < MaxProviderTurns
  BY DEF Reserve, At
<1>2. /\ h # NoLease /\ h.run \in Run /\ w \in TaskState
      /\ s \in Seq(Reservation) /\ c \in Seq(ToolCall)
      /\ Fits(row, s, c, batch[h.run]) /\ Knows(w, h, row, s, c)
  BY <1>1, AtWork
<1>3. PICK next \in {"prepare", "broken"} :
        wk' = [wk EXCEPT ![t] = [w EXCEPT !.pc = next, !.res = Len(s) + 1]]
  BY DEF Reserve, RunOf
<1> DEFINE w2 == [w EXCEPT !.pc = next, !.res = Len(s) + 1]
<1>4. /\ wk' = [wk EXCEPT ![t] = w2] /\ res' = [res EXCEPT ![h.run] = s2]
      /\ tool' = [tool EXCEPT ![h.run] = c] /\ UNCHANGED <<run, held, batch>>
  BY <1>2, <1>3, Unchanged DEF Reserve, RunOf
<1>5. v \in Reservation /\ v.turn = w.turns + 1 /\ v.gen = h.gen /\ v.sent = 0
  BY <1>2, HeldRun DEF TaskState, Reservation
<1>6. /\ w2.pc \in {"prepare", "broken"} /\ w2.turns = w.turns
      /\ w2.calls = w.calls /\ w2.res = Len(s) + 1
  BY <1>2, <1>3 DEF TaskState
<1> HIDE DEF w, h, row, s, c, v, w2
<1>7. Alone(h, row) /\ w.turns = Len(s) /\ w.calls = Len(c) /\ AllPaid(s) /\ AllRan(c)
      /\ History(s, c)
  BY <1>1, <1>2 DEF Knows, Started, Ready, Fits
<1>8. Len(s) \in Nat /\ Len(c) \in Nat /\ v.turn = Len(s) + 1
  BY <1>2, <1>5, <1>7, LenProperties
<1>9. /\ Len(s2) = Len(s) + 1 /\ s2[Len(s) + 1] = v
      /\ \A i \in 1..Len(s) : s2[i] = s[i]
  BY <1>2, <1>5, AppendProperties
<1> HIDE DEF s2
<1>10. \A i \in 1..Len(s2) : i \in 1..Len(s) \/ i = Len(s) + 1
  BY <1>8, <1>9
<1>11. History(s2, c)
  <2>1. Len(s2) <= MaxProviderTurns
    BY <1>1, <1>7, <1>8, <1>9
  <2>2. \A i \in 1..Len(s2) : s2[i].turn = i /\ s2[i].sent <= 1
    BY <1>5, <1>7, <1>8, <1>9, <1>10 DEF History
  <2>3. \A j \in 1..Len(c) : c[j].turn \in Nat
    <3>1. \A j \in 1..Len(c) : c[j] \in ToolCall
      BY <1>2, LenProperties
    <3> QED BY <3>1 DEF ToolCall
  <2>4. \A j \in 1..Len(c) : c[j].turn <= Len(s)
    BY <1>7 DEF History
  <2>5. \A j \in 1..Len(c) : c[j].turn <= Len(s2)
    BY <1>8, <1>9, <2>3, <2>4
  <2> QED BY <1>7, <2>1, <2>2, <2>5 DEF History
<1>12. w2.pc = "prepare" => InCall(w2, h, s2, c)
  <2>1. \A i \in 1..Len(s2) : i # w2.res => s2[i].state = "committed" /\ s2[i].sent = 1
    BY <1>6, <1>7, <1>9, <1>10 DEF AllPaid
  <2>2. \A j \in 1..Len(c) : c[j].turn <= w2.turns
    BY <1>6, <1>7 DEF History
  <2>3. w2.res = w2.turns + 1 /\ w2.res = Len(s2) /\ w2.calls = Len(c)
    BY <1>6, <1>7, <1>9
  <2>4. s2[w2.res] = v
    BY <1>6, <1>9
  <2> QED BY <1>5, <1>6, <1>7, <2>1, <2>2, <2>3, <2>4 DEF InCall
<1>13. Knows(w2, h, row, s2, c)
  BY <1>6, <1>7, <1>12, LostKnows DEF Knows, Started, First, Fed
<1>14. wk[t].pc # "idle" /\ w2.pc # "idle"
  BY <1>1, <1>6 DEF w
<1> QED BY <1>4, <1>7, <1>11, <1>13, <1>14, AloneStep DEF h, row

\* A task inside the provider call moves its reservation on, and itself.
MovesOn(t, v, w) ==
  /\ res' = [res EXCEPT ![RunOf(t)][wk[t].res] = v]
  /\ wk' = [wk EXCEPT ![t] = w]
  /\ v \in Reservation /\ v.sent <= 1
  /\ v.turn = ReservationOf(t).turn /\ v.gen = ReservationOf(t).gen
  /\ w.turns = wk[t].turns /\ w.calls = wk[t].calls /\ w.res = wk[t].res
  /\ w.pc \in {"send", "stream", "turn", "broken"}
  /\ w.pc = "send" => v.sent = 0
  /\ w.pc \in {"stream", "turn"} => v.sent = 1
  /\ w.pc = "turn" => v.state = "committed" /\ w.done = 0

\* Such a step keeps the invariant.
LEMMA CallStep ==
  ASSUME IInv, BookInv, ToolInv, AgentInv, NEW t \in Task,
         wk[t].pc \in {"prepare", "send", "stream"}, UNCHANGED <<run, held, tool, batch>>,
         NEW v, NEW w2, MovesOn(t, v, w2)
  PROVE  AgentInv'
<1>0. /\ res' = [res EXCEPT ![RunOf(t)][wk[t].res] = v]
      /\ wk' = [wk EXCEPT ![t] = w2]
      /\ v \in Reservation /\ v.sent <= 1
      /\ v.turn = ReservationOf(t).turn /\ v.gen = ReservationOf(t).gen
      /\ w2.turns = wk[t].turns /\ w2.calls = wk[t].calls /\ w2.res = wk[t].res
      /\ w2.pc \in {"send", "stream", "turn", "broken"}
      /\ w2.pc = "send" => v.sent = 0
      /\ w2.pc \in {"stream", "turn"} => v.sent = 1
      /\ w2.pc = "turn" => v.state = "committed" /\ w2.done = 0
  BY DEF MovesOn
<1> DEFINE w == wk[t]
           h == held[t]
           row == run[held[t].run]
           s == res[held[t].run]
           c == tool[held[t].run]
           s2 == [s EXCEPT ![w.res] = v]
<1>1. w.pc \in {"prepare", "send", "stream"}
  OBVIOUS
<1>2. /\ h # NoLease /\ h.run \in Run /\ w \in TaskState
      /\ s \in Seq(Reservation) /\ c \in Seq(ToolCall)
      /\ Fits(row, s, c, batch[h.run]) /\ Knows(w, h, row, s, c)
  BY <1>1, AtWork
<1>3. /\ wk' = [wk EXCEPT ![t] = w2] /\ res' = [res EXCEPT ![h.run] = s2]
      /\ tool' = [tool EXCEPT ![h.run] = c] /\ UNCHANGED <<run, held, batch>>
  BY <1>0, <1>2, Unchanged DEF RunOf
<1>4. v.turn = s[w.res].turn /\ v.gen = s[w.res].gen
  BY <1>0 DEF ReservationOf, RunOf
<1>5. w2.turns = w.turns /\ w2.calls = w.calls /\ w2.res = w.res
  BY <1>0
<1> HIDE DEF w, h, row, s, c
<1>6. Alone(h, row) /\ InCall(w, h, s, c) /\ History(s, c)
  BY <1>1, <1>2 DEF Knows, Started, Fits
<1>7. w.turns \in Nat /\ Len(s) \in Nat /\ w.res \in 1..Len(s)
  BY <1>2, <1>6, LenProperties DEF InCall, TaskState
<1>8. /\ Len(s2) = Len(s) /\ s2[w.res] = v
      /\ \A i \in 1..Len(s) : i # w.res => s2[i] = s[i]
  BY <1>2, <1>7, ExceptSeq
<1> HIDE DEF s2
<1>9. History(s2, c)
  BY <1>0, <1>4, <1>6, <1>7, <1>8 DEF History
<1>10. w2.pc # "broken" => InCall(w2, h, s2, c)
  BY <1>0, <1>4, <1>5, <1>6, <1>7, <1>8 DEF InCall
<1>11. Knows(w2, h, row, s2, c)
  BY <1>0, <1>6, <1>10, LostKnows DEF Knows, Started, First, Fed
<1>12. wk[t].pc # "idle" /\ w2.pc # "idle"
  BY <1>0
<1> QED BY <1>3, <1>6, <1>9, <1>11, <1>12, AloneStep DEF h, row

\* The reservation of a task inside the provider call, and its state replaced.
Owns(t) ==
  LET old == ReservationOf(t) IN
  /\ wk[t] \in TaskState /\ held[t].run \in Run
  /\ old \in Reservation
  /\ wk[t].pc \in {"prepare", "send"} => old.sent = 0
  /\ wk[t].pc = "stream" => old.sent = 1
  /\ \A x : res' = [res EXCEPT ![RunOf(t)][wk[t].res].state = x]
         => res' = [res EXCEPT ![RunOf(t)][wk[t].res] = [old EXCEPT !.state = x]]
  /\ \A x \in {"reserved", "released", "uncertain", "committed"} :
       LET v == [old EXCEPT !.state = x] IN
       /\ v \in Reservation /\ v.turn = old.turn /\ v.gen = old.gen
       /\ v.sent = old.sent /\ v.state = x

\* A task inside the provider call owns its reservation.
LEMMA OwnCall ==
  ASSUME IInv, BookInv, ToolInv, AgentInv, NEW t \in Task,
         wk[t].pc \in {"prepare", "send", "stream"}
  PROVE  Owns(t)
<1> DEFINE old == ReservationOf(t)
<1>2. /\ held[t] # NoLease /\ held[t].run \in Run /\ wk[t] \in TaskState
      /\ res[held[t].run] \in Seq(Reservation)
      /\ Knows(wk[t], held[t], run[held[t].run], res[held[t].run], tool[held[t].run])
  BY AtWork
<1>3. InCall(wk[t], held[t], res[held[t].run], tool[held[t].run])
  BY <1>2 DEF Knows
<1>4. wk[t].res \in 1..Len(res[held[t].run])
  BY SMTT(30), <1>2, <1>3, LenProperties DEF InCall, TaskState
<1>5. /\ old \in Reservation
      /\ wk[t].pc \in {"prepare", "send"} => old.sent = 0
      /\ wk[t].pc = "stream" => old.sent = 1
  BY <1>2, <1>3, <1>4, LenProperties DEF ReservationOf, RunOf, InCall
<1>6. /\ \A x : res' = [res EXCEPT ![RunOf(t)][wk[t].res].state = x]
                => res' = [res EXCEPT ![RunOf(t)][wk[t].res] = [old EXCEPT !.state = x]]
      /\ \A x \in {"reserved", "released", "uncertain", "committed"} :
           LET v == [old EXCEPT !.state = x] IN
           /\ v \in Reservation /\ v.turn = old.turn /\ v.gen = old.gen
           /\ v.sent = old.sent /\ v.state = x
  <2>1. \A x : res' = [res EXCEPT ![RunOf(t)][wk[t].res].state = x]
                => res' = [res EXCEPT ![RunOf(t)][wk[t].res] = [old EXCEPT !.state = x]]
    BY <1>2 DEF BookInv, ReservationOf, RunOf
  <2> HIDE DEF old
  <2>2. \A x \in {"reserved", "released", "uncertain", "committed"} :
           LET v == [old EXCEPT !.state = x] IN
           /\ v \in Reservation /\ v.turn = old.turn /\ v.gen = old.gen
           /\ v.sent = old.sent /\ v.state = x
    BY <1>5 DEF Reservation
  <2> QED BY <2>1, <2>2
<1> QED BY <1>2, <1>5, <1>6 DEF Owns

\* What was not sent may be released.
LEMMA ReleaseStep ==
  ASSUME IInv, BookInv, ToolInv, AgentInv, NEW t \in Task, NEW e \in Reading,
         ReleaseUnstarted(t, e)
  PROVE  AgentInv'
<1> DEFINE old == ReservationOf(t)
<1>c. wk[t].pc \in {"prepare", "send", "stream"} /\ UNCHANGED <<run, held, tool, batch>>
  BY DEF ReleaseUnstarted, At
<1>o. Owns(t)
  BY <1>c, OwnCall
<1> USE DEF Owns
<1> DEFINE w == [wk[t] EXCEPT !.pc = "broken"]
           v == [old EXCEPT !.state = "released"]
<1>1. /\ wk[t].pc = "prepare" /\ wk' = [wk EXCEPT ![t] = w]
      /\ res' = [res EXCEPT ![RunOf(t)][wk[t].res] = v]
  BY <1>o DEF ReleaseUnstarted, At, SetReservation
<1>2. v \in Reservation /\ v.turn = old.turn /\ v.gen = old.gen /\ v.sent = 0
  BY <1>o, <1>1
<1>3. /\ w.pc = "broken" /\ w.turns = wk[t].turns /\ w.calls = wk[t].calls
      /\ w.res = wk[t].res
  BY <1>o DEF TaskState
<1> HIDE DEF w, v
<1>4. MovesOn(t, v, w)
  BY <1>1, <1>2, <1>3 DEF MovesOn
<1> QED BY <1>c, <1>4, CallStep

\* The reservation says that the request may have been sent.
LEMMA MarkStep ==
  ASSUME IInv, BookInv, ToolInv, AgentInv, NEW t \in Task, NEW e \in Reading,
         MarkUncertain(t, e)
  PROVE  AgentInv'
<1> DEFINE old == ReservationOf(t)
<1>c. wk[t].pc \in {"prepare", "send", "stream"} /\ UNCHANGED <<run, held, tool, batch>>
  BY DEF MarkUncertain, At
<1>o. Owns(t)
  BY <1>c, OwnCall
<1> USE DEF Owns
<1>1. PICK next \in {"send", "broken"} : wk' = [wk EXCEPT ![t].pc = next]
  BY DEF MarkUncertain, Continues
<1> DEFINE w == [wk[t] EXCEPT !.pc = next]
           v == [old EXCEPT !.state = "uncertain"]
<1>2. /\ wk[t].pc = "prepare" /\ wk' = [wk EXCEPT ![t] = w]
      /\ res' = [res EXCEPT ![RunOf(t)][wk[t].res] = v]
  BY <1>o, <1>1 DEF MarkUncertain, At, SetReservation
<1>3. v \in Reservation /\ v.turn = old.turn /\ v.gen = old.gen /\ v.sent = 0
  BY <1>o, <1>2
<1>4. /\ w.pc \in {"send", "broken"} /\ w.turns = wk[t].turns /\ w.calls = wk[t].calls
      /\ w.res = wk[t].res
  BY <1>o, <1>1 DEF TaskState
<1> HIDE DEF w, v
<1>5. MovesOn(t, v, w)
  BY <1>2, <1>3, <1>4 DEF MovesOn
<1> QED BY <1>c, <1>5, CallStep

\* The request is sent, for the first time.
LEMMA SendStep ==
  ASSUME IInv, BookInv, ToolInv, AgentInv, NEW t \in Task, StreamProvider(t)
  PROVE  AgentInv'
<1> DEFINE old == ReservationOf(t)
<1>c. wk[t].pc \in {"prepare", "send", "stream"} /\ UNCHANGED <<run, held, tool, batch>>
  BY DEF StreamProvider, At
<1>o. Owns(t)
  BY <1>c, OwnCall
<1> USE DEF Owns
<1>1. PICK next \in {"stream", "broken"} : wk' = [wk EXCEPT ![t].pc = next]
  BY Zenon DEF StreamProvider, Continues
<1> DEFINE w == [wk[t] EXCEPT !.pc = next]
           v == [old EXCEPT !.sent = old.sent + 1]
<1>2. /\ wk[t].pc = "send" /\ wk' = [wk EXCEPT ![t] = w]
      /\ res' = [res EXCEPT ![RunOf(t)][wk[t].res] = v]
  <2>1. wk[t].pc = "send" /\ wk' = [wk EXCEPT ![t] = w]
    BY <1>1 DEF StreamProvider, At
  <2>2. res' = [res EXCEPT ![RunOf(t)][wk[t].res] = v]
    BY DEF StreamProvider, ReservationOf
  <2> QED BY <2>1, <2>2
<1>3. v \in Reservation /\ v.turn = old.turn /\ v.gen = old.gen /\ v.sent = 1
  <2>1. old \in Reservation /\ old.sent = 0
    BY <1>o, <1>2
  <2> HIDE DEF old
  <2> QED BY <2>1 DEF Reservation
<1>4. /\ w.pc \in {"stream", "broken"} /\ w.turns = wk[t].turns /\ w.calls = wk[t].calls
      /\ w.res = wk[t].res
  BY <1>o, <1>1 DEF TaskState
<1> HIDE DEF w, v
<1>5. MovesOn(t, v, w)
  BY <1>2, <1>3, <1>4 DEF MovesOn
<1> QED BY <1>c, <1>5, CallStep

\* The usage is committed, and the call is over.
LEMMA CommitStep ==
  ASSUME IInv, BookInv, ToolInv, AgentInv, NEW t \in Task, NEW e \in Reading,
         NEW n \in 0..MaxToolCalls, CommitUsage(t, e, n)
  PROVE  AgentInv'
<1> DEFINE old == ReservationOf(t)
<1>c. wk[t].pc \in {"prepare", "send", "stream"} /\ UNCHANGED <<run, held, tool, batch>>
  BY DEF CommitUsage, At
<1>o. Owns(t)
  BY <1>c, OwnCall
<1> USE DEF Owns
<1>1. PICK next \in {"turn", "broken"} :
        wk' = [wk EXCEPT ![t] = [@ EXCEPT !.pc = next, !.asked = n, !.done = 0]]
  BY DEF CommitUsage
<1> DEFINE w == [wk[t] EXCEPT !.pc = next, !.asked = n, !.done = 0]
           v == [old EXCEPT !.state = "committed"]
<1>2. /\ wk[t].pc = "stream" /\ wk' = [wk EXCEPT ![t] = w]
      /\ res' = [res EXCEPT ![RunOf(t)][wk[t].res] = v]
  BY <1>o, <1>1 DEF CommitUsage, At, SetReservation
<1>3. /\ v \in Reservation /\ v.turn = old.turn /\ v.gen = old.gen /\ v.sent = 1
      /\ v.state = "committed"
  BY <1>o, <1>2
<1>4. /\ w.pc \in {"turn", "broken"} /\ w.turns = wk[t].turns /\ w.calls = wk[t].calls
      /\ w.res = wk[t].res /\ w.done = 0
  BY <1>o, <1>1 DEF TaskState
<1> HIDE DEF w, v
<1>5. MovesOn(t, v, w)
  BY <1>2, <1>3, <1>4 DEF MovesOn
<1> QED BY <1>c, <1>5, CallStep
---------------------------------------------------------------------------
(* The tools of a turn *)

\* A tool call of the turn is begun, the next one in order.
LEMMA BeginStep ==
  ASSUME IInv, BookInv, ToolInv, AgentInv, NEW t \in Task, NEW e \in Reading,
         BeginToolCall(t, e)
  PROVE  AgentInv'
<1> DEFINE w == wk[t]
           h == held[t]
           row == run[held[t].run]
           s == res[held[t].run]
           c == tool[held[t].run]
           v == [turn |-> w.turns, index |-> w.done + 1, gen |-> h.gen, res |-> w.res,
                 ran |-> 0, state |-> "executing"]
           c2 == Append(c, v)
<1>1. w.pc = "tools" /\ w.done < w.asked
  BY DEF BeginToolCall, At
<1>2. /\ h # NoLease /\ h.run \in Run /\ w \in TaskState
      /\ s \in Seq(Reservation) /\ c \in Seq(ToolCall)
      /\ Fits(row, s, c, batch[h.run]) /\ Knows(w, h, row, s, c)
  BY <1>1, AtWork
<1>3. PICK next \in {"exec", "broken"} :
        wk' = [wk EXCEPT ![t] = [w EXCEPT !.pc = next, !.tool = Len(c) + 1]]
  BY DEF BeginToolCall, RunOf
<1> DEFINE w2 == [w EXCEPT !.pc = next, !.tool = Len(c) + 1]
<1>4. /\ wk' = [wk EXCEPT ![t] = w2] /\ res' = [res EXCEPT ![h.run] = s]
      /\ tool' = [tool EXCEPT ![h.run] = c2] /\ UNCHANGED <<run, held, batch>>
  BY <1>2, <1>3, Unchanged DEF BeginToolCall, RunOf
<1>5. /\ v \in ToolCall /\ v.turn = w.turns /\ v.index = w.done + 1 /\ v.gen = h.gen
      /\ v.res = w.res /\ v.ran = 0 /\ v.state = "executing"
  BY <1>2, HeldRun DEF TaskState, ToolCall
<1>6. /\ w2.pc \in {"exec", "broken"} /\ w2.turns = w.turns
      /\ w2.calls = w.calls /\ w2.res = w.res /\ w2.asked = w.asked /\ w2.done = w.done
      /\ w2.tool = Len(c) + 1
  BY <1>2, <1>3 DEF TaskState
<1>7. w.turns \in Nat /\ w.calls \in Nat /\ w.asked \in Nat /\ w.done \in Nat
  BY <1>2 DEF TaskState
<1> HIDE DEF w, h, row, s, c, v, w2
<1>8. /\ Alone(h, row) /\ InTools(w, h, s, c) /\ History(s, c)
  BY <1>1, <1>2 DEF Knows, Started, Fits
<1>9. /\ w.turns = Len(s) /\ w.res = w.turns /\ w.res >= 1 /\ AllPaid(s)
      /\ s[w.res].gen = h.gen
      /\ w.asked <= w.calls /\ w.calls <= MaxTotalToolCalls
      /\ Len(c) + w.asked = w.calls + w.done
      /\ AllRan(c)
      /\ \A j \in 1..Len(c) : /\ c[j].res = w.res => c[j].gen = h.gen
                              /\ c[j].turn = w.turns => c[j].index <= w.done
  BY <1>1, <1>8 DEF InTools, Begun
<1>10. /\ Len(s) \in Nat /\ Len(c) \in Nat
       /\ \A j \in 1..Len(c) : c[j].index \in Nat
  <2>1. \A j \in 1..Len(c) : c[j] \in ToolCall
    BY <1>2, LenProperties
  <2> QED BY <1>2, <2>1, LenProperties DEF ToolCall
<1>11. /\ Len(c2) = Len(c) + 1 /\ c2[Len(c) + 1] = v
       /\ \A i \in 1..Len(c) : c2[i] = c[i]
  BY <1>2, <1>5, AppendProperties
<1> HIDE DEF c2
<1>12. \A i \in 1..Len(c2) : i \in 1..Len(c) \/ i = Len(c) + 1
  BY <1>10, <1>11
<1>13. History(s, c2)
  <2>1. Len(c2) <= MaxTotalToolCalls
    BY <1>1, <1>7, <1>9, <1>10, <1>11
  <2>2. \A j \in 1..Len(c2) :
          c2[j].ran <= 1 /\ c2[j].res = c2[j].turn /\ c2[j].turn <= Len(s)
    BY <1>5, <1>8, <1>9, <1>10, <1>11, <1>12 DEF History
  <2>3. ASSUME NEW j \in 1..Len(c2), NEW k \in 1..Len(c2),
               c2[j].turn = c2[k].turn, c2[j].index = c2[k].index
        PROVE  j = k
    <3>1. CASE j \in 1..Len(c) /\ k \in 1..Len(c)
      BY <1>8, <1>11, <2>3, <3>1 DEF History
    <3>2. CASE j \in 1..Len(c) /\ k = Len(c) + 1
      <4>1. c[j].turn = w.turns /\ c[j].index = w.done + 1
        BY <1>5, <1>11, <2>3, <3>2
      <4> QED BY <1>7, <1>9, <3>2, <4>1
    <3>3. CASE j = Len(c) + 1 /\ k \in 1..Len(c)
      <4>1. c[k].turn = w.turns /\ c[k].index = w.done + 1
        BY <1>5, <1>11, <2>3, <3>3
      <4> QED BY <1>7, <1>9, <3>3, <4>1
    <3> QED BY <1>12, <3>1, <3>2, <3>3
  <2> QED BY <1>8, <2>1, <2>2, <2>3 DEF History
<1>14. w2.pc = "exec" => InTools(w2, h, s, c2)
  <2> SUFFICES ASSUME w2.pc = "exec" PROVE InTools(w2, h, s, c2)
    OBVIOUS
  <2>1. Begun(w2) = w.done + 1
    BY <1>6 DEF Begun
  <2>2. /\ w2.turns = Len(s) /\ w2.res = w2.turns /\ w2.res >= 1 /\ s[w2.res].gen = h.gen
        /\ Begun(w2) <= w2.asked /\ w2.asked <= w2.calls /\ w2.calls <= MaxTotalToolCalls
        /\ Len(c2) + w2.asked = w2.calls + Begun(w2)
    <3>1. /\ w2.turns = Len(s) /\ w2.res = w2.turns /\ w2.res >= 1 /\ s[w2.res].gen = h.gen
          /\ w2.asked <= w2.calls /\ w2.calls <= MaxTotalToolCalls
      BY <1>6, <1>9
    <3>2. Begun(w2) <= w2.asked
      BY <1>1, <1>6, <1>7, <2>1
    <3>3. Len(c2) + w2.asked = w2.calls + Begun(w2)
      <4>1. /\ Len(c2) = Len(c) + 1 /\ w2.asked = w.asked /\ w2.calls = w.calls
            /\ Len(c) + w.asked = w.calls + w.done /\ Len(c) \in Nat
        BY <1>6, <1>9, <1>10, <1>11
      <4>2. Len(c2) + w2.asked = (Len(c) + w.asked) + 1
        BY SMTT(30), <1>7, <4>1
      <4>3. w2.calls + Begun(w2) = (w.calls + w.done) + 1
        BY <1>7, <2>1, <4>1
      <4> QED BY <4>1, <4>2, <4>3
    <3> QED BY <3>1, <3>2, <3>3
  <2>3. ASSUME NEW j \in 1..Len(c2)
        PROVE  /\ c2[j].res = w2.res => c2[j].gen = h.gen
               /\ c2[j].turn = w2.turns => c2[j].index <= Begun(w2)
    <3>1. CASE j \in 1..Len(c)
      BY SMTT(30), <1>6, <1>7, <1>9, <1>10, <1>11, <2>1, <3>1
    <3>2. CASE j = Len(c) + 1
      BY <1>5, <1>7, <1>11, <2>1, <3>2
    <3> QED BY <1>12, <3>1, <3>2
  <2>4. /\ w2.tool = Len(c2) /\ w2.tool >= 1 /\ c2[w2.tool] = v
        /\ \A j \in 1..Len(c2) : j # w2.tool => c2[j].state = "completed" /\ c2[j].ran = 1
    BY <1>6, <1>9, <1>10, <1>11, <1>12 DEF AllRan
  <2> QED BY <1>5, <1>9, <2>2, <2>3, <2>4 DEF InTools
<1>15. Knows(w2, h, row, s, c2)
  BY <1>6, <1>8, <1>14, LostKnows DEF Knows, Started, First, Fed
<1>16. wk[t].pc # "idle" /\ w2.pc # "idle"
  BY <1>1, <1>6 DEF w
<1> QED BY <1>4, <1>8, <1>13, <1>15, <1>16, AloneStep DEF h, row

\* The tool row a task works on, replaced.
LEMMA RowReplaced ==
  ASSUME NEW w, NEW h, NEW s, NEW c \in Seq(ToolCall), InTools(w, h, s, c),
         w.pc \in {"exec", "ran"}, History(s, c),
         NEW v \in ToolCall, v.turn = c[w.tool].turn, v.index = c[w.tool].index,
         v.res = c[w.tool].res, v.gen = c[w.tool].gen, v.ran <= 1
  PROVE  LET c2 == [c EXCEPT ![w.tool] = v] IN
         /\ Len(c2) = Len(c) /\ c2[w.tool] = v /\ w.tool \in 1..Len(c)
         /\ \A j \in 1..Len(c) : j # w.tool => c2[j] = c[j]
         /\ History(s, c2)
<1> DEFINE c2 == [c EXCEPT ![w.tool] = v]
<1>1. Len(c) \in Nat /\ w.tool \in 1..Len(c)
  BY LenProperties DEF InTools
<1>2. /\ Len(c2) = Len(c) /\ c2[w.tool] = v
      /\ \A j \in 1..Len(c) : j # w.tool => c2[j] = c[j]
  BY <1>1, ExceptSeq
<1> HIDE DEF c2
<1>5. History(s, c2)
  <2>1. \A j \in 1..Len(c) : /\ c2[j].turn = c[j].turn /\ c2[j].index = c[j].index
                             /\ c2[j].res = c[j].res
                             /\ c2[j].ran <= 1
    BY <1>1, <1>2 DEF History
  <2> QED BY SMTT(30), <1>2, <2>1 DEF History
<1> QED BY <1>1, <1>2, <1>5 DEF c2

\* The resolver is called.
LEMMA ExecuteStep ==
  ASSUME IInv, BookInv, ToolInv, AgentInv, NEW t \in Task, ExecuteTool(t)
  PROVE  AgentInv'
<1> DEFINE w == wk[t]
           h == held[t]
           row == run[held[t].run]
           s == res[held[t].run]
           c == tool[held[t].run]
           v == [c[w.tool] EXCEPT !.ran = c[w.tool].ran + 1]
           c2 == [c EXCEPT ![w.tool] = v]
<1>1. w.pc = "exec"
  BY DEF ExecuteTool, At
<1>2. /\ h # NoLease /\ h.run \in Run /\ w \in TaskState
      /\ s \in Seq(Reservation) /\ c \in Seq(ToolCall)
      /\ Fits(row, s, c, batch[h.run]) /\ Knows(w, h, row, s, c)
  BY <1>1, AtWork
<1>3. PICK next \in {"ran", "broken"} : wk' = [wk EXCEPT ![t].pc = next]
  BY Zenon DEF ExecuteTool, Continues
<1> DEFINE w2 == [w EXCEPT !.pc = next]
<1>4. wk' = [wk EXCEPT ![t] = w2] /\ UNCHANGED <<run, held, batch>>
  BY <1>3 DEF ExecuteTool
<1>5. tool' = [tool EXCEPT ![h.run] = c2]
  BY DEF ExecuteTool, RunOf
<1>6. res' = [res EXCEPT ![h.run] = s]
  BY <1>2, Unchanged DEF ExecuteTool
<1>7. /\ w2.pc \in {"ran", "broken"} /\ w2.turns = w.turns
      /\ w2.calls = w.calls /\ w2.res = w.res /\ w2.asked = w.asked /\ w2.done = w.done
      /\ w2.tool = w.tool
  BY <1>2, <1>3 DEF TaskState
<1> HIDE DEF w, h, row, s, c, w2
<1>8. Alone(h, row) /\ InTools(w, h, s, c) /\ History(s, c)
  BY <1>1, <1>2 DEF Knows, Started, Fits
<1>9. c[w.tool] \in ToolCall /\ c[w.tool].ran = 0 /\ c[w.tool].state = "executing"
  BY <1>1, <1>2, <1>8, LenProperties DEF InTools
<1>10. /\ v \in ToolCall /\ v.turn = c[w.tool].turn /\ v.index = c[w.tool].index
       /\ v.res = c[w.tool].res /\ v.gen = c[w.tool].gen /\ v.ran = 1
       /\ v.state = "executing"
  BY <1>9 DEF ToolCall
<1> HIDE DEF v
<1>11. /\ Len(c2) = Len(c) /\ c2[w.tool] = v /\ w.tool \in 1..Len(c)
       /\ \A j \in 1..Len(c) : j # w.tool => c2[j] = c[j]
       /\ History(s, c2)
  BY <1>1, <1>2, <1>8, <1>10, RowReplaced
<1> HIDE DEF c2
<1>12. w2.pc = "ran" => InTools(w2, h, s, c2)
  <2> SUFFICES ASSUME w2.pc = "ran" PROVE InTools(w2, h, s, c2)
    OBVIOUS
  <2>1. Begun(w2) = Begun(w)
    BY <1>1, <1>7 DEF Begun
  <2>2. \A j \in 1..Len(c2) : /\ c2[j].res = c[j].res /\ c2[j].gen = c[j].gen
                              /\ c2[j].turn = c[j].turn /\ c2[j].index = c[j].index
    BY <1>10, <1>11
  <2>3. \A j \in 1..Len(c2) : /\ c2[j].res = w2.res => c2[j].gen = h.gen
                              /\ c2[j].turn = w2.turns => c2[j].index <= Begun(w2)
    BY <1>7, <1>8, <1>11, <2>1, <2>2 DEF InTools
  <2>4. \A j \in 1..Len(c2) : j # w2.tool => c2[j].state = "completed" /\ c2[j].ran = 1
    BY <1>1, <1>7, <1>8, <1>11 DEF InTools
  <2> QED BY <1>1, <1>7, <1>8, <1>10, <1>11, <2>1, <2>3, <2>4 DEF InTools
<1>13. Knows(w2, h, row, s, c2)
  BY <1>7, <1>8, <1>12, LostKnows DEF Knows, Started, First, Fed
<1>14. wk[t].pc # "idle" /\ w2.pc # "idle"
  BY <1>1, <1>7 DEF w
<1> QED BY <1>4, <1>5, <1>6, <1>8, <1>11, <1>13, <1>14, AloneStep DEF h, row

\* What a write leaves of the lease, and where the task goes.
LEMMA AfterWrite ==
  ASSUME IInv, NEW t \in Task, NEW e \in Reading, Fenced(t, e), NEW new,
         Write(t, new), new \in Row
  PROVE  \/ held'[t] = held[t]
         \/ /\ held'[t] # held[t] /\ held'[t] # NoLease
            /\ held'[t].gen = new.gen /\ held'[t].ckpt = new.ckpt
<1>1. held[t] # NoLease /\ held[t].run \in Run
  BY FencedMine
<1>2. \/ held' = [held EXCEPT ![t] = LeaseOf(held[t].run, Bumped(new))]
      \/ UNCHANGED held
  BY DEF Write
<1>3. Bumped(new).gen = new.gen /\ Bumped(new).ckpt = new.ckpt
  BY DEF Bumped, Row
<1>4. LeaseOf(held[t].run, Bumped(new)).gen = new.gen
      /\ LeaseOf(held[t].run, Bumped(new)).ckpt = new.ckpt
  BY <1>3 DEF LeaseOf
<1>5. held'[t] # NoLease
  BY <1>1, WriteHolds
<1>6. CASE held' = [held EXCEPT ![t] = LeaseOf(held[t].run, Bumped(new))]
  <2>1. held'[t] = LeaseOf(held[t].run, Bumped(new))
    BY <1>6 DEF IInv, HeldInv
  <2> QED BY <1>4, <1>5, <2>1
<1> QED BY <1>2, <1>6
---------------------------------------------------------------------------
(* Steps that write the row of the run *)

\* Whoever shows the attempt and the checkpoint of the row may work on.
Informed(w, row, s, c) ==
  \A h : h # NoLease /\ h.gen = row.gen /\ h.ckpt = row.ckpt => Knows(w, h, row, s, c)

\* A fenced write that keeps the lease: the task goes on, or is lost with the reply.
LEMMA RenewStep ==
  ASSUME IInv, BookInv, ToolInv, AgentInv, NEW t \in Task, NEW e \in Reading, Fenced(t, e),
         NEW new \in Row, new.gen = MyRow(t).gen, Write(t, new), wk[t].pc # "idle",
         NEW w, NEW s, NEW c, NEW b,
         wk' = [wk EXCEPT ![t] = IF held'[t] = held[t] THEN [wk[t] EXCEPT !.pc = "lost"] ELSE w],
         res' = [res EXCEPT ![held[t].run] = s], tool' = [tool EXCEPT ![held[t].run] = c],
         batch' = [batch EXCEPT ![held[t].run] = b],
         w.pc # "idle", Fits(new, s, c, b), Informed(w, new, s, c)
  PROVE  AgentInv'
<1>1. CASE held'[t] = held[t]
  <2> DEFINE lost == [wk[t] EXCEPT !.pc = "lost"]
  <2>1. lost.pc = "lost"
    BY AtWork DEF TaskState
  <2>2. Does(t, lost, s, c, b)
    BY <1>1 DEF Does, RunOf
  <2> HIDE DEF lost
  <2>3. Knows(lost, held'[t], new, s, c)
    BY <2>1, LostKnows
  <2> QED BY <2>1, <2>2, <2>3, WriteStep
<1>2. CASE held'[t] # held[t]
  <2>1. Does(t, w, s, c, b)
    BY <1>2 DEF Does, RunOf
  <2>2. held'[t] # NoLease /\ held'[t].gen = new.gen /\ held'[t].ckpt = new.ckpt
    BY <1>2, AfterWrite
  <2>3. Knows(w, held'[t], new, s, c)
    BY <2>2 DEF Informed
  <2> QED BY <2>1, <2>3, WriteStep
<1> QED BY <1>1, <1>2

\* The task goes on, with what it has.
LEMMA GoesOn ==
  ASSUME BookInv, ToolInv, NEW t \in Task, NEW pc \in PC, Goes(t, pc)
  PROVE  LET w == [wk[t] EXCEPT !.pc = pc] IN
         /\ w.pc = pc /\ w.turns = wk[t].turns /\ w.calls = wk[t].calls /\ w.res = wk[t].res
         /\ w.asked = wk[t].asked /\ w.done = wk[t].done /\ w.tool = wk[t].tool
         /\ wk' = [wk EXCEPT ![t] = IF held'[t] = held[t] THEN [wk[t] EXCEPT !.pc = "lost"]
                                    ELSE w]
BY DEF Goes, BookInv, TaskState

\* What a task knows of its row when it writes it.
LEMMA WriterKnows ==
  ASSUME IInv, BookInv, ToolInv, AgentInv, NEW t \in Task, NEW e \in Reading, Fenced(t, e),
         wk[t].pc # "idle"
  PROVE  LET r == held[t].run IN
         /\ held[t] # NoLease /\ r \in Run /\ wk[t] \in TaskState
         /\ MyRow(t) \in Row /\ RowInv(MyRow(t)) /\ MyRow(t).state \in LeasedStates
         /\ Mine(held[t], MyRow(t)) /\ held[t].ckpt = MyRow(t).ckpt
         /\ held[t].gen = MyRow(t).gen /\ MyRow(t).attempt = MyRow(t).gen
         /\ res[r] \in Seq(Reservation) /\ tool[r] \in Seq(ToolCall)
         /\ Fits(MyRow(t), res[r], tool[r], batch[r])
         /\ Knows(wk[t], held[t], MyRow(t), res[r], tool[r])
BY FencedMine, FencedFacts, AtWork DEF MyRow

\* A claimed run is started: it has done nothing, or links all it has done.
LEMMA StartStep ==
  ASSUME IInv, BookInv, ToolInv, AgentInv, NEW t \in Task, NEW e \in Reading, StartRun(t, e)
  PROVE  AgentInv'
<1> DEFINE w == wk[t]
           h == held[t]
           row == MyRow(t)
           s == res[held[t].run]
           c == tool[held[t].run]
           b == batch[held[t].run]
           new == [Renewed(row, e) EXCEPT !.state = "running"]
           pc == IF h.ckpt = None THEN "plan" ELSE "adopt"
           w2 == [w EXCEPT !.pc = pc]
<1>1. /\ w.pc = "leased" /\ Fenced(t, e) /\ row.state = "leased" /\ Write(t, new)
      /\ Goes(t, pc) /\ UNCHANGED <<res, tool, batch>>
  BY DEF StartRun, At, Start
<1>2. /\ row \in Row /\ RowInv(row) /\ Mine(h, row) /\ h.ckpt = row.ckpt
      /\ h.gen = row.gen /\ h.run \in Run
      /\ Fits(row, s, c, b) /\ Knows(w, h, row, s, c)
  BY <1>1, WriterKnows
<1>3. new \in Row
  BY <1>1, <1>2, StartInv DEF RowInv
<1>4. new.gen = row.gen /\ new.ckpt = row.ckpt /\ new.state = "running"
  BY <1>2 DEF Renewed, Row
<1>5. /\ w2.pc = pc /\ w2.turns = w.turns /\ w2.calls = w.calls
      /\ wk' = [wk EXCEPT ![t] = IF held'[t] = held[t] THEN [wk[t] EXCEPT !.pc = "lost"]
                                 ELSE w2]
  BY <1>1, GoesOn DEF PC
<1>6. /\ res' = [res EXCEPT ![h.run] = s] /\ tool' = [tool EXCEPT ![h.run] = c]
      /\ batch' = [batch EXCEPT ![h.run] = b]
  BY <1>1, <1>2, Unchanged
<1> HIDE DEF w, h, row, s, c, b, new, w2
<1>7. w.turns = 0 /\ w.calls = 0
  BY <1>1, <1>2 DEF Knows
<1>8. /\ row.ckpt = None => Len(s) = 0 /\ Len(c) = 0
      /\ row.ckpt # None => LinksBatch(row)
  BY <1>1, <1>2 DEF Fits
<1>9. Fits(new, s, c, b)
  BY <1>1, <1>2, <1>4 DEF Fits, LinksBatch, Batched, Final, ClaimableStates
<1>10. ASSUME NEW k, k # NoLease, k.gen = new.gen, k.ckpt = new.ckpt
       PROVE  Knows(w2, k, new, s, c)
  <2>1. CASE row.ckpt = None
    <3>1. Alone(k, new) /\ ~LinksBatch(new)
      BY <1>4, <1>10, <2>1 DEF Alone, Mine, LinksBatch, Final
    <3>2. Ready(w2, s, c)
      BY <1>5, <1>7, <1>8, <2>1 DEF Ready, AllPaid, AllRan
    <3>3. w2.pc = "plan" /\ k.ckpt = None
      BY <1>2, <1>4, <1>5, <1>10, <2>1
    <3> QED BY <3>1, <3>2, <3>3 DEF Knows, Started
  <2>2. CASE row.ckpt # None
    <3>1. w2.pc = "adopt" /\ k.ckpt # None /\ k.ckpt.kind = "tool_batch_persisted"
      BY <1>2, <1>4, <1>5, <1>8, <1>10, <2>2 DEF LinksBatch
    <3>2. w2.turns = 0 /\ w2.calls = 0
      BY <1>5, <1>7
    <3> QED BY <3>1, <3>2 DEF Knows, Started, First, Fed
  <2> QED BY <2>1, <2>2
<1>11. Informed(w2, new, s, c)
  BY <1>10 DEF Informed
<1>12. new.gen = MyRow(t).gen /\ w2.pc # "idle" /\ wk[t].pc # "idle"
  BY <1>1, <1>4, <1>5 DEF row, w
<1> QED BY <1>1, <1>3, <1>5, <1>6, <1>9, <1>11, <1>12, RenewStep DEF h

\* The adopter unlinks the batch it is about to continue.
LEMMA ConsumeStep ==
  ASSUME IInv, BookInv, ToolInv, AgentInv, NEW t \in Task, NEW e \in Reading,
         ConsumeBeforeProvider(t, e)
  PROVE  AgentInv'
<1> DEFINE w == wk[t]
           h == held[t]
           row == MyRow(t)
           s == res[held[t].run]
           c == tool[held[t].run]
           b == batch[held[t].run]
           new == [Renewed(row, e) EXCEPT !.ckpt = None]
           w2 == [w EXCEPT !.pc = "rules"]
<1>1. /\ w.pc = "consume" /\ Fenced(t, e) /\ row.state = "running" /\ Write(t, new)
      /\ row.ckpt # None /\ row.ckpt.kind \in AdoptableKinds
      /\ Goes(t, "rules") /\ UNCHANGED <<res, tool, batch>>
  BY DEF ConsumeBeforeProvider, At, ConsumeAdoptionCheckpoint
<1>2. /\ row \in Row /\ RowInv(row) /\ Mine(h, row) /\ h.run \in Run
      /\ Fits(row, s, c, b) /\ Knows(w, h, row, s, c)
  BY <1>1, WriterKnows
<1>3. new \in Row
  BY <1>1, <1>2, ConsumeInv DEF RowInv
<1>4. new.gen = row.gen /\ new.ckpt = None /\ new.state = "running"
  BY <1>1, <1>2 DEF Renewed, Row
<1>5. /\ w2.pc = "rules" /\ w2.turns = w.turns /\ w2.calls = w.calls
      /\ wk' = [wk EXCEPT ![t] = IF held'[t] = held[t] THEN [wk[t] EXCEPT !.pc = "lost"]
                                 ELSE w2]
  BY <1>1, GoesOn DEF PC
<1>6. /\ res' = [res EXCEPT ![h.run] = s] /\ tool' = [tool EXCEPT ![h.run] = c]
      /\ batch' = [batch EXCEPT ![h.run] = b]
  BY <1>1, <1>2, Unchanged
<1> HIDE DEF w, h, row, s, c, b, new, w2
<1>7. LinksBatch(row)
  BY <1>1, <1>2 DEF Fits, LinksBatch, AdoptableKinds, FinalKind
<1>8. Ready(w2, s, c)
  BY <1>1, <1>2, <1>5, <1>7 DEF Knows, Fed, Ready
<1>9. Fits(new, s, c, b)
  BY <1>2, <1>4 DEF Fits, LinksBatch, Final, ClaimableStates
<1>10. ASSUME NEW k, k # NoLease, k.gen = new.gen, k.ckpt = new.ckpt
       PROVE  Knows(w2, k, new, s, c)
  <2>1. Alone(k, new)
    BY <1>4, <1>10 DEF Alone, Mine, LinksBatch, Final
  <2> QED BY <1>5, <1>8, <2>1 DEF Knows
<1>11. Informed(w2, new, s, c)
  BY <1>10 DEF Informed
<1>12. new.gen = MyRow(t).gen /\ w2.pc # "idle" /\ wk[t].pc # "idle"
  BY <1>1, <1>4, <1>5 DEF row, w
<1> QED BY <1>1, <1>3, <1>5, <1>6, <1>9, <1>11, <1>12, RenewStep DEF h
\* A heartbeat beside the provider call changes nothing else.
LEMMA BesideStep ==
  ASSUME IInv, BookInv, ToolInv, AgentInv, NEW t \in Task, NEW e \in Reading,
         HeartbeatBeside(t, e)
  PROVE  AgentInv'
<1> DEFINE w == wk[t]
           h == held[t]
           row == MyRow(t)
           s == res[held[t].run]
           c == tool[held[t].run]
           b == batch[held[t].run]
           new == Renewed(row, e)
           w2 == [w EXCEPT !.pc = w.pc]
<1>1. /\ w.pc \in {"rules", "prepare", "send", "stream"} /\ Fenced(t, e) /\ Write(t, new)
      /\ Goes(t, w.pc) /\ UNCHANGED <<res, tool, batch>>
  BY DEF HeartbeatBeside, At, Heartbeat
<1>2. /\ row \in Row /\ RowInv(row) /\ row.state \in LeasedStates /\ w \in TaskState
      /\ Mine(h, row) /\ h.ckpt = row.ckpt /\ h.gen = row.gen /\ h.run \in Run
      /\ Fits(row, s, c, b) /\ Knows(w, h, row, s, c)
  BY <1>1, WriterKnows
<1>3. new \in Row
  BY <1>2, RenewedInv DEF RowInv
<1>4. /\ new.gen = row.gen /\ new.ckpt = row.ckpt /\ new.state = row.state
      /\ new.err = row.err
  BY <1>2 DEF Renewed, Row
<1>5. wk' = [wk EXCEPT ![t] = IF held'[t] = held[t] THEN [wk[t] EXCEPT !.pc = "lost"]
                              ELSE w2]
  BY <1>1, <1>2, GoesOn DEF TaskState
<1>w. w2 = w
  BY <1>2 DEF TaskState
<1>6. /\ res' = [res EXCEPT ![h.run] = s] /\ tool' = [tool EXCEPT ![h.run] = c]
      /\ batch' = [batch EXCEPT ![h.run] = b]
  BY <1>1, <1>2, Unchanged
<1> HIDE DEF w, h, row, s, c, b, new, w2
<1>9. Fits(new, s, c, b)
  BY <1>2, <1>4 DEF Fits, LinksBatch, Batched, Final
<1>10. ASSUME NEW k, k # NoLease, k.gen = new.gen, k.ckpt = new.ckpt
       PROVE  Knows(w2, k, new, s, c)
  <2>1. /\ Alone(h, row) => Alone(h, new)
        /\ LinksBatch(new) => LinksBatch(row)
    BY <1>4 DEF Alone, Mine, LinksBatch, Final
  <2>2. Knows(w2, h, new, s, c)
    BY <1>2, <1>4, <1>w, <2>1, KnowsRow
  <2> QED BY <1>2, <1>4, <1>10, <2>2, KnowsLease DEF Mine
<1>11. Informed(w2, new, s, c)
  BY <1>10 DEF Informed
<1>12. new.gen = MyRow(t).gen /\ w2.pc # "idle" /\ wk[t].pc # "idle"
  BY <1>1, <1>4, <1>w DEF row, w
<1> QED BY <1>1, <1>3, <1>5, <1>6, <1>9, <1>11, <1>12, RenewStep DEF h

\* The row with a new checkpoint of the attempt.
LEMMA LinkedRow ==
  ASSUME NEW row, RowInv(row), row.state = "running", row.attempt = row.gen,
         NEW e \in Reading, NEW kind \in CheckpointKinds
  PROVE  LET new == [Renewed(row, e) EXCEPT !.ckpt = [gen |-> row.attempt, kind |-> kind]] IN
         /\ new \in Row /\ new.gen = row.gen /\ new.state = "running"
         /\ new.ckpt # None /\ new.ckpt.kind = kind /\ new.ckpt.gen = row.gen
<1> DEFINE new == [Renewed(row, e) EXCEPT !.ckpt = [gen |-> row.attempt, kind |-> kind]]
<1>1. new \in Row
  BY LinkCheckpointInv DEF RowInv
<1>2. /\ new.gen = row.gen /\ new.state = "running"
      /\ new.ckpt = [gen |-> row.attempt, kind |-> kind]
  BY DEF Renewed, Row, RowInv
<1> HIDE DEF new
<1>3. new.ckpt \in Checkpoint
  BY <1>2 DEF Checkpoint, RowInv, Row
<1>4. new.ckpt # None
  BY <1>3, CheckpointAssumption
<1> QED BY <1>1, <1>2, <1>4 DEF new

\* The result of a turn is kept, and what it asked for counted.
LEMMA TurnStep ==
  ASSUME IInv, BookInv, ToolInv, AgentInv, NEW t \in Task, NEW e \in Reading,
         PersistProviderTurn(t, e)
  PROVE  AgentInv'
<1> DEFINE w == wk[t]
           h == held[t]
           row == MyRow(t)
           s == res[held[t].run]
           c == tool[held[t].run]
           b == batch[held[t].run]
           new == [Renewed(row, e) EXCEPT
                     !.ckpt = [gen |-> row.attempt, kind |-> "provider_turn_persisted"]]
           w2 == [w EXCEPT !.pc = IF w.asked = 0 THEN "output" ELSE "tools",
                           !.turns = w.turns + 1, !.calls = w.calls + w.asked]
<1>1. /\ w.pc = "turn" /\ Fenced(t, e) /\ row.state = "running" /\ Write(t, new)
      /\ w.calls + w.asked <= MaxTotalToolCalls
      /\ UNCHANGED <<res, tool, batch>>
      /\ wk' = [wk EXCEPT ![t] = IF held'[t] = held[t] THEN [wk[t] EXCEPT !.pc = "lost"]
                                 ELSE w2]
  BY DEF PersistProviderTurn, At, LinkCheckpoint
<1>2. /\ row \in Row /\ RowInv(row) /\ Mine(h, row) /\ w \in TaskState
      /\ h.gen = row.gen /\ h.run \in Run /\ row.attempt = row.gen
      /\ s \in Seq(Reservation) /\ c \in Seq(ToolCall)
      /\ Fits(row, s, c, b) /\ Knows(w, h, row, s, c)
  BY <1>1, WriterKnows
<1>3. /\ new \in Row /\ new.gen = row.gen /\ new.state = "running"
      /\ new.ckpt # None /\ new.ckpt.kind = "provider_turn_persisted"
  <2>1. "provider_turn_persisted" \in CheckpointKinds
    BY DEF CheckpointKinds, CoordinatorKinds
  <2>2. RowInv(row) /\ row.state = "running" /\ row.attempt = row.gen
    BY <1>1, <1>2
  <2> HIDE DEF row
  <2> QED BY <2>1, <2>2, LinkedRow
<1>4. /\ w2.pc = (IF w.asked = 0 THEN "output" ELSE "tools")
      /\ w2.turns = w.turns + 1 /\ w2.calls = w.calls + w.asked /\ w2.res = w.res
      /\ w2.asked = w.asked /\ w2.done = w.done
      /\ w.turns \in Nat /\ w.calls \in Nat /\ w.asked \in Nat
  BY <1>2 DEF TaskState
<1>6. /\ res' = [res EXCEPT ![h.run] = s] /\ tool' = [tool EXCEPT ![h.run] = c]
      /\ batch' = [batch EXCEPT ![h.run] = b]
  BY <1>1, <1>2, Unchanged
<1> HIDE DEF w, h, row, s, c, b, new, w2
<1>7. /\ w.res = w.turns + 1 /\ w.res = Len(s) /\ w.calls = Len(c) /\ w.done = 0
      /\ AllPaid(s) /\ AllRan(c) /\ s[w.res].gen = h.gen
      /\ \A j \in 1..Len(c) : c[j].turn <= w.turns
      /\ History(s, c)
  BY <1>1, <1>2 DEF Knows, InCall, AllPaid, Fits
<1>8. \A j \in 1..Len(c) : c[j].res # w.res /\ c[j].turn # w.turns + 1
  <2>1. \A j \in 1..Len(c) : c[j].res \in Nat /\ c[j].turn \in Nat
    <3>1. \A j \in 1..Len(c) : c[j] \in ToolCall
      BY <1>2, LenProperties
    <3> QED BY <3>1 DEF ToolCall
  <2> QED BY <1>4, <1>7, <2>1 DEF History
<1>9. Fits(new, s, c, b)
  BY <1>3, <1>7 DEF Fits, LinksBatch, Final, ClaimableStates, FinalKind
<1>10. ASSUME NEW k, k # NoLease, k.gen = new.gen, k.ckpt = new.ckpt
       PROVE  Knows(w2, k, new, s, c)
  <2>1. Alone(k, new)
    BY <1>3, <1>10 DEF Alone, Mine, LinksBatch, Final, FinalKind
  <2>2. CASE w.asked = 0
    <3>1. NoDoubt(s, c)
      BY <1>7 DEF AllPaid, AllRan, NoDoubt
    <3> QED BY <1>4, <2>1, <2>2, <3>1 DEF Knows, First, Fed
  <2>3. CASE w.asked # 0
    <3>1. w2.pc = "tools" /\ Begun(w2) = 0
      BY <1>4, <1>7, <2>3 DEF Begun
    <3>2. Len(c) + w2.asked = w2.calls + Begun(w2) /\ w2.asked <= w2.calls
          /\ Begun(w2) <= w2.asked /\ w2.calls <= MaxTotalToolCalls
      BY <1>1, <1>4, <1>7, <3>1
    <3>3. s[w2.res].gen = k.gen /\ w2.turns = Len(s) /\ w2.res = w2.turns /\ w2.res >= 1
      BY <1>2, <1>3, <1>4, <1>7, <1>10
    <3>4. InTools(w2, k, s, c)
      BY <1>4, <1>7, <1>8, <3>1, <3>2, <3>3 DEF InTools
    <3> QED BY <2>1, <3>1, <3>4 DEF Knows, First, Fed
  <2> QED BY <2>2, <2>3
<1>11. Informed(w2, new, s, c)
  BY <1>10 DEF Informed
<1>12. new.gen = MyRow(t).gen /\ w2.pc # "idle" /\ wk[t].pc # "idle"
  BY <1>1, <1>3, <1>4 DEF row, w
<1> QED BY <1>1, <1>3, <1>6, <1>9, <1>11, <1>12, RenewStep DEF h

\* The answer is kept, with the final checkpoint.
LEMMA OutputStep ==
  ASSUME IInv, BookInv, ToolInv, AgentInv, NEW t \in Task, NEW e \in Reading,
         PersistOutput(t, e)
  PROVE  AgentInv'
<1> DEFINE w == wk[t]
           h == held[t]
           row == MyRow(t)
           s == res[held[t].run]
           c == tool[held[t].run]
           b == batch[held[t].run]
           new == [Renewed(row, e) EXCEPT !.ckpt = [gen |-> row.attempt, kind |-> FinalKind]]
           w2 == [w EXCEPT !.pc = "done"]
<1>1. /\ w.pc = "output" /\ Fenced(t, e) /\ row.state = "running" /\ Write(t, new)
      /\ Goes(t, "done") /\ UNCHANGED <<res, tool, batch>>
  BY DEF PersistOutput, At, LinkCheckpoint
<1>2. /\ row \in Row /\ RowInv(row) /\ Mine(h, row) /\ h.run \in Run
      /\ row.attempt = row.gen
      /\ Fits(row, s, c, b) /\ Knows(w, h, row, s, c)
  BY <1>1, WriterKnows
<1>3. /\ new \in Row /\ new.gen = row.gen /\ new.state = "running"
      /\ new.ckpt # None /\ new.ckpt.kind = FinalKind
  BY <1>1, <1>2, LinkedRow DEF CheckpointKinds
<1>5. /\ w2.pc = "done"
      /\ wk' = [wk EXCEPT ![t] = IF held'[t] = held[t] THEN [wk[t] EXCEPT !.pc = "lost"]
                                 ELSE w2]
  BY <1>1, GoesOn DEF PC
<1>6. /\ res' = [res EXCEPT ![h.run] = s] /\ tool' = [tool EXCEPT ![h.run] = c]
      /\ batch' = [batch EXCEPT ![h.run] = b]
  BY <1>1, <1>2, Unchanged
<1> HIDE DEF w, h, row, s, c, b, new, w2
<1>7. NoDoubt(s, c) /\ History(s, c)
  BY <1>1, <1>2 DEF Knows, Fits
<1>9. Fits(new, s, c, b)
  BY <1>3, <1>7 DEF Fits, LinksBatch, ClaimableStates, FinalKind
<1>10. ASSUME NEW k, k # NoLease, k.gen = new.gen, k.ckpt = new.ckpt
       PROVE  Knows(w2, k, new, s, c)
  BY <1>3, <1>5, <1>10 DEF Knows, Started, First, Fed
<1>11. Informed(w2, new, s, c)
  BY <1>10 DEF Informed
<1>12. new.gen = MyRow(t).gen /\ w2.pc # "idle" /\ wk[t].pc # "idle"
  BY <1>1, <1>3, <1>5 DEF row, w
<1> QED BY <1>1, <1>3, <1>5, <1>6, <1>9, <1>11, <1>12, RenewStep DEF h
\* A tool's result is kept, shown to the model or withheld.
LEMMA FinishToolStep ==
  ASSUME IInv, BookInv, ToolInv, AgentInv, NEW t \in Task, NEW e \in Reading,
         NEW state \in {"completed", "egress_denied"}, FinishToolCall(t, e, state)
  PROVE  AgentInv'
<1> DEFINE w == wk[t]
           h == held[t]
           row == MyRow(t)
           s == res[held[t].run]
           c == tool[held[t].run]
           b == batch[held[t].run]
           new == Renewed(row, e)
           v == [c[w.tool] EXCEPT !.state = state]
           c2 == [c EXCEPT ![w.tool] = v]
           w2 == IF state = "completed" THEN [w EXCEPT !.pc = "tools", !.done = w.done + 1]
                                        ELSE [w EXCEPT !.pc = "withheld"]
<1>1. /\ w.pc = "ran" /\ Fenced(t, e) /\ row.state = "running" /\ Write(t, new)
      /\ UNCHANGED <<res, batch>>
      /\ wk' = [wk EXCEPT ![t] = IF held'[t] = held[t] THEN [wk[t] EXCEPT !.pc = "lost"]
                                 ELSE w2]
  <2>1. w.pc = "ran" /\ Fenced(t, e) /\ row.state = "running" /\ Write(t, new)
        /\ UNCHANGED <<res, batch>>
    BY DEF FinishToolCall, At, Heartbeat
  <2>2. wk' = [wk EXCEPT ![t] = IF held'[t] = held[t] THEN [wk[t] EXCEPT !.pc = "lost"]
                                 ELSE w2]
    BY DEF FinishToolCall
  <2> QED BY <2>1, <2>2
<1>2. /\ row \in Row /\ RowInv(row) /\ row.state \in LeasedStates /\ w \in TaskState
      /\ Mine(h, row) /\ h.gen = row.gen /\ h.run \in Run
      /\ s \in Seq(Reservation) /\ c \in Seq(ToolCall)
      /\ Fits(row, s, c, b) /\ Knows(w, h, row, s, c)
  BY <1>1, WriterKnows
<1>3. new \in Row
  BY <1>2, RenewedInv DEF RowInv
<1>4. new.gen = row.gen /\ new.ckpt = row.ckpt /\ new.state = row.state
  BY <1>2 DEF Renewed, Row
<1>5. /\ w2.pc = (IF state = "completed" THEN "tools" ELSE "withheld")
      /\ state = "completed" => w2.done = w.done + 1
      /\ w2.turns = w.turns /\ w2.calls = w.calls /\ w2.res = w.res /\ w2.asked = w.asked
      /\ w.done \in Nat
  BY <1>2 DEF TaskState
<1>6. /\ res' = [res EXCEPT ![h.run] = s] /\ tool' = [tool EXCEPT ![h.run] = c2]
      /\ batch' = [batch EXCEPT ![h.run] = b]
  <2>1. tool' = [tool EXCEPT ![h.run] = c2]
    BY DEF FinishToolCall, RunOf
  <2> HIDE DEF c2
  <2> QED BY <1>1, <1>2, <2>1, Unchanged
<1> HIDE DEF w, h, row, s, c, b, new, w2
<1>7. Alone(h, row) /\ InTools(w, h, s, c) /\ History(s, c)
  BY <1>1, <1>2 DEF Knows, Started, Fits
<1>8. c[w.tool] \in ToolCall /\ c[w.tool].ran = 1
  BY <1>1, <1>2, <1>7, LenProperties DEF InTools
<1>9. /\ v \in ToolCall /\ v.turn = c[w.tool].turn /\ v.index = c[w.tool].index
      /\ v.res = c[w.tool].res /\ v.gen = c[w.tool].gen /\ v.ran = 1
      /\ v.state = state
  BY <1>8 DEF ToolCall
<1> HIDE DEF v
<1>10. /\ Len(c2) = Len(c) /\ c2[w.tool] = v /\ w.tool \in 1..Len(c)
       /\ \A j \in 1..Len(c) : j # w.tool => c2[j] = c[j]
       /\ History(s, c2)
  BY <1>1, <1>2, <1>7, <1>9, RowReplaced
<1> HIDE DEF c2
<1>11. \A j \in 1..Len(c) : /\ c2[j].state # "executing" /\ c2[j].ran = 1
                            /\ j # w.tool => c2[j].state = "completed"
  BY <1>1, <1>7, <1>9, <1>10 DEF InTools
<1>12. NoDoubt(s, c2)
  BY <1>7, <1>10, <1>11 DEF NoDoubt, InTools, AllPaid
<1>13. Fits(new, s, c2, b)
  <2>1. row.ckpt # None => row.ckpt.kind = "provider_turn_persisted"
    BY <1>2, <1>7, AloneKind
  <2>2. Alone(h, new)
    BY <1>4, <1>7 DEF Alone, Mine, LinksBatch, Final
  <2> QED BY <1>4, <1>10, <2>1, <2>2, AloneFits
<1>14. ASSUME NEW k, k # NoLease, k.gen = new.gen, k.ckpt = new.ckpt
       PROVE  Knows(w2, k, new, s, c2)
  <2>1. Alone(k, new)
    BY <1>4, <1>7, <1>14 DEF Alone, Mine, LinksBatch, Final
  <2>2. CASE state = "egress_denied"
    BY <1>5, <1>12, <2>1, <2>2 DEF Knows, First, Fed
  <2>3. CASE state = "completed"
    <3>1. w2.pc = "tools" /\ Begun(w2) = Begun(w)
      BY <1>1, <1>5, <2>3 DEF Begun
    <3>2. AllRan(c2)
      BY <1>9, <1>10, <1>11, <2>3 DEF AllRan
    <3>3. \A j \in 1..Len(c2) : /\ c2[j].res = c[j].res /\ c2[j].gen = c[j].gen
                                /\ c2[j].turn = c[j].turn /\ c2[j].index = c[j].index
      BY <1>9, <1>10
    <3>4. \A j \in 1..Len(c2) : /\ c2[j].res = w2.res => c2[j].gen = h.gen
                                /\ c2[j].turn = w2.turns => c2[j].index <= Begun(w2)
      BY SMTT(30), <1>5, <1>7, <1>10, <3>1, <3>3 DEF InTools
    <3>5. k.gen = h.gen
      BY <1>2, <1>4, <1>14
    <3>6. InTools(w2, k, s, c2)
      BY <1>5, <1>7, <1>10, <3>1, <3>2, <3>4, <3>5 DEF InTools
    <3> QED BY <2>1, <3>1, <3>6 DEF Knows, First, Fed
  <2> QED BY <2>2, <2>3
<1>15. Informed(w2, new, s, c2)
  BY <1>14 DEF Informed
<1>16. new.gen = MyRow(t).gen /\ w2.pc # "idle" /\ wk[t].pc # "idle"
  BY <1>1, <1>4, <1>5 DEF row, w
<1> QED BY <1>1, <1>3, <1>6, <1>13, <1>15, <1>16, RenewStep DEF h

\* The batch of a turn is complete: it is all the run has done.
LEMMA BatchStep ==
  ASSUME IInv, BookInv, ToolInv, AgentInv, NEW t \in Task, NEW e \in Reading,
         PersistToolBatch(t, e)
  PROVE  AgentInv'
<1> DEFINE w == wk[t]
           h == held[t]
           row == MyRow(t)
           s == res[held[t].run]
           c == tool[held[t].run]
           new == [Renewed(row, e) EXCEPT
                     !.ckpt = [gen |-> row.attempt, kind |-> "tool_batch_persisted"]]
           b2 == [gen |-> h.gen, turns |-> w.turns, calls |-> w.calls, res |-> w.res]
           w2 == [w EXCEPT !.pc = "plan"]
<1>1. /\ w.pc = "tools" /\ w.done = w.asked
      /\ Fenced(t, e) /\ row.state = "running" /\ Write(t, new)
      /\ UNCHANGED <<res, tool>> /\ batch' = [batch EXCEPT ![h.run] = b2]
      /\ Goes(t, "plan")
  BY DEF PersistToolBatch, At, LinkCheckpoint, RunOf
<1>2. /\ row \in Row /\ RowInv(row) /\ Mine(h, row) /\ w \in TaskState
      /\ h.gen = row.gen /\ h.run \in Run /\ row.attempt = row.gen
      /\ s \in Seq(Reservation) /\ c \in Seq(ToolCall)
      /\ Fits(row, s, c, batch[h.run]) /\ Knows(w, h, row, s, c)
  BY <1>1, WriterKnows
<1>3. /\ new \in Row /\ new.gen = row.gen /\ new.state = "running"
      /\ new.ckpt # None /\ new.ckpt.kind = "tool_batch_persisted"
      /\ new.ckpt.gen = row.gen
  <2>1. "tool_batch_persisted" \in CheckpointKinds
    BY DEF CheckpointKinds, CoordinatorKinds, AdoptableKinds
  <2>2. RowInv(row) /\ row.state = "running" /\ row.attempt = row.gen
    BY <1>1, <1>2
  <2> HIDE DEF row
  <2> QED BY <2>1, <2>2, LinkedRow
<1>4. /\ w2.pc = "plan" /\ w2.turns = w.turns /\ w2.calls = w.calls
      /\ wk' = [wk EXCEPT ![t] = IF held'[t] = held[t] THEN [wk[t] EXCEPT !.pc = "lost"]
                                 ELSE w2]
  BY <1>1, GoesOn DEF PC
<1>5. /\ b2.gen = h.gen /\ b2.turns = w.turns /\ b2.calls = w.calls /\ b2.res = w.res
      /\ w.calls \in Nat /\ w.asked \in Nat
  BY <1>2 DEF TaskState
<1>6. res' = [res EXCEPT ![h.run] = s] /\ tool' = [tool EXCEPT ![h.run] = c]
  BY <1>1, <1>2, Unchanged
<1> HIDE DEF w, h, row, s, c, b2, new, w2
<1>7. Len(c) \in Nat
  BY <1>2, LenProperties
<1>8. InTools(w, h, s, c) /\ History(s, c)
  BY <1>1, <1>2 DEF Knows, Fits
<1>9. Len(c) = w.calls
  BY <1>1, <1>5, <1>7, <1>8 DEF InTools, Begun
<1>10. /\ Len(s) >= 1 /\ w.turns = Len(s) /\ w.res = Len(s) /\ AllPaid(s) /\ AllRan(c)
       /\ s[Len(s)].gen = h.gen
       /\ \A j \in 1..Len(c) : c[j].res = Len(s) => c[j].gen = h.gen
  BY <1>1, <1>8 DEF InTools
<1>11. Batched(new, s, c, b2)
  BY <1>2, <1>3, <1>5, <1>9, <1>10 DEF Batched
<1>12. Fits(new, s, c, b2)
  BY <1>3, <1>8, <1>11 DEF Fits, Final, ClaimableStates, FinalKind
<1>13. Ready(w2, s, c)
  BY <1>4, <1>9, <1>10 DEF Ready
<1>14. ASSUME NEW k, k # NoLease, k.gen = new.gen, k.ckpt = new.ckpt
       PROVE  Knows(w2, k, new, s, c)
  BY <1>3, <1>4, <1>13, <1>14 DEF Knows, Started, First
<1>15. Informed(w2, new, s, c)
  BY <1>14 DEF Informed
<1>16. new.gen = MyRow(t).gen /\ w2.pc # "idle" /\ wk[t].pc # "idle"
  BY <1>1, <1>3, <1>4 DEF row, w
<1> QED BY <1>1, <1>3, <1>4, <1>6, <1>12, <1>15, <1>16, RenewStep DEF h
\* A run is ended as completed or failed only where nothing is in doubt.
LEMMA EndingIsSure ==
  ASSUME NEW w, NEW h, NEW row, NEW s, NEW c, NEW b, Mine(h, row), h.ckpt = row.ckpt,
         Knows(w, h, row, s, c), Fits(row, s, c, b),
         NEW final \in Endings(w.pc), final # "recovery_required"
  PROVE  NoDoubt(s, c)
<1>1. CASE w.pc = "plan"
  <2>1. Ready(w, s, c)
    BY <1>1 DEF Knows, First, Fed, LinksBatch
  <2> QED BY <2>1 DEF Ready, AllPaid, AllRan, NoDoubt
<1>2. CASE w.pc = "withheld"
  BY <1>2 DEF Knows
<1>3. CASE w.pc = "rules"
  BY <1>3 DEF Knows, Ready, AllPaid, AllRan, NoDoubt
<1>4. CASE w.pc = "tools"
  BY <1>4 DEF Knows, InTools, AllPaid, AllRan, NoDoubt
<1>5. CASE w.pc = "done"
  BY <1>5 DEF Knows, Fits, Final
<1>6. CASE w.pc \notin {"plan", "withheld", "rules", "tools", "done"}
  BY <1>6 DEF Endings
<1> QED BY <1>1, <1>2, <1>3, <1>4, <1>5, <1>6

\* The coordinator ends its run.
LEMMA EndStep ==
  ASSUME IInv, BookInv, ToolInv, AgentInv, NEW t \in Task, NEW e \in Reading, End(t, e)
  PROVE  AgentInv'
<1>1. PICK final \in Endings(wk[t].pc) :
        Finish(t, e, final, IF final = "completed" THEN None ELSE "other")
  BY DEF End
<1> DEFINE w == wk[t]
           h == held[t]
           row == MyRow(t)
           s == res[held[t].run]
           c == tool[held[t].run]
           b == batch[held[t].run]
           code == IF final = "completed" THEN None ELSE "other"
           new == [Released(row) EXCEPT !.state = final, !.err = code]
           lost == [w EXCEPT !.pc = "lost"]
<1>2. w.pc # "idle" /\ final \in {"completed", "failed", "recovery_required"}
  BY <1>1 DEF Endings
<1>3. /\ Fenced(t, e) /\ CanTransitionTo(row.state, final) /\ GiveUp(t, new)
      /\ UNCHANGED <<res, tool, batch>>
      /\ wk' = [wk EXCEPT ![t] = IF held'[t] = NoLease THEN Idle ELSE lost]
  BY <1>1 DEF End, Finish, Conclude
<1>4. /\ row \in Row /\ RowInv(row) /\ Mine(h, row) /\ h.run \in Run /\ w \in TaskState
      /\ row.state \in LeasedStates /\ h.ckpt = row.ckpt
      /\ Fits(row, s, c, b) /\ Knows(w, h, row, s, c)
  BY <1>2, <1>3, WriterKnows
<1>5. new.gen = row.gen /\ new.ckpt = row.ckpt /\ new.state = final
  BY SMTT(30), <1>4 DEF Released, Row
<1>6. new \in Row
  <2>1. final \in CompletionStates /\ code \in {None, "other"}
    BY <1>2 DEF CompletionStates, Terminal
  <2> HIDE DEF row, code
  <2> QED BY <1>3, <1>4, <2>1, FinishInv DEF RowInv
<1>7. lost.pc = "lost"
  BY <1>4 DEF TaskState
<1>8. /\ res' = [res EXCEPT ![h.run] = s] /\ tool' = [tool EXCEPT ![h.run] = c]
      /\ batch' = [batch EXCEPT ![h.run] = b]
  BY <1>3, <1>4, Unchanged
<1> HIDE DEF w, h, row, s, c, b, code, new, lost
<1>9. final # "recovery_required" => NoDoubt(s, c)
  BY <1>1, <1>4, EndingIsSure DEF w
<1>10. Fits(new, s, c, b)
  BY <1>2, <1>4, <1>5, <1>9 DEF Fits, LinksBatch, Batched, Final, ClaimableStates
<1>11. new.gen = MyRow(t).gen
  BY <1>5 DEF row
<1>12. CASE held'[t] = NoLease
  <2>1. Does(t, Idle, s, c, b)
    BY <1>3, <1>8, <1>12 DEF Does, RunOf, h
  <2>2. Idle.pc = "idle" /\ Idle.turns = 0 /\ Idle.calls = 0
    BY DEF Idle
  <2> QED BY <1>3, <1>6, <1>10, <1>11, <1>12, <2>1, <2>2, WriteStep
<1>13. CASE held'[t] # NoLease
  <2>1. Does(t, lost, s, c, b)
    BY <1>3, <1>8, <1>13 DEF Does, RunOf, h
  <2>2. Knows(lost, held'[t], new, s, c)
    BY <1>7, LostKnows
  <2> QED BY <1>3, <1>6, <1>7, <1>10, <1>11, <2>1, <2>2, WriteStep
<1> QED BY <1>12, <1>13

\* A task that is gone knows nothing, and its run is as it was.
LEMMA DropStep ==
  ASSUME IInv, BookInv, ToolInv, AgentInv, NEW t \in Task, Drop(t)
  PROVE  AgentInv'
<1>1. /\ held' = [held EXCEPT ![t] = NoLease] /\ wk' = [wk EXCEPT ![t] = Idle]
      /\ UNCHANGED <<run, res, tool, batch>>
  BY DEF Drop, Crash
<1>2. /\ wk'[t] = Idle /\ held'[t] = NoLease
      /\ \A u \in Task \ {t} : wk'[u] = wk[u] /\ held'[u] = held[u]
  BY <1>1 DEF BookInv, IInv, HeldInv
<1>3. \A r \in Run : RunFits(r)'
  BY <1>1 DEF AgentInv, RunFits
<1>4. \A u \in Task : TaskFits(u)'
  <2>1. TaskFits(t)'
    BY <1>2 DEF TaskFits, Idle
  <2>2. \A u \in Task \ {t} : TaskFits(u)'
    BY <1>1, <1>2 DEF AgentInv, TaskFits
  <2> QED BY <2>1, <2>2
<1>5. Attempts'
  BY <1>1, <1>2 DEF AgentInv, Attempts
<1> QED BY <1>3, <1>4, <1>5 DEF AgentInv
---------------------------------------------------------------------------
(* Claims, and what happens to the table meanwhile *)

\* What a claim makes of a row that can be claimed.
LEMMA ClaimedFits ==
  ASSUME NEW row, RowInv(row), row.state \in ClaimableStates,
         NEW w \in WorkerId, NEW e \in Reading, NEW s, NEW c, NEW b, Fits(row, s, c, b)
  PROVE  LET new == Bumped(ClaimedRow(row, w, e)) IN
         new.gen = row.gen + 1 /\ new.ckpt \in {None, row.ckpt} /\ Fits(new, s, c, b)
<1> DEFINE new == Bumped(ClaimedRow(row, w, e))
<1>1. row \in Row
  BY DEF RowInv
<1>2. /\ new.gen = row.gen + 1 /\ new.state = "leased"
      /\ new.ckpt = IF row.err = "checkpoint_adoption_ready" THEN row.ckpt ELSE None
  BY <1>1 DEF Bumped, ClaimedRow, Renewed, Row
<1> HIDE DEF new
<1>3. new.ckpt = row.ckpt
  BY <1>2 DEF Fits
<1>4. Fits(new, s, c, b)
  BY <1>2, <1>3 DEF Fits, LinksBatch, Batched, Final, ClaimableStates, FinalKind
<1> QED BY <1>2, <1>3, <1>4 DEF new

\* A claim ends what the others knew of the run.
LEMMA OutrunKnows ==
  ASSUME NEW w, NEW h, NEW row, NEW s, NEW c, Knows(w, h, row, s, c), ~Alone(h, row),
         NEW row2, ~Mine(h, row2)
  PROVE  Knows(w, h, row2, s, c)
BY DEF Knows, Started, Fed

\* A run is claimed under a new attempt.
LEMMA ClaimStep ==
  ASSUME IInv, BookInv, ToolInv, AgentInv, NEW t \in Task, NEW w \in WorkerId,
         NEW e \in Reading, Claim(t, w, e)
  PROVE  AgentInv'
<1>1. /\ wk[t].pc = "idle" /\ held[t] = NoLease /\ UNCHANGED <<res, tool, batch>>
      /\ wk' = IF held'[t] = NoLease THEN wk ELSE [wk EXCEPT ![t].pc = "leased"]
  BY DEF Claim, At, ClaimNext
<1>2. PICK r \in Run :
        /\ run[r].state \in ClaimableStates
        /\ run' = [run EXCEPT ![r] = Bumped(ClaimedRow(run[r], w, e))]
        /\ \/ held' = [held EXCEPT ![t] = LeaseOf(r, Bumped(ClaimedRow(run[r], w, e)))]
           \/ UNCHANGED held
  <2>1. PICK Q \in Scans("queued"), S \in Scans("retry_scheduled") :
          \E r \in {q \in Q \cup S : Eligible(run[q], e)} :
            /\ run' = [run EXCEPT ![r] = Bumped(ClaimedRow(run[r], w, e))]
            /\ \/ held' = [held EXCEPT ![t] = LeaseOf(r, Bumped(ClaimedRow(run[r], w, e)))]
               \/ UNCHANGED held
    BY Zenon DEF Claim, ClaimNext
  <2>2. PICK r \in {q \in Q \cup S : Eligible(run[q], e)} :
            /\ run' = [run EXCEPT ![r] = Bumped(ClaimedRow(run[r], w, e))]
            /\ \/ held' = [held EXCEPT ![t] = LeaseOf(r, Bumped(ClaimedRow(run[r], w, e)))]
               \/ UNCHANGED held
    BY <2>1
  <2>3. r \in InState("queued") \cup InState("retry_scheduled")
    BY DEF Scans
  <2> QED BY <2>2, <2>3 DEF InState, ClaimableStates
<1> DEFINE new == Bumped(ClaimedRow(run[r], w, e))
<1>3. RowInv(run[r]) /\ run[r].gen \in Nat /\ RunFits(r)
  BY DEF IInv, RowInv, Row, AgentInv
<1>4. new.gen = run[r].gen + 1 /\ Fits(new, res[r], tool[r], batch[r])
  BY <1>2, <1>3, ClaimedFits DEF RunFits
<1>5. /\ run'[r] = new /\ \A q \in Run \ {r} : run'[q] = run[q]
      /\ \A u \in Task \ {t} : held'[u] = held[u]
      /\ held'[t] \in {NoLease, LeaseOf(r, new)}
  BY <1>1, <1>2 DEF IInv, HeldInv
<1>6. LeaseOf(r, new).run = r /\ LeaseOf(r, new).gen = new.gen
  BY DEF LeaseOf
<1> HIDE DEF new
<1>7. \A q \in Run : RunFits(q)'
  BY <1>1, <1>4, <1>5 DEF AgentInv, RunFits
<1>8. ASSUME NEW u \in Task \ {t}, held[u] # NoLease
      PROVE  /\ held[u].gen \in Nat /\ held[u].gen <= run[held[u].run].gen
             /\ held[u].run \in Run
             /\ held[u].run = r => held[u].gen < new.gen
  <2>1. held[u].gen \in Nat /\ held[u].run \in Run /\ held[u].gen <= run[held[u].run].gen
    BY <1>8, HeldRun DEF AgentInv, Attempts
  <2> QED BY <1>3, <1>4, <2>1
<1>9. ASSUME NEW u \in Task PROVE TaskFits(u)'
  <2>1. CASE u # t
    <3>1. held'[u] = held[u] /\ wk'[u] = wk[u] /\ TaskFits(u)
      BY <1>1, <1>5, <2>1 DEF AgentInv, BookInv
    <3>2. CASE held[u] = NoLease \/ held[u].run # r
      <4>1. held[u] # NoLease => run'[held[u].run] = run[held[u].run]
        BY <1>5, <1>8, <2>1, <3>2
      <4> QED BY <1>1, <3>1, <4>1 DEF TaskFits
    <3>3. CASE held[u] # NoLease /\ held[u].run = r
      <4>1. ~Alone(held[u], run[r])
        BY <1>2 DEF Alone, ClaimableStates
      <4>2. ~Mine(held[u], new)
        BY <1>4, <1>3, <1>8, <2>1, <3>3 DEF Mine
      <4>3. Knows(wk[u], held[u], new, res[r], tool[r])
        BY <3>1, <3>3, <4>1, <4>2, OutrunKnows DEF TaskFits
      <4>4. Knows(wk'[u], held'[u], run'[r], res'[r], tool'[r])
        BY <1>1, <1>5, <3>1, <4>3
      <4> QED BY <3>1, <3>3, <4>4 DEF TaskFits
    <3> QED BY <3>2, <3>3
  <2>2. CASE u = t /\ held'[t] = NoLease
    BY <1>1, <2>2 DEF AgentInv, TaskFits
  <2>3. CASE u = t /\ held'[t] # NoLease
    <3>1. wk'[t].pc = "leased" /\ wk'[t].turns = 0 /\ wk'[t].calls = 0
      <4>1. wk[t] \in TaskState /\ wk[t].turns = 0 /\ wk[t].calls = 0
        BY <1>1 DEF AgentInv, TaskFits, BookInv
      <4>2. wk'[t] = [wk[t] EXCEPT !.pc = "leased"]
        BY <1>1, <2>3 DEF BookInv
      <4> QED BY <4>1, <4>2 DEF TaskState
    <3>2. \A h, row, s, c : Knows(wk'[t], h, row, s, c)
      BY <3>1 DEF Knows, Started, First, Fed
    <3> QED BY <2>3, <3>1, <3>2 DEF TaskFits
  <2> QED BY <2>1, <2>2, <2>3
<1>10. Attempts'
  <2>1. held'[t] # NoLease => held'[t].run = r /\ held'[t].gen = new.gen
    BY <1>5, <1>6
  <2>2. ASSUME NEW u \in Task, held'[u] # NoLease
        PROVE  held'[u].gen <= run'[held'[u].run].gen
    <3>1. CASE u = t
      BY <1>3, <1>4, <1>5, <2>1, <2>2, <3>1
    <3>2. CASE u # t
      <4>1. held'[u] = held[u] /\ held[u] # NoLease
        BY <1>5, <2>2, <3>2
      <4>2. /\ held[u].gen \in Nat /\ held[u].gen <= run[held[u].run].gen
            /\ held[u].run \in Run
            /\ held[u].run = r => held[u].gen < new.gen
        BY <1>8, <3>2, <4>1
      <4>3. CASE held[u].run = r
        BY <1>3, <1>4, <1>5, <4>1, <4>2, <4>3
      <4>4. CASE held[u].run # r
        BY <1>5, <4>1, <4>2, <4>4
      <4> QED BY <4>3, <4>4
    <3> QED BY <3>1, <3>2
  <2>3. ASSUME NEW u \in Task, NEW v \in Task, held'[u] # NoLease, held'[v] # NoLease,
               held'[u].run = held'[v].run, held'[u].gen = held'[v].gen
        PROVE  u = v
    <3>1. ASSUME NEW x \in Task, x # t, held'[x] # NoLease, held'[x].run = r
          PROVE  held'[x].gen \in Nat /\ held'[x].gen < new.gen
      BY <1>5, <1>8, <3>1
    <3>2. CASE u # t /\ v # t
      BY <1>5, <2>3, <3>2 DEF AgentInv, Attempts
    <3>3. CASE u = t /\ v # t
      BY <1>3, <1>4, <2>1, <2>3, <3>1, <3>3
    <3>4. CASE u # t /\ v = t
      BY <1>3, <1>4, <2>1, <2>3, <3>1, <3>4
    <3> QED BY <3>2, <3>3, <3>4
  <2> QED BY <2>2, <2>3 DEF Attempts
<1> QED BY <1>7, <1>9, <1>10 DEF AgentInv

\* What the table may do with a row of which s, c and b were done.
Passes(row, row2, s, c, b) ==
  /\ row2.gen = row.gen /\ Fits(row2, s, c, b)
  /\ \A h : Alone(h, row) => Alone(h, row2)
  /\ LinksBatch(row2) => LinksBatch(row)

\* The table changes; whoever works on a row knows what it knew.
LEMMA RowsStep ==
  ASSUME IInv, AgentInv, UNCHANGED <<held, wk, res, tool, batch>>,
         \A r \in Run : Passes(run[r], run'[r], res[r], tool[r], batch[r])
  PROVE  AgentInv'
<1>1. \A r \in Run : RunFits(r)'
  BY DEF Passes, RunFits
<1>2. ASSUME NEW t \in Task PROVE TaskFits(t)'
  <2>1. CASE held[t] = NoLease
    BY <2>1 DEF AgentInv, TaskFits
  <2>2. CASE held[t] # NoLease
    <3>0. PICK r \in Run : r = held[t].run
      BY <2>2, HeldRun
    <3>1. Knows(wk[t], held[t], run[r], res[r], tool[r])
      BY <2>2, <3>0 DEF AgentInv, TaskFits
    <3>2. Passes(run[r], run'[r], res[r], tool[r], batch[r])
      OBVIOUS
    <3>3. Knows(wk[t], held[t], run'[r], res[r], tool[r])
      BY <3>1, <3>2, KnowsRow DEF Passes
    <3>4. Knows(wk'[t], held'[t], run'[r], res'[r], tool'[r])
      BY <3>3
    <3> QED BY <2>2, <3>0, <3>4 DEF AgentInv, TaskFits
  <2> QED BY <2>1, <2>2
<1>3. Attempts'
  <2>1. \A t \in Task : held[t] # NoLease => held[t].run \in Run
    BY HeldRun
  <2> QED BY <2>1 DEF AgentInv, Attempts, Passes
<1> QED BY <1>1, <1>2, <1>3 DEF AgentInv

\* A row of which nothing that matters changes.
LEMMA PassesSame ==
  ASSUME NEW row, NEW row2, NEW s, NEW c, NEW b, Fits(row, s, c, b),
         row2.gen = row.gen, row2.state = row.state, row2.ckpt = row.ckpt,
         row2.err = row.err
  PROVE  Passes(row, row2, s, c, b)
<1>1. Fits(row2, s, c, b)
  BY DEF Fits, LinksBatch, Batched, Final
<1> QED BY <1>1 DEF Passes, Alone, Mine, LinksBatch, Final

\* A recovered row: the run is adopted, ended, or left to an operator.
LEMMA RecoveredPasses ==
  ASSUME NEW row, RowInv(row), row.state \in WorkerStates, NEW e \in Reading,
         WellFormedExpired(row), NEW s, NEW c, NEW b, Fits(row, s, c, b)
  PROVE  Passes(row, Bumped(RecoveredRow(row, e)), s, c, b)
<1> DEFINE mid == RecoveredRow(row, e)
           new == Bumped(mid)
<1>1. row \in Row
  BY DEF RowInv
<1>2. CASE row.state = "leased"
  <2>1. row.ckpt = None
    BY <1>2 DEF WellFormedExpired, Fits, Adoptable, AdoptableKinds, LinksBatch
  <2>2. mid = (IF row.retry >= MaxRunRetries THEN Settled(row, "failed", "other")
               ELSE Requeued(row, e, "other"))
    BY <1>2 DEF RecoveredRow
  <2>3. /\ new.gen = row.gen /\ new.ckpt = None
        /\ new.state \in {"failed", "retry_scheduled"}
    BY <1>1, <2>1, <2>2 DEF Settled, Requeued, Released, Bumped, Row
  <2> HIDE DEF new
  <2>4. Len(s) = 0 /\ Len(c) = 0 /\ History(s, c)
    BY <1>2, <2>1 DEF Fits
  <2>5. Fits(new, s, c, b)
    BY <2>3, <2>4 DEF Fits, LinksBatch, Final, NoDoubt
  <2>6. Passes(row, new, s, c, b)
    BY <1>2, <2>3, <2>5 DEF Passes, Alone, LinksBatch
  <2> QED BY <2>6 DEF new
<1>3. CASE row.state # "leased" /\ Final(row)
  <2>1. mid = Settled(row, "completed", None)
    BY <1>3 DEF RecoveredRow, Final, Adoptable, FinalKind, AdoptableKinds
  <2>2. new.gen = row.gen /\ new.ckpt = row.ckpt /\ new.state = "completed"
    BY <1>1, <2>1 DEF Settled, Released, Bumped, Row
  <2> HIDE DEF new
  <2>3. Fits(new, s, c, b)
    BY <1>3, <2>2 DEF Fits, LinksBatch, Batched, Final, ClaimableStates
  <2>4. Passes(row, new, s, c, b)
    BY <1>3, <2>2, <2>3 DEF Passes, Alone, LinksBatch
  <2> QED BY <2>4 DEF new
<1>4. CASE row.state # "leased" /\ ~Final(row) /\ Adoptable(row)
  <2>1. LinksBatch(row)
    BY <1>4 DEF Fits, Adoptable, AdoptableKinds, FinalKind, LinksBatch
  <2>2. mid = (IF row.retry >= MaxRunRetries
               THEN Settled(row, "recovery_required", "other")
               ELSE Requeued(row, e, "checkpoint_adoption_ready"))
    BY <1>4 DEF RecoveredRow
  <2>3. /\ new.gen = row.gen /\ new.ckpt = row.ckpt
        /\ \/ new.state = "recovery_required"
           \/ new.state = "retry_scheduled" /\ new.err = "checkpoint_adoption_ready"
    BY <1>1, <2>2 DEF Settled, Requeued, Released, Bumped, Row
  <2> HIDE DEF new
  <2>4. Fits(new, s, c, b)
    BY <1>4, <2>1, <2>3 DEF Fits, LinksBatch, Batched, Final, ClaimableStates
  <2>5. Passes(row, new, s, c, b)
    BY <2>1, <2>3, <2>4 DEF Passes, Alone, LinksBatch
  <2> QED BY <2>5 DEF new
<1>5. CASE row.state # "leased" /\ ~Final(row) /\ ~Adoptable(row)
  <2>1. mid = Settled(row, "recovery_required", "other")
    BY <1>5 DEF RecoveredRow
  <2>2. new.gen = row.gen /\ new.ckpt = row.ckpt /\ new.state = "recovery_required"
    BY <1>1, <2>1 DEF Settled, Released, Bumped, Row
  <2> HIDE DEF new
  <2>3. Fits(new, s, c, b)
    BY <1>5, <2>2 DEF Fits, LinksBatch, Batched, Final, ClaimableStates
  <2>4. Passes(row, new, s, c, b)
    BY <2>2, <2>3 DEF Passes, Alone, Mine, LinksBatch, Final
  <2> QED BY <2>4 DEF new
<1> QED BY <1>2, <1>3, <1>4, <1>5
\* Recovery, retention and time.
LEMMA TableFits ==
  ASSUME IInv, BookInv, ToolInv, AgentInv, TableStep
  PROVE  AgentInv'
<1>1. UNCHANGED <<held, wk, res, tool, batch>>
  BY DEF TableStep, RecoverExpiredLeases, ClearCheckpoint, Tick
<1>2. ASSUME NEW r \in Run
      PROVE  /\ RowInv(run[r]) /\ run[r] \in Row
             /\ Fits(run[r], res[r], tool[r], batch[r])
             /\ Passes(run[r], run[r], res[r], tool[r], batch[r])
  BY PassesSame DEF IInv, RowInv, AgentInv, RunFits
<1>3. CASE \E e \in Reading : RecoverExpiredLeases(e)
  <2>1. PICK e \in Reading : RecoverExpiredLeases(e)
    BY <1>3
  <2>2. PICK W \in RecoveryWindows :
          /\ \A r \in Expired(W, e) : WellFormedExpired(run[r])
          /\ run' = [r \in Run |-> IF r \in Expired(W, e)
                                   THEN Bumped(RecoveredRow(run[r], e)) ELSE run[r]]
    BY <2>1 DEF RecoverExpiredLeases
  <2>3. \A r \in Expired(W, e) : run[r].state \in RecoverableStates
    <3>1. PICK P \in SUBSET Recoverable :
            W = {r \in P : Cardinality({q \in P : q < r}) < MaxCandidateScan}
      BY Zenon DEF RecoveryWindows
    <3>2. \A r \in W : r \in Recoverable
      BY <3>1
    <3> QED BY <3>2 DEF Expired, Recoverable, InState
  <2>4. ASSUME NEW r \in Run
        PROVE  Passes(run[r], run'[r], res[r], tool[r], batch[r])
    <3>1. CASE r \in Expired(W, e)
      <4>1. run[r].state \in WorkerStates
        BY <1>2, <2>3, <3>1 DEF RowInv, WellFormed, RecoverableStates, WorkerStates
      <4>2. run'[r] = Bumped(RecoveredRow(run[r], e)) /\ WellFormedExpired(run[r])
        BY <2>2, <3>1
      <4> QED BY <1>2, <4>1, <4>2, RecoveredPasses
    <3>2. CASE r \notin Expired(W, e)
      <4>1. run'[r] = run[r]
        BY <2>2, <3>2
      <4> QED BY <1>2, <4>1
    <3> QED BY <3>1, <3>2
  <2> QED BY <1>1, <2>4, RowsStep
<1>4. CASE \E r \in Run : ClearCheckpoint(r)
  <2>1. PICK q \in Run : ClearCheckpoint(q)
    BY <1>4
  <2> DEFINE new == Bumped([run[q] EXCEPT !.ckpt = None])
  <2>2. /\ run[q].state \in Terminal /\ run'[q] = new
        /\ \A r \in Run \ {q} : run'[r] = run[r]
    BY <2>1 DEF ClearCheckpoint, IInv
  <2>3. new.gen = run[q].gen /\ new.state = run[q].state /\ new.ckpt = None
    BY <1>2 DEF Bumped, Row
  <2> HIDE DEF new
  <2>4. Fits(new, res[q], tool[q], batch[q])
    BY <1>2, <2>2, <2>3 DEF Fits, LinksBatch, Final, ClaimableStates, Terminal
  <2>5. Passes(run[q], new, res[q], tool[q], batch[q])
    BY <2>2, <2>3, <2>4 DEF Passes, Alone, LinksBatch, Terminal
  <2>6. \A r \in Run : Passes(run[r], run'[r], res[r], tool[r], batch[r])
    BY <1>2, <2>2, <2>5
  <2> QED BY <1>1, <2>6, RowsStep
<1>5. CASE Tick
  <2>1. ASSUME NEW r \in Run
        PROVE  Passes(run[r], run'[r], res[r], tool[r], batch[r])
    <3>1. run'[r] = [run[r] EXCEPT !.left = Later(@), !.wait = Later(@)]
      BY <1>5 DEF Tick
    <3>2. /\ run'[r].gen = run[r].gen /\ run'[r].state = run[r].state
          /\ run'[r].ckpt = run[r].ckpt /\ run'[r].err = run[r].err
      BY <1>2, <3>1 DEF Row
    <3> QED BY <1>2, <3>2, PassesSame
  <2> QED BY <1>1, <2>1, RowsStep
<1> QED BY <1>3, <1>4, <1>5 DEF TableStep
---------------------------------------------------------------------------
\* The invariant holds at first, and every step keeps it.
LEMMA InitAgent == RInit => AgentInv
<1> SUFFICES ASSUME RInit PROVE AgentInv
  OBVIOUS
<1>1. /\ run = [r \in Run |-> QueuedRow] /\ held = [t \in Task |-> NoLease]
      /\ wk = [t \in Task |-> Idle]
      /\ res = [r \in Run |-> <<>>] /\ tool = [r \in Run |-> <<>>]
  BY DEF RInit, Init
<1>2. Attempts /\ \A t \in Task : TaskFits(t)
  BY <1>1 DEF Attempts, TaskFits, Idle
<1>3. ASSUME NEW r \in Run PROVE RunFits(r)
  <2>1. QueuedRow.ckpt = None /\ QueuedRow.state = "queued"
    BY DEF QueuedRow
  <2>2. Len(res[r]) = 0 /\ Len(tool[r]) = 0
    BY <1>1
  <2>3. Fits(QueuedRow, res[r], tool[r], batch[r])
    BY <2>1, <2>2 DEF Fits, History, LinksBatch, Final
  <2> QED BY <1>1, <2>3 DEF RunFits
<1> QED BY <1>2, <1>3 DEF AgentInv

\* Every step of the agent keeps the invariant.
LEMMA StepAgent ==
  IInv /\ BookInv /\ ToolInv /\ AgentInv /\ [RNext]_rvars => AgentInv'
<1> SUFFICES ASSUME IInv, BookInv, ToolInv, AgentInv, [RNext]_rvars PROVE AgentInv'
  OBVIOUS
<1>1. ASSUME NEW t \in Task, NEW e \in Reading, AgentStep(t, e) PROVE AgentInv'
  <2>1. CASE \E w \in WorkerId : Claim(t, w, e)
    BY <2>1, ClaimStep
  <2>2. CASE StartRun(t, e)
    BY <2>2, StartStep
  <2>3. CASE ConsumeBeforeProvider(t, e)
    BY <2>3, ConsumeStep
  <2>4. CASE Reserve(t, e)
    BY <2>4, ReserveStep
  <2>5. CASE ReleaseUnstarted(t, e)
    BY <2>5, ReleaseStep
  <2>6. CASE MarkUncertain(t, e)
    BY <2>6, MarkStep
  <2>7. CASE HeartbeatBeside(t, e)
    BY <2>7, BesideStep
  <2>8. CASE \E n \in 0..MaxToolCalls : CommitUsage(t, e, n)
    BY <2>8, CommitStep
  <2>9. CASE PersistProviderTurn(t, e)
    BY <2>9, TurnStep
  <2>10. CASE BeginToolCall(t, e)
    BY <2>10, BeginStep
  <2>11. CASE \E state \in {"completed", "egress_denied"} : FinishToolCall(t, e, state)
    BY <2>11, FinishToolStep
  <2>12. CASE PersistToolBatch(t, e)
    BY <2>12, BatchStep
  <2>13. CASE PersistOutput(t, e)
    BY <2>13, OutputStep
  <2>14. CASE End(t, e)
    BY <2>14, EndStep
  <2> QED BY <1>1, <2>1, <2>2, <2>3, <2>4, <2>5, <2>6, <2>7, <2>8, <2>9, <2>10, <2>11,
             <2>12, <2>13, <2>14 DEF AgentStep
<1>2. ASSUME NEW t \in Task, OwnStep(t) PROVE AgentInv'
  BY <1>2, AdoptStep, PlanStep, SendStep, ExecuteStep, DropStep DEF OwnStep
<1>3. CASE TableStep
  BY <1>3, TableFits
<1>4. CASE UNCHANGED rvars
  BY <1>4 DEF rvars, AgentInv, Attempts, RunFits, TaskFits
<1> QED BY <1>1, <1>2, <1>3, <1>4 DEF RNext

\* The inductive invariant, from which the three theorems follow.
LEMMA AgentAlways == RSpec => [](IInv /\ BookInv /\ ToolInv /\ AgentInv)
<1>1. IInv /\ BookInv /\ ToolInv /\ AgentInv /\ [RNext]_rvars
        => (IInv /\ BookInv /\ ToolInv /\ AgentInv)'
  BY StepRefines, NextInv, StepBook, StepTool, StepAgent
<1> QED BY InitBook, InitAgent, <1>1, PTL DEF RSpec

\* Adoption repeats nothing: whatever crashes, expires or is adopted, no turn
\* of a run is sent to the provider twice and no tool call is executed twice.
THEOREM NothingIsEverRepeated == RSpec => []NothingIsRepeated
<1>1. AgentInv /\ BookInv /\ ToolInv => NothingIsRepeated
  <2> SUFFICES ASSUME AgentInv, BookInv, ToolInv, NEW r \in Run
               PROVE  /\ \A i, j \in DOMAIN res[r] :
                           /\ res[r][i].sent <= 1
                           /\ (res[r][i].sent > 0 /\ res[r][j].sent > 0 /\ i # j) =>
                                res[r][i].turn # res[r][j].turn
                      /\ \A i, j \in DOMAIN tool[r] :
                           /\ tool[r][i].ran <= 1
                           /\ (tool[r][i].ran > 0 /\ tool[r][j].ran > 0 /\ i # j) =>
                                <<tool[r][i].turn, tool[r][i].index>>
                                  # <<tool[r][j].turn, tool[r][j].index>>
    BY DEF NothingIsRepeated, TurnSentOnce, ResolverRunsOnce
  <2>1. History(res[r], tool[r])
    BY DEF AgentInv, RunFits, Fits
  <2>2. DOMAIN res[r] = 1..Len(res[r]) /\ DOMAIN tool[r] = 1..Len(tool[r])
    BY LenProperties DEF BookInv, ToolInv
  <2> QED BY SMTT(30), <2>1, <2>2 DEF History
<1> QED BY AgentAlways, <1>1, PTL

\* A run that ends as completed or failed leaves neither a call unpaid nor a
\* tool call without a result.
THEOREM EndedRunsAreInNoDoubt == RSpec => []EndedInNoDoubt
<1>1. AgentInv /\ BookInv /\ ToolInv => EndedInNoDoubt
  <2> SUFFICES ASSUME AgentInv, BookInv, ToolInv, NEW r \in Run,
                      run[r].state \in {"completed", "failed"}
               PROVE  /\ \A i \in DOMAIN res[r] : res[r][i].state = "committed"
                      /\ \A j \in DOMAIN tool[r] : tool[r][j].state # "executing"
    BY DEF EndedInNoDoubt
  <2>1. NoDoubt(res[r], tool[r])
    BY DEF AgentInv, RunFits, Fits
  <2>2. DOMAIN res[r] = 1..Len(res[r]) /\ DOMAIN tool[r] = 1..Len(tool[r])
    BY LenProperties DEF BookInv, ToolInv
  <2> QED BY <2>1, <2>2 DEF NoDoubt
<1> QED BY AgentAlways, <1>1, PTL

\* The limits of the loop hold over all attempts of a run, and the batch a run
\* links tells exactly what the run has done.
THEOREM CountsAreAlwaysKept == RSpec => []CountsAreKept
<1>1. AgentInv /\ BookInv /\ ToolInv => CountsAreKept
  <2> SUFFICES ASSUME AgentInv, BookInv, ToolInv PROVE CountsAreKept
    OBVIOUS
  <2>0. ASSUME NEW r \in Run
        PROVE  /\ Fits(run[r], res[r], tool[r], batch[r]) /\ History(res[r], tool[r])
               /\ DOMAIN res[r] = 1..Len(res[r]) /\ DOMAIN tool[r] = 1..Len(tool[r])
               /\ Len(res[r]) \in Nat /\ Len(tool[r]) \in Nat
    BY LenProperties DEF AgentInv, RunFits, Fits, BookInv, ToolInv
  <2>1. ASSUME NEW n \in Nat, NEW S, S \subseteq 1..n
        PROVE  /\ Cardinality(S) \in Nat /\ Cardinality(S) <= n
               /\ Cardinality(1..n) = n
    <3>1. IsFiniteSet(1..n) /\ Cardinality(1..n) = n
      BY FS_Interval
    <3>2. IsFiniteSet(S) /\ Cardinality(S) <= Cardinality(1..n)
      BY <2>1, <3>1, FS_Subset
    <3> QED BY <3>1, <3>2, FS_CardinalityType
  <2>2. LoopIsBounded
    <3> SUFFICES ASSUME NEW r \in Run
                 PROVE  /\ Cardinality({i \in DOMAIN res[r] : res[r][i].sent > 0})
                             <= MaxProviderTurns
                        /\ Cardinality({j \in DOMAIN tool[r] : tool[r][j].ran > 0})
                             <= MaxTotalToolCalls
      BY DEF LoopIsBounded
    <3> DEFINE S == {i \in DOMAIN res[r] : res[r][i].sent > 0}
               T == {j \in DOMAIN tool[r] : tool[r][j].ran > 0}
    <3>1. S \subseteq 1..Len(res[r]) /\ T \subseteq 1..Len(tool[r])
      BY <2>0
    <3> HIDE DEF S, T
    <3>2. /\ Cardinality(S) \in Nat /\ Cardinality(S) <= Len(res[r])
          /\ Cardinality(T) \in Nat /\ Cardinality(T) <= Len(tool[r])
      BY <2>0, <2>1, <3>1
    <3>3. Len(res[r]) <= MaxProviderTurns /\ Len(tool[r]) <= MaxTotalToolCalls
      BY <2>0 DEF History
    <3>4. Cardinality(S) <= MaxProviderTurns /\ Cardinality(T) <= MaxTotalToolCalls
      BY <2>0, <3>2, <3>3
    <3> QED BY <3>4 DEF S, T
  <2>3. LinkedBatchIsComplete
    <3> SUFFICES ASSUME NEW r \in Run, LinksBatch(run[r])
                 PROVE  /\ batch[r].gen = run[r].ckpt.gen
                        /\ batch[r].res = Len(res[r])
                        /\ TurnIsProved(r, batch[r].res, run[r].ckpt.gen)
                        /\ batch[r].turns = Cardinality({i \in DOMAIN res[r] : res[r][i].sent > 0})
                        /\ batch[r].calls = Cardinality({j \in DOMAIN tool[r] : tool[r][j].ran > 0})
      BY DEF LinkedBatchIsComplete, LinksBatch
    <3>1. Batched(run[r], res[r], tool[r], batch[r])
      BY <2>0 DEF Fits
    <3>2. /\ {i \in DOMAIN res[r] : res[r][i].sent > 0} = 1..Len(res[r])
          /\ {j \in DOMAIN tool[r] : tool[r][j].ran > 0} = 1..Len(tool[r])
      BY <2>0, <3>1 DEF Batched, AllPaid, AllRan
    <3>3. TurnIsProved(r, batch[r].res, run[r].ckpt.gen)
      BY <2>0, <3>1 DEF Batched, AllPaid, AllRan, TurnIsProved
    <3> QED BY <2>0, <2>1, <3>1, <3>2, <3>3 DEF Batched
  <2> QED BY <2>2, <2>3 DEF CountsAreKept
<1> QED BY AgentAlways, <1>1, PTL
===========================================================================
