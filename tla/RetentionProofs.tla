-------------------------- MODULE RetentionProofs ---------------------------
(***************************************************************************)
(* What retention removes nobody needs any more, whatever the services do  *)
(* between its transactions, for any number of runs, files and workers and *)
(* for every limit.                                                        *)
(*                                                                         *)
(* A summary is safe because the parent it extends is safe and the rest    *)
(* was read again (SummaryCoversNoPurged carries itself); a pointer, since *)
(* checkpoints go only when no pointer is left or none names them.  What   *)
(* the last transaction of a deletion does not look at, proposals and tool *)
(* calls, was closed when its pass purged the checkpoints, and nothing     *)
(* that is left can open it again (FinalizeFits).                          *)
(*                                                                         *)
(* Attachments: rows and store agree, though uploads, removals, cleanup    *)
(* workers and retention work on the same files and each of them deletes   *)
(* objects first and writes the row later, for any number of files and     *)
(* workers.                                                                *)
(*                                                                         *)
(* Who still holds the row as it read it (fresh) knows what the row names; *)
(* nobody else has written it, or the write would have made it stale       *)
(* (RemoveFits, WorkerFits).  Who does not can still delete, but only      *)
(* objects it once saw the row name: the final object among them only of a *)
(* file that was given up then, and a file that was given up is never      *)
(* handed over again.  An upload that goes on after its row was taken away *)
(* removes what it made itself (UploadFits).                               *)
(***************************************************************************)
EXTENDS Retention, Attachments, NaturalsInduction, FiniteSetTheorems,
        SequenceTheorems, TLAPS

\* A compaction under way covers messages that exist.
PreparedFits == prepared # None => prepared.through \in 1 .. Len(message)

\* A file was attached to a message that exists.
FilesFit == \A f \in Attached : file[f].message <= Len(message)

\* A run that does not exist has left nothing; one that does has an attempt.
RunsFit ==
  \A r \in Runs :
    /\ run[r].state = "none" =>
         /\ run[r].latest = None
         /\ call[r].state = "none" /\ proposal[r].state = "none"
         /\ \A m \in 1 .. Len(message) : message[m].run # r
    /\ run[r].state # "none" => run[r].gen > 0

\* Only a proposal or call that exists is purged, and only a decided proposal.
PurgedFits ==
  \A r \in Runs :
    /\ proposal[r].purged => proposal[r].state \in {"rejected", "applied", "expired"}
    /\ call[r].purged => call[r].state = "closed"

\* All a deletion proves of runs, proposals and calls before it is final.
Closed ==
  /\ session.state \in {"deleting", "deleted"}
  /\ \A r \in Existing : Terminal(r)
  /\ \A r \in Proposed : proposal[r].purged
  /\ \A r \in Called : call[r].purged
FinalizeFits == \A w \in Workers : pass[w].at = "finalize" => Closed

RInv ==
  /\ ReferencesHold
  /\ PreparedFits /\ FilesFit /\ RunsFit /\ PurgedFits /\ FinalizeFits
  /\ LiveRunKeepsItsContent /\ DeletedIsEmpty

-----------------------------------------------------------------------------
(* The rows of the tables. *)

SessionRow == [state : SessionState, due : BOOLEAN]
EventRow == [delta : 0 .. MaxEvents, other : 0 .. MaxEvents, old : BOOLEAN]
MessageRow == [run : Runs, purged : BOOLEAN, old : BOOLEAN]
RunRow == [state : {"none", "live", "recovery", "ended"}, gen : 0 .. MaxGeneration,
           latest : CkptKind \cup {None}, at : 0 .. MaxGeneration]
CallRow == [state : {"none", "open", "closed"}, gen : 0 .. MaxGeneration,
            purged : BOOLEAN, old : BOOLEAN]
ProposalRow == [state : ProposalState, due : BOOLEAN, purged : BOOLEAN]
FileRow == [state : FileState, artifact : FileState, message : Nat]
PassRow == [at : {"idle", "scanned", "purge", "expire", "finalize"}, fresh : BOOLEAN]

\* What the bounds, limits and policies are.
LEMMA Bounds ==
  /\ MaxMessages \in Nat \ {0} /\ MaxGeneration \in Nat \ {0} /\ MaxEvents \in Nat \ {0}
  /\ Limit \in [Tables -> Nat \ {0}] /\ Policies \subseteq Policy
BY BoundAssumption, LimitAssumption, PoliciesAssumption

\* The types by their rows.
LEMMA Types ==
  ASSUME TypeOK
  PROVE  /\ host \in Hosts /\ session \in SessionRow /\ policy \in Policy
         /\ event \in EventRow /\ inbox \in 0 .. MaxEvents
         /\ message \in Seq(MessageRow) /\ context \subseteq 1 .. Len(message)
         /\ run \in [Runs -> RunRow] /\ ckpt \subseteq Checkpoint
         /\ call \in [Runs -> CallRow] /\ proposal \in [Runs -> ProposalRow]
         /\ file \in [Media -> FileRow]
         /\ prepared \in [through : Nat, parent : Nat] \cup {None}
         /\ outcome \subseteq Runs /\ pass \in [Workers -> PassRow]
BY DEF TypeOK, SessionRow, EventRow, MessageRow, RunRow, CallRow, ProposalRow, FileRow,
       PassRow

\* A step whose rows are rows keeps the types.
LEMMA TypesKept ==
  ASSUME host' \in Hosts, session' \in SessionRow, policy' \in Policy,
         event' \in EventRow, inbox' \in 0 .. MaxEvents,
         message' \in Seq(MessageRow), context' \subseteq 1 .. Len(message'),
         run' \in [Runs -> RunRow], ckpt' \subseteq Checkpoint,
         call' \in [Runs -> CallRow], proposal' \in [Runs -> ProposalRow],
         file' \in [Media -> FileRow],
         prepared' \in [through : Nat, parent : Nat] \cup {None},
         outcome' \subseteq Runs, pass' \in [Workers -> PassRow]
  PROVE  TypeOK'
BY DEF TypeOK, SessionRow, EventRow, MessageRow, RunRow, CallRow, ProposalRow, FileRow,
       PassRow

\* Rows stay rows.
LEMMA Generations == 0 \in 0 .. MaxGeneration /\ 1 \in 0 .. MaxGeneration
BY Bounds

\* A run with fields of their types.
LEMMA RunRows ==
  ASSUME NEW x \in RunRow, NEW g \in 0 .. MaxGeneration, NEW k \in CkptKind \cup {None},
         NEW s \in {"none", "live", "recovery", "ended"}
  PROVE  /\ [x EXCEPT !.state = s, !.gen = g] \in RunRow
         /\ [x EXCEPT !.latest = k, !.at = g] \in RunRow
         /\ [x EXCEPT !.state = s, !.latest = k, !.at = g] \in RunRow
         /\ [x EXCEPT !.gen = g] \in RunRow
         /\ [x EXCEPT !.state = s] \in RunRow
BY DEF RunRow

\* A tool call with fields of their types.
LEMMA CallRows ==
  ASSUME NEW x \in CallRow, NEW g \in 0 .. MaxGeneration
  PROVE  /\ [x EXCEPT !.state = "open", !.gen = g] \in CallRow
         /\ [x EXCEPT !.state = "closed", !.old = FALSE] \in CallRow
         /\ [x EXCEPT !.purged = TRUE] \in CallRow
         /\ [x EXCEPT !.old = TRUE] \in CallRow
         /\ [x EXCEPT !.old = FALSE] \in CallRow
BY DEF CallRow

\* A proposal with fields of their types.
LEMMA ProposalRows ==
  ASSUME NEW x \in ProposalRow, NEW s \in ProposalState
  PROVE  /\ [x EXCEPT !.state = s] \in ProposalRow
         /\ [x EXCEPT !.due = TRUE] \in ProposalRow
         /\ [x EXCEPT !.purged = TRUE, !.state = s] \in ProposalRow
BY DEF ProposalRow

\* A file with fields of their types.
LEMMA FileRows ==
  ASSUME NEW x \in FileRow, NEW s \in FileState, NEW a \in FileState
  PROVE  /\ [x EXCEPT !.state = s] \in FileRow
         /\ [x EXCEPT !.artifact = a] \in FileRow
         /\ [x EXCEPT !.artifact = a, !.state = s] \in FileRow
BY DEF FileRow

\* A message with fields of their types.
LEMMA MessageRows ==
  ASSUME NEW x \in MessageRow
  PROVE  /\ [x EXCEPT !.purged = TRUE] \in MessageRow
         /\ [x EXCEPT !.old = TRUE] \in MessageRow
         /\ [x EXCEPT !.old = FALSE] \in MessageRow
BY DEF MessageRow

\* A checkpoint with fields of their types.
LEMMA CkptRows ==
  ASSUME NEW x \in Checkpoint, NEW b \in BOOLEAN
  PROVE  [x EXCEPT !.old = b] \in Checkpoint
BY DEF Checkpoint

\* What a step does not touch stays as it is.
LEMMA Untouched ==
  /\ SummaryCoversNoPurged /\ UNCHANGED <<context, message>> => SummaryCoversNoPurged'
  /\ PointerNamesACheckpoint /\ UNCHANGED <<run, ckpt>> => PointerNamesACheckpoint'
  /\ PurgedMessageIsDetached /\ UNCHANGED <<file, message>> => PurgedMessageIsDetached'
  /\ PreparedFits /\ UNCHANGED <<prepared, message>> => PreparedFits'
  /\ FilesFit /\ UNCHANGED <<file, message>> => FilesFit'
  /\ RunsFit /\ UNCHANGED <<run, call, proposal, message>> => RunsFit'
  /\ PurgedFits /\ UNCHANGED <<call, proposal>> => PurgedFits'
  /\ FinalizeFits /\ UNCHANGED <<pass, session, run, call, proposal>> => FinalizeFits'
  /\ LiveRunKeepsItsContent /\ UNCHANGED <<run, call, proposal, message>> =>
       LiveRunKeepsItsContent'
  /\ DeletedIsEmpty /\ UNCHANGED <<session, tables>> => DeletedIsEmpty'
<1> USE DEF Existing, Terminal, Proposed, Called, Attached, Unpurged, MessageHead
<1>1. SummaryCoversNoPurged /\ UNCHANGED <<context, message>> => SummaryCoversNoPurged'
  BY DEF SummaryCoversNoPurged
<1>2. PointerNamesACheckpoint /\ UNCHANGED <<run, ckpt>> => PointerNamesACheckpoint'
  BY DEF PointerNamesACheckpoint, Latest
<1>3. PurgedMessageIsDetached /\ UNCHANGED <<file, message>> => PurgedMessageIsDetached'
  BY DEF PurgedMessageIsDetached
<1>4. PreparedFits /\ UNCHANGED <<prepared, message>> => PreparedFits'
  BY DEF PreparedFits
<1>5. FilesFit /\ UNCHANGED <<file, message>> => FilesFit'
  BY DEF FilesFit
<1>6. RunsFit /\ UNCHANGED <<run, call, proposal, message>> => RunsFit'
  BY DEF RunsFit
<1>7. PurgedFits /\ UNCHANGED <<call, proposal>> => PurgedFits'
  BY DEF PurgedFits
<1>8. FinalizeFits /\ UNCHANGED <<pass, session, run, call, proposal>> => FinalizeFits'
  BY DEF FinalizeFits, Closed
<1>9. LiveRunKeepsItsContent /\ UNCHANGED <<run, call, proposal, message>> =>
        LiveRunKeepsItsContent'
  BY DEF LiveRunKeepsItsContent
<1>10. DeletedIsEmpty /\ UNCHANGED <<session, tables>> => DeletedIsEmpty'
  BY DEF DeletedIsEmpty, tables
<1> HIDE DEF Existing, Terminal, Proposed, Called, Attached, Unpurged, MessageHead
<1> QED BY <1>1, <1>2, <1>3, <1>4, <1>5, <1>6, <1>7, <1>8, <1>9, <1>10

\* Events and inbox payloads are added to the counts.
LEMMA EventsAdded ==
  ASSUME TypeOK, NEW d \in Nat, NEW o \in Nat, AddEvents(d, o)
  PROVE  event' \in EventRow
<1> USE Bounds, Types
<1>1. event.delta \in Nat /\ event.other \in Nat /\ event.old \in BOOLEAN
  BY DEF EventRow
<1>2. Counted(event.delta + d) \in 0 .. MaxEvents /\ Counted(event.other + o) \in 0 .. MaxEvents
  BY <1>1 DEF Counted
<1>3. event' = [delta |-> Counted(event.delta + d), other |-> Counted(event.other + o),
                old |-> event.old /\ d = 0]
  BY DEF AddEvents, EventRow
<1>4. (event.old /\ d = 0) \in BOOLEAN
  OBVIOUS
<1> QED BY <1>2, <1>3, <1>4 DEF EventRow

\* So is an inbox payload.
LEMMA InboxAdded ==
  ASSUME TypeOK, AddInbox
  PROVE  inbox' \in 0 .. MaxEvents
BY Bounds, Types DEF AddInbox, Counted

\* A write of the session row moves no worker.
LEMMA Touched ==
  ASSUME TypeOK, Touch
  PROVE  /\ pass' \in [Workers -> PassRow]
         /\ \A w \in Workers : pass'[w].at = pass[w].at
BY Types DEF Touch, PassRow

\* Nor does a worker that goes on move another one.
LEMMA Gone ==
  ASSUME TypeOK, NEW w \in Workers,
         NEW where \in {"idle", "scanned", "purge", "expire", "finalize"}, Go(w, where)
  PROVE  /\ pass' \in [Workers -> PassRow]
         /\ \A v \in Workers : pass'[v].at = IF v = w THEN where ELSE pass[v].at
BY Types DEF Go, PassRow

\* A message that is written is the last one, and not purged.
LEMMA Appended ==
  ASSUME TypeOK, NEW r \in Runs,
         message' = Append(message, [run |-> r, purged |-> FALSE, old |-> FALSE])
  PROVE  /\ message' \in Seq(MessageRow)
         /\ Len(message') = Len(message) + 1
         /\ message'[Len(message) + 1] = [run |-> r, purged |-> FALSE, old |-> FALSE]
         /\ \A m \in 1 .. Len(message) : message'[m] = message[m]
<1> DEFINE m == [run |-> r, purged |-> FALSE, old |-> FALSE]
<1>1. m \in MessageRow /\ message \in Seq(MessageRow)
  BY Types DEF MessageRow
<1> HIDE DEF m
<1>2. message' = Append(message, m)
  BY DEF m
<1>3. /\ message' \in Seq(MessageRow)
      /\ Len(message') = Len(message) + 1
      /\ message'[Len(message) + 1] = m
      /\ \A i \in 1 .. Len(message) : message'[i] = message[i]
  BY <1>1, <1>2
<1> QED BY <1>3 DEF m

\* The parent of a summary is one of the context checkpoints, or nothing.
LEMMA ParentIsThere ==
  ASSUME TypeOK
  PROVE  /\ Parent \in context \cup {0} /\ Parent \in 0 .. Len(message)
         /\ \A c \in context : c <= Parent
<1> DEFINE S == context \cup {0}
           T == {Len(message) - c : c \in S}
           Less == {p \in Nat \X Nat : p[1] < p[2]}
<1>1. S \subseteq 0 .. Len(message) /\ Len(message) \in Nat
  BY Types
<1>2. T \subseteq Nat /\ T # {}
  BY <1>1
<1>3. IsWellFoundedOn(Less, Nat)
  BY NatLessThanWellFounded, Zenon DEF OpToRel
<1>4. PICK n \in T : \A m \in T : <<m, n>> \notin Less
  BY <1>2, <1>3, WFMin
<1>5. PICK x \in S : n = Len(message) - x
  BY <1>4
<1>6. \A y \in S : x >= y
  <2> SUFFICES ASSUME NEW y \in S PROVE x >= y
    OBVIOUS
  <2>1. Len(message) - y \in T
    OBVIOUS
  <2>2. ~(Len(message) - y < n)
    BY <2>1, <1>2, <1>4
  <2> QED BY <2>2, <1>1, <1>5
<1>7. Parent = Max(S)
  BY DEF Parent
<1>8. Max(S) \in S /\ \A y \in S : Max(S) >= y
  <2> HIDE DEF S
  <2> QED BY <1>6 DEF Max
<1> QED BY <1>1, <1>7, <1>8

\* Rewriting every message keeps the sequence.
LEMMA Rewritten ==
  ASSUME TypeOK, message' \in [1 .. Len(message) -> MessageRow]
  PROVE  message' \in Seq(MessageRow) /\ Len(message') = Len(message)
<1>1. Len(message) \in Nat
  BY Types
<1> QED
  BY <1>1

\* A step that only makes rows older or younger disturbs nothing.
LEMMA AgeMatters ==
  ASSUME RInv, UNCHANGED <<host, inbox, context, run, file, prepared, outcome, pass>>,
         policy' \in Policy,
         session' \in SessionRow, session'.state = session.state,
         event' \in EventRow, event'.delta = event.delta, event'.other = event.other,
         message' \in Seq(MessageRow), Len(message') = Len(message),
         \A m \in 1 .. Len(message) : /\ message'[m].run = message[m].run
                                      /\ message'[m].purged = message[m].purged,
         ckpt' \subseteq Checkpoint, ckpt = {} => ckpt' = {},
         \A c \in ckpt : \E d \in ckpt' : c.run = d.run /\ c.kind = d.kind /\ c.gen = d.gen,
         call' \in [Runs -> CallRow],
         \A q \in Runs : /\ call'[q].state = call[q].state
                         /\ call'[q].purged = call[q].purged,
         proposal' \in [Runs -> ProposalRow],
         \A q \in Runs : /\ proposal'[q].state = proposal[q].state
                         /\ proposal'[q].purged = proposal[q].purged
  PROVE  RInv'
<1>1. TypeOK'
  BY Types, TypesKept DEF RInv, ReferencesHold
<1>2. MessageHead' = MessageHead /\ Unpurged' = Unpurged
  BY DEF MessageHead, Unpurged
<1>3. Existing' = Existing /\ Proposed' = Proposed /\ Called' = Called /\ Attached' = Attached
  BY DEF Existing, Proposed, Called, Attached
<1>4. SummaryCoversNoPurged'
  BY <1>2 DEF RInv, ReferencesHold, SummaryCoversNoPurged
<1>5. PointerNamesACheckpoint'
  BY DEF RInv, ReferencesHold, PointerNamesACheckpoint, Latest
<1>6. PurgedMessageIsDetached'
  <2>1. file' = file /\ Attached' = Attached /\ PurgedMessageIsDetached /\ FilesFit
    BY <1>3 DEF RInv, ReferencesHold
  <2>2. \A f \in Attached : file[f].message \in Nat
    BY Types DEF RInv, ReferencesHold, Attached, FileRow
  <2>3. \A f \in Attached : file[f].message > 0 => file[f].message \in 1 .. Len(message)
    BY <2>1, <2>2, Types DEF FilesFit, RInv, ReferencesHold
  <2> QED BY <2>1, <2>3 DEF PurgedMessageIsDetached
<1>7. PreparedFits' /\ FilesFit'
  BY <1>3 DEF RInv, PreparedFits, FilesFit
<1>8. RunsFit'
  BY DEF RInv, RunsFit
<1>9. PurgedFits'
  BY DEF RInv, PurgedFits
<1>10. FinalizeFits'
  <2>1. Closed' = Closed
    BY <1>3 DEF Closed, Existing, Terminal, Proposed, Called
  <2> QED BY <2>1 DEF RInv, FinalizeFits
<1>11. LiveRunKeepsItsContent'
  BY <1>2, <1>3 DEF RInv, LiveRunKeepsItsContent, Existing, Terminal, MessageHead
<1>12. DeletedIsEmpty'
  BY <1>2, <1>3 DEF RInv, DeletedIsEmpty, Existing, Terminal, Proposed, Called
<1> QED
  BY <1>1, <1>4, <1>5, <1>6, <1>7, <1>8, <1>9, <1>10, <1>11, <1>12 DEF RInv, ReferencesHold

\* Time passes.
LEMMA AgeKeeps ==
  ASSUME RInv, Age, UNCHANGED host
  PROVE  RInv'
<1>0. TypeOK
  BY DEF RInv, ReferencesHold
<1>1. session' \in SessionRow /\ session'.state = session.state
  <2>1. session \in SessionRow /\ session' = [session EXCEPT !.due = session.state = "deleting"]
    BY <1>0, Types DEF Age
  <2>2. (session.state = "deleting") \in BOOLEAN
    OBVIOUS
  <2> QED BY <2>1, <2>2 DEF SessionRow
<1>2. event' \in EventRow /\ event'.delta = event.delta /\ event'.other = event.other
  BY <1>0, Types DEF Age, EventRow
<1>3. message' \in Seq(MessageRow) /\ Len(message') = Len(message)
      /\ \A m \in 1 .. Len(message) : /\ message'[m].run = message[m].run
                                      /\ message'[m].purged = message[m].purged
  <2>1. message' = [m \in 1 .. Len(message) |-> [message[m] EXCEPT !.old = TRUE]]
    BY DEF Age, MessageHead
  <2>2. \A m \in 1 .. Len(message) : message[m] \in MessageRow
    BY <1>0, Types
  <2>3. message' \in [1 .. Len(message) -> MessageRow]
    BY <2>1, <2>2, MessageRows
  <2>4. \A m \in 1 .. Len(message) : /\ message'[m].run = message[m].run
                                      /\ message'[m].purged = message[m].purged
    BY <2>1, <2>2 DEF MessageRow
  <2> QED BY <1>0, <2>3, <2>4, Rewritten
<1>4. /\ ckpt' \subseteq Checkpoint /\ (ckpt = {} => ckpt' = {})
      /\ \A c \in ckpt : \E d \in ckpt' : c.run = d.run /\ c.kind = d.kind /\ c.gen = d.gen
  <2>1. ckpt \subseteq Checkpoint /\ ckpt' = {[c EXCEPT !.old = TRUE] : c \in ckpt}
    BY <1>0, Types DEF Age
  <2>2. ckpt' \subseteq Checkpoint
    BY <2>1, CkptRows
  <2>3. \A c \in ckpt : LET d == [c EXCEPT !.old = TRUE]
                        IN d \in ckpt' /\ c.run = d.run /\ c.kind = d.kind /\ c.gen = d.gen
    BY <2>1 DEF Checkpoint
  <2> QED BY <2>1, <2>2, <2>3
<1>5. call' \in [Runs -> CallRow] /\ \A q \in Runs : /\ call'[q].state = call[q].state
                                                     /\ call'[q].purged = call[q].purged
  <2>1. call \in [Runs -> CallRow] /\ call' = [q \in Runs |->
          IF call[q].state = "closed" THEN [call[q] EXCEPT !.old = TRUE] ELSE call[q]]
    BY <1>0, Types DEF Age
  <2>2. call' \in [Runs -> CallRow]
    BY <2>1, CallRows, Generations
  <2> QED BY <2>1, <2>2 DEF CallRow
<1>6. proposal' \in [Runs -> ProposalRow]
      /\ \A q \in Runs : /\ proposal'[q].state = proposal[q].state
                         /\ proposal'[q].purged = proposal[q].purged
  <2>1. PICK expiring : proposal' = [q \in Runs |->
          IF q \in expiring THEN [proposal[q] EXCEPT !.due = TRUE] ELSE proposal[q]]
    BY DEF Age
  <2>2. proposal \in [Runs -> ProposalRow] /\ "none" \in ProposalState
    BY <1>0, Types DEF ProposalState
  <2>3. proposal' \in [Runs -> ProposalRow]
    BY <2>1, <2>2, ProposalRows
  <2> QED BY <2>1, <2>2, <2>3 DEF ProposalRow
<1> QED
  BY <1>0, <1>1, <1>2, <1>3, <1>4, <1>5, <1>6, AgeMatters, Types DEF Age

\* Another policy.
LEMMA ChangePolicyKeeps ==
  ASSUME RInv, ChangePolicy, UNCHANGED host
  PROVE  RInv'
<1>0. TypeOK /\ policy' \in Policy
  BY Bounds DEF RInv, ReferencesHold, ChangePolicy
<1>1. CASE UNCHANGED <<session, event, message, ckpt, call>>
  BY <1>0, <1>1, AgeMatters, Types DEF ChangePolicy
<1>2. CASE ~UNCHANGED <<session, event, message, ckpt, call>>
  <2>1. session' \in SessionRow /\ session'.state = session.state
    BY <1>0, <1>2, Types DEF ChangePolicy, SessionRow
  <2>2. event' \in EventRow /\ event'.delta = event.delta /\ event'.other = event.other
    BY <1>0, <1>2, Types DEF ChangePolicy, EventRow
  <2>3. message' \in Seq(MessageRow) /\ Len(message') = Len(message)
        /\ \A m \in 1 .. Len(message) : /\ message'[m].run = message[m].run
                                        /\ message'[m].purged = message[m].purged
    <3>1. message' = [m \in 1 .. Len(message) |-> [message[m] EXCEPT !.old = FALSE]]
      BY <1>2 DEF ChangePolicy, MessageHead
    <3>2. \A m \in 1 .. Len(message) : message[m] \in MessageRow
      BY <1>0, Types
    <3>3. message' \in [1 .. Len(message) -> MessageRow]
      BY <3>1, <3>2, MessageRows
    <3>4. \A m \in 1 .. Len(message) : /\ message'[m].run = message[m].run
                                        /\ message'[m].purged = message[m].purged
      BY <3>1, <3>2 DEF MessageRow
    <3> QED BY <1>0, <3>3, <3>4, Rewritten
  <2>4. /\ ckpt' \subseteq Checkpoint /\ (ckpt = {} => ckpt' = {})
        /\ \A c \in ckpt : \E d \in ckpt' : c.run = d.run /\ c.kind = d.kind /\ c.gen = d.gen
    <3>1. ckpt \subseteq Checkpoint /\ ckpt' = {[c EXCEPT !.old = FALSE] : c \in ckpt}
      BY <1>0, <1>2, Types DEF ChangePolicy
    <3>2. ckpt' \subseteq Checkpoint
      BY <3>1, CkptRows
    <3>3. \A c \in ckpt : LET d == [c EXCEPT !.old = FALSE]
                          IN d \in ckpt' /\ c.run = d.run /\ c.kind = d.kind /\ c.gen = d.gen
      BY <3>1 DEF Checkpoint
    <3> QED BY <3>1, <3>2, <3>3
  <2>5. call' \in [Runs -> CallRow] /\ \A q \in Runs : /\ call'[q].state = call[q].state
                                                       /\ call'[q].purged = call[q].purged
    <3>1. call \in [Runs -> CallRow] /\ call' = [q \in Runs |-> [call[q] EXCEPT !.old = FALSE]]
      BY <1>0, <1>2, Types DEF ChangePolicy
    <3>2. call' \in [Runs -> CallRow]
      BY <3>1, CallRows, Generations
    <3> QED BY <3>1, <3>2 DEF CallRow
  <2> QED
    BY <1>0, <2>1, <2>2, <2>3, <2>4, <2>5, AgeMatters, Types DEF ChangePolicy
<1> QED BY <1>1, <1>2

\* A message and its run are new; a file comes with that message.
LEMMA SendMessageKeeps ==
  ASSUME RInv, NEW r \in Runs, SendMessage(r), UNCHANGED host
  PROVE  RInv'
<1>0. /\ Len(message') = Len(message) + 1 /\ Len(message) \in Nat
      /\ message'[Len(message) + 1] = [run |-> r, purged |-> FALSE, old |-> FALSE]
      /\ \A m \in 1 .. Len(message) : message'[m] = message[m]
  BY Appended, Types DEF SendMessage, RInv, ReferencesHold
<1>1. TypeOK'
  <2>1. TypeOK /\ AddEvents(0, 1) /\ AddInbox /\ Touch
    BY DEF SendMessage, RInv, ReferencesHold
  <2>2. event' \in EventRow /\ inbox' \in 0 .. MaxEvents /\ pass' \in [Workers -> PassRow]
    BY <2>1, EventsAdded, InboxAdded, Touched
  <2>3. message' \in Seq(MessageRow) /\ Len(message') = Len(message) + 1
    BY <2>1, Appended DEF SendMessage
  <2>4. run' \in [Runs -> RunRow]
    <3>1. [run[r] EXCEPT !.state = "live", !.gen = 1] \in RunRow
      BY <2>1, Types, Generations, RunRows
    <3> QED BY <2>1, <3>1, Types DEF SendMessage
  <2>5. file' \in [Media -> FileRow]
    <3>1. \A a \in {"none", "live"} :
            [state |-> "live", artifact |-> a, message |-> MessageHead + 1] \in FileRow
      BY <2>1, Types DEF FileRow, FileState, MessageHead
    <3> QED BY <2>1, <3>1, Types DEF SendMessage
  <2>6. context \subseteq 1 .. Len(message')
    BY <2>1, <2>3, Types
  <2> QED
    BY <2>1, <2>2, <2>3, <2>4, <2>5, <2>6, Types, TypesKept DEF SendMessage
<1>2. PurgedFits'
  BY Untouched DEF RInv, SendMessage
<1>3. SummaryCoversNoPurged'
  <2>1. SummaryCoversNoPurged /\ context \subseteq 1 .. Len(message) /\ context' = context
    BY Types DEF SendMessage, RInv, ReferencesHold
  <2> QED
    BY <1>0, <2>1 DEF SummaryCoversNoPurged, Unpurged, MessageHead
<1>4. PointerNamesACheckpoint'
  <2>1. /\ \A q \in Runs : run'[q].latest = run[q].latest /\ run'[q].at = run[q].at
        /\ ckpt' = ckpt /\ PointerNamesACheckpoint
    BY Types DEF SendMessage, RInv, ReferencesHold, RunRow
  <2> QED
    BY <2>1 DEF PointerNamesACheckpoint, Latest
<1>5. PurgedMessageIsDetached'
  <2>1. /\ PurgedMessageIsDetached /\ FilesFit /\ file \in [Media -> FileRow]
        /\ \A f \in Media : file'[f] = file[f] \/ file'[f].message = Len(message) + 1
    BY Types DEF SendMessage, RInv, ReferencesHold, MessageHead
  <2>2. \A f \in Media : file[f].message \in Nat
    BY <2>1 DEF FileRow
  <2> QED
    BY <1>0, <2>1, <2>2 DEF PurgedMessageIsDetached, FilesFit, Attached
<1>6. PreparedFits'
  BY DEF RInv, ReferencesHold, SendMessage, TypeOK, PreparedFits
<1>7. FilesFit'
  <2>1. /\ FilesFit /\ file \in [Media -> FileRow]
        /\ \A f \in Media : file'[f] = file[f] \/ file'[f].message = Len(message) + 1
    BY Types DEF SendMessage, RInv, ReferencesHold, MessageHead
  <2>2. \A f \in Media : file[f].message \in Nat
    BY <2>1 DEF FileRow
  <2> QED
    BY <1>0, <2>1, <2>2 DEF FilesFit, Attached
<1>8. RunsFit'
  <2>1. /\ RunsFit /\ call' = call /\ proposal' = proposal
        /\ run \in [Runs -> RunRow] /\ run'[r].state = "live" /\ run'[r].gen = 1
        /\ \A q \in Runs \ {r} : run'[q] = run[q]
    BY Types DEF SendMessage, RInv, ReferencesHold, RunRow
  <2> QED
    BY <1>0, <2>1 DEF RunsFit
<1>9. FinalizeFits'
  BY Bounds DEF RInv, ReferencesHold, SendMessage, Touch, TypeOK, FinalizeFits, Closed,
     Existing, Terminal, Proposed, Called, RunsFit, PurgedFits
<1>10. LiveRunKeepsItsContent'
  <2>1. /\ LiveRunKeepsItsContent /\ RunsFit /\ PurgedFits /\ call' = call /\ proposal' = proposal
        /\ run \in [Runs -> RunRow] /\ run[r].state = "none"
        /\ \A q \in Runs \ {r} : run'[q] = run[q]
    BY Types DEF SendMessage, RInv, ReferencesHold, RunRow
  <2> QED
    BY <1>0, <2>1 DEF LiveRunKeepsItsContent, RunsFit, PurgedFits, Existing, Terminal, MessageHead
<1>11. DeletedIsEmpty'
  BY Bounds DEF RInv, ReferencesHold, SendMessage, AddEvents, Counted, AddInbox, TypeOK,
     DeletedIsEmpty, Existing, Terminal, Proposed, Called, Attached, Unpurged, MessageHead,
     RunsFit, PurgedFits
<1> QED
  BY <1>1, <1>2, <1>3, <1>4, <1>5, <1>6, <1>7, <1>8, <1>9, <1>10, <1>11 DEF RInv, ReferencesHold

\* The session is archived, taken up again, or to be deleted.
LEMMA TransitionKeeps ==
  ASSUME RInv, Transition, UNCHANGED host
  PROVE  RInv'
<1>1. TypeOK'
  <2>1. TypeOK /\ AddInbox /\ Touch
    BY DEF Transition, RInv, ReferencesHold
  <2>2. inbox' \in 0 .. MaxEvents /\ pass' \in [Workers -> PassRow]
    BY <2>1, InboxAdded, Touched
  <2>3. session' \in SessionRow
    BY <2>1, Types DEF Transition, SessionRow, SessionState
  <2> QED
    BY <2>1, <2>2, <2>3, Types, TypesKept DEF Transition
<1>2. /\ SummaryCoversNoPurged' /\ PointerNamesACheckpoint' /\ PurgedMessageIsDetached'
      /\ PreparedFits' /\ FilesFit' /\ RunsFit' /\ PurgedFits'
      /\ LiveRunKeepsItsContent'
  BY Untouched DEF RInv, ReferencesHold, Transition
<1>3. FinalizeFits'
  <2>1. /\ FinalizeFits /\ \A w \in Workers : pass'[w].at = pass[w].at
        /\ session \in SessionRow /\ run' = run /\ proposal' = proposal /\ call' = call
    BY Types, Touched DEF Transition, RInv, ReferencesHold
  <2>2. session.state \notin {"active", "archived"} => session'.state = session.state
    BY DEF Transition
  <2>3. Closed => Closed'
    BY <2>1, <2>2 DEF Closed, Existing, Terminal, Proposed, Called, Transition
  <2> QED
    BY <2>1, <2>3 DEF FinalizeFits
<1>4. DeletedIsEmpty'
  BY Bounds DEF RInv, ReferencesHold, Transition, AddInbox, Counted, TypeOK, DeletedIsEmpty,
     Existing, Terminal, Proposed, Called, Attached, Unpurged, MessageHead, RunsFit,
     PurgedFits
<1> QED
  BY <1>1, <1>2, <1>3, <1>4 DEF RInv, ReferencesHold

\* A live delta.
LEMMA LiveDeltaKeeps ==
  ASSUME RInv, NEW r \in Runs, LiveDelta(r), UNCHANGED host
  PROVE  RInv'
<1>1. TypeOK'
  <2>1. TypeOK /\ AddEvents(1, 0) /\ Touch
    BY DEF LiveDelta, RInv, ReferencesHold
  <2>2. event' \in EventRow /\ pass' \in [Workers -> PassRow]
    BY <2>1, EventsAdded, Touched
  <2> QED
    BY <2>1, <2>2, Types, TypesKept DEF LiveDelta
<1>2. /\ SummaryCoversNoPurged' /\ PointerNamesACheckpoint' /\ PurgedMessageIsDetached'
      /\ PreparedFits' /\ FilesFit' /\ RunsFit' /\ PurgedFits'
      /\ LiveRunKeepsItsContent'
  BY Untouched DEF RInv, ReferencesHold, LiveDelta
<1>3. FinalizeFits'
  BY Bounds DEF RInv, ReferencesHold, LiveDelta, Touch, TypeOK, FinalizeFits, Closed,
     Existing, Terminal, Proposed, Called, RunsFit, PurgedFits
<1>4. DeletedIsEmpty'
  BY Bounds DEF RInv, ReferencesHold, LiveDelta, AddEvents, Counted, TypeOK, DeletedIsEmpty,
     Existing, Terminal, Proposed, Called, Attached, Unpurged, MessageHead, RunsFit,
     PurgedFits
<1> QED
  BY <1>1, <1>2, <1>3, <1>4 DEF RInv, ReferencesHold

\* The new checkpoint is the one the pointer names.
LEMMA PersistCheckpointKeeps ==
  ASSUME RInv, NEW r \in Runs, NEW kind \in ProtectedKind, PersistCheckpoint(r, kind), UNCHANGED host
  PROVE  RInv'
<1>1. TypeOK'
  <2>1. TypeOK /\ run[r] \in RunRow /\ kind \in CkptKind /\ run[r].gen \in 0 .. MaxGeneration
    BY Types DEF RInv, ReferencesHold, ProtectedKind, RunRow
  <2>2. run[r].gen \in 1 .. MaxGeneration
    BY <2>1, Bounds DEF RInv, RunsFit, PersistCheckpoint
  <2>3. run' \in [Runs -> RunRow]
    <3>1. [run[r] EXCEPT !.latest = kind, !.at = run[r].gen] \in RunRow
      BY <2>1, <2>2, RunRows
    <3> QED BY SMTT(30), <2>1, <3>1, Types DEF PersistCheckpoint
  <2>4. ckpt' \subseteq Checkpoint
    <3>1. [run |-> r, gen |-> run[r].gen, kind |-> kind, old |-> FALSE] \in Checkpoint
      BY <2>1, <2>2 DEF Checkpoint
    <3> QED BY <2>1, <3>1, Types DEF PersistCheckpoint
  <2> QED
    BY <2>1, <2>3, <2>4, Types, TypesKept DEF PersistCheckpoint
<1>2. /\ SummaryCoversNoPurged' /\ PurgedMessageIsDetached' /\ PreparedFits' /\ FilesFit'
      /\ PurgedFits'
  BY Untouched DEF RInv, ReferencesHold, PersistCheckpoint
<1>3. PointerNamesACheckpoint'
  <2>1. run[r] \in RunRow /\ run \in [Runs -> RunRow] /\ PointerNamesACheckpoint
    BY Types DEF RInv, ReferencesHold
  <2>2. /\ run'[r].latest = kind /\ run'[r].at = run[r].gen
        /\ \A q \in Runs \ {r} : run'[q] = run[q]
        /\ ckpt \subseteq ckpt'
        /\ [run |-> r, gen |-> run[r].gen, kind |-> kind, old |-> FALSE] \in ckpt'
    BY <2>1 DEF PersistCheckpoint, RunRow
  <2> QED
    BY <2>1, <2>2 DEF PointerNamesACheckpoint, Latest
<1>4. RunsFit'
  BY DEF RInv, ReferencesHold, PersistCheckpoint, TypeOK, RunsFit
<1>5. FinalizeFits'
  BY DEF RInv, ReferencesHold, PersistCheckpoint, TypeOK, FinalizeFits, Closed, Existing,
     Terminal, Proposed, Called, RunsFit, PurgedFits
<1>6. LiveRunKeepsItsContent'
  BY DEF RInv, ReferencesHold, PersistCheckpoint, TypeOK, LiveRunKeepsItsContent, Existing,
     Terminal, RunsFit, PurgedFits, MessageHead
<1>7. DeletedIsEmpty'
  BY DEF RInv, ReferencesHold, PersistCheckpoint, TypeOK, DeletedIsEmpty, Existing,
     Terminal, Proposed, Called, Attached, Unpurged, MessageHead, RunsFit, PurgedFits
<1> QED
  BY <1>1, <1>2, <1>3, <1>4, <1>5, <1>6, <1>7 DEF RInv, ReferencesHold

\* A call is opened or closed, by a run that is live.
LEMMA ToolCallKeeps ==
  ASSUME RInv, NEW r \in Runs, ToolCall(r), UNCHANGED host
  PROVE  RInv'
<1>0. /\ \A q \in Runs \ {r} : call'[q] = call[q]
      /\ \A q \in Runs : call'[q].purged = call[q].purged
      /\ call'[r].state \in {"open", "closed"} /\ run[r].state = "live"
      /\ call'[r].purged => call'[r].state = "closed"
  <2>1. call \in [Runs -> CallRow] /\ ~call[r].purged
    BY Types DEF ToolCall, RInv, ReferencesHold, PurgedFits
  <2> QED BY ZenonT(90), <2>1 DEF ToolCall, CallRow
<1>1. TypeOK'
  <2>1. TypeOK /\ call[r] \in CallRow /\ run[r].gen \in 0 .. MaxGeneration
    BY Types DEF RInv, ReferencesHold, RunRow
  <2>2. call' \in [Runs -> CallRow]
    <3>1. /\ [call[r] EXCEPT !.state = "open", !.gen = run[r].gen] \in CallRow
          /\ [call[r] EXCEPT !.state = "closed", !.old = FALSE] \in CallRow
      BY <2>1, CallRows
    <3> QED BY <2>1, <3>1, Types DEF ToolCall
  <2> QED
    BY <2>1, <2>2, Types, TypesKept DEF ToolCall
<1>2. /\ SummaryCoversNoPurged' /\ PointerNamesACheckpoint' /\ PurgedMessageIsDetached'
      /\ PreparedFits' /\ FilesFit'
  BY Untouched DEF RInv, ReferencesHold, ToolCall
<1>3. RunsFit'
  <2>1. run' = run /\ message' = message /\ proposal' = proposal
    BY DEF ToolCall
  <2> QED BY <1>0, <2>1 DEF RInv, RunsFit
<1>4. PurgedFits'
  <2>1. proposal' = proposal /\ PurgedFits
    BY DEF ToolCall, RInv
  <2> QED BY <1>0, <2>1 DEF PurgedFits
<1>5. FinalizeFits'
  BY DEF RInv, ReferencesHold, ToolCall, TypeOK, FinalizeFits, Closed, Existing, Terminal,
     Proposed, Called, RunsFit, PurgedFits
<1>6. LiveRunKeepsItsContent'
  <2>1. run' = run /\ message' = message /\ proposal' = proposal /\ LiveRunKeepsItsContent
    BY DEF ToolCall, RInv
  <2> QED
    BY <1>0, <2>1 DEF LiveRunKeepsItsContent, Existing, Terminal, MessageHead
<1>7. DeletedIsEmpty'
  BY DEF RInv, ReferencesHold, ToolCall, TypeOK, DeletedIsEmpty, Existing, Terminal,
     Proposed, Called, Attached, Unpurged, MessageHead, RunsFit, PurgedFits
<1> QED
  BY <1>1, <1>2, <1>3, <1>4, <1>5, <1>6, <1>7 DEF RInv, ReferencesHold

\* A batch is let go: one pointer less.
LEMMA ConsumeBatchKeeps ==
  ASSUME RInv, NEW r \in Runs, ConsumeBatch(r), UNCHANGED host
  PROVE  RInv'
<1>1. TypeOK'
  <2>1. TypeOK /\ run[r] \in RunRow
    BY SMTT(30), Types DEF RInv, ReferencesHold
  <2>2. [run[r] EXCEPT !.latest = None, !.at = 0] \in RunRow
    BY <2>1, Generations, RunRows
  <2> QED
    BY <2>1, <2>2, Types, TypesKept DEF ConsumeBatch
<1>2. /\ SummaryCoversNoPurged' /\ PurgedMessageIsDetached' /\ PreparedFits' /\ FilesFit'
      /\ PurgedFits'
  BY Untouched DEF RInv, ReferencesHold, ConsumeBatch
<1>3. PointerNamesACheckpoint'
  BY DEF RInv, ReferencesHold, ConsumeBatch, TypeOK, PointerNamesACheckpoint, Latest
<1>4. RunsFit'
  BY DEF RInv, ReferencesHold, ConsumeBatch, TypeOK, RunsFit
<1>5. FinalizeFits'
  BY DEF RInv, ReferencesHold, ConsumeBatch, TypeOK, FinalizeFits, Closed, Existing,
     Terminal, Proposed, Called, RunsFit, PurgedFits
<1>6. LiveRunKeepsItsContent'
  BY DEF RInv, ReferencesHold, ConsumeBatch, TypeOK, LiveRunKeepsItsContent, Existing,
     Terminal, RunsFit, PurgedFits, MessageHead
<1>7. DeletedIsEmpty'
  BY DEF RInv, ReferencesHold, ConsumeBatch, TypeOK, DeletedIsEmpty, Existing, Terminal,
     Proposed, Called, Attached, Unpurged, MessageHead, RunsFit, PurgedFits
<1> QED
  BY <1>1, <1>2, <1>3, <1>4, <1>5, <1>6, <1>7 DEF RInv, ReferencesHold

\* The answer's message, checkpoint and pointer come together.
LEMMA PersistOutputKeeps ==
  ASSUME RInv, NEW r \in Runs, PersistOutput(r), UNCHANGED host
  PROVE  RInv'
<1>0. /\ Len(message') = Len(message) + 1 /\ Len(message) \in Nat
      /\ message'[Len(message) + 1] = [run |-> r, purged |-> FALSE, old |-> FALSE]
      /\ \A m \in 1 .. Len(message) : message'[m] = message[m]
  BY Appended, Types DEF PersistOutput, RInv, ReferencesHold
<1>1. TypeOK'
  <2>1. /\ TypeOK /\ AddEvents(0, 1) /\ AddInbox /\ Touch
        /\ run[r] \in RunRow /\ run[r].gen \in 0 .. MaxGeneration
        /\ "ended" \in {"none", "live", "recovery", "ended"} /\ "final" \in CkptKind
    BY Types DEF PersistOutput, RInv, ReferencesHold, RunRow, CkptKind
  <2>2. run[r].gen \in 1 .. MaxGeneration
    BY <2>1, Bounds DEF RInv, RunsFit, PersistOutput
  <2>3. event' \in EventRow /\ inbox' \in 0 .. MaxEvents /\ pass' \in [Workers -> PassRow]
    BY <2>1, EventsAdded, InboxAdded, Touched
  <2>4. message' \in Seq(MessageRow) /\ context \subseteq 1 .. Len(message')
    <3>1. message' \in Seq(MessageRow)
      BY <2>1, Appended DEF PersistOutput
    <3>2. context \subseteq 1 .. Len(message')
      BY <1>0, <2>1, Types
    <3> QED BY <3>1, <3>2
  <2>5. run' \in [Runs -> RunRow]
    <3>1. [run[r] EXCEPT !.state = "ended", !.latest = "final", !.at = run[r].gen] \in RunRow
      BY <2>1, RunRows
    <3> QED BY <2>1, <3>1, Types DEF PersistOutput
  <2>6. ckpt' \subseteq Checkpoint
    <3>1. [run |-> r, gen |-> run[r].gen, kind |-> "final", old |-> FALSE] \in Checkpoint
      BY <2>1, <2>2 DEF Checkpoint
    <3> QED BY <2>1, <3>1, Types DEF PersistOutput
  <2> QED
    BY <2>1, <2>3, <2>4, <2>5, <2>6, Types, TypesKept DEF PersistOutput
<1>2. PurgedFits'
  BY Untouched DEF RInv, PersistOutput
<1>3. SummaryCoversNoPurged'
  <2>1. SummaryCoversNoPurged /\ context \subseteq 1 .. Len(message) /\ context' = context
    BY Types DEF PersistOutput, RInv, ReferencesHold
  <2> QED
    BY <1>0, <2>1 DEF SummaryCoversNoPurged, Unpurged, MessageHead
<1>4. PointerNamesACheckpoint'
  <2>1. run[r] \in RunRow /\ run \in [Runs -> RunRow] /\ PointerNamesACheckpoint
    BY Types DEF RInv, ReferencesHold
  <2>2. /\ run'[r].latest = "final" /\ run'[r].at = run[r].gen
        /\ \A q \in Runs \ {r} : run'[q] = run[q]
        /\ ckpt \subseteq ckpt'
        /\ [run |-> r, gen |-> run[r].gen, kind |-> "final", old |-> FALSE] \in ckpt'
    BY <2>1 DEF PersistOutput, RunRow
  <2> QED
    BY <2>1, <2>2 DEF PointerNamesACheckpoint, Latest
<1>5. PurgedMessageIsDetached'
  BY DEF RInv, ReferencesHold, PersistOutput, TypeOK, PurgedMessageIsDetached, Attached,
     FilesFit
<1>6. PreparedFits'
  BY DEF RInv, ReferencesHold, PersistOutput, TypeOK, PreparedFits
<1>7. FilesFit'
  BY DEF RInv, ReferencesHold, PersistOutput, TypeOK, FilesFit, Attached
<1>8. RunsFit'
  BY DEF RInv, ReferencesHold, PersistOutput, TypeOK, RunsFit
<1>9. FinalizeFits'
  BY Bounds DEF RInv, ReferencesHold, PersistOutput, Touch, TypeOK, FinalizeFits, Closed,
     Existing, Terminal, Proposed, Called, RunsFit, PurgedFits
<1>10. LiveRunKeepsItsContent'
  BY DEF RInv, ReferencesHold, PersistOutput, TypeOK, LiveRunKeepsItsContent, Existing,
     Terminal, RunsFit, PurgedFits, MessageHead
<1>11. DeletedIsEmpty'
  BY Bounds DEF RInv, ReferencesHold, PersistOutput, AddEvents, Counted, AddInbox, TypeOK,
     DeletedIsEmpty, Existing, Terminal, Proposed, Called, Attached, Unpurged, MessageHead,
     RunsFit, PurgedFits
<1> QED
  BY <1>1, <1>2, <1>3, <1>4, <1>5, <1>6, <1>7, <1>8, <1>9, <1>10, <1>11 DEF RInv, ReferencesHold

\* A run is taken again, or left to an operator.
LEMMA ReclaimKeeps ==
  ASSUME RInv, NEW r \in Runs, Reclaim(r), UNCHANGED host
  PROVE  RInv'
<1>0. /\ run[r].state = "live" /\ run'[r].state \in {"live", "recovery"}
      /\ run'[r].latest = run[r].latest /\ run'[r].at = run[r].at /\ run'[r].gen > 0
      /\ \A q \in Runs \ {r} : run'[q] = run[q]
  <2>1. MaxGeneration \in Nat
    BY Bounds
  <2>2. run \in [Runs -> RunRow] /\ run[r] \in RunRow /\ run[r].gen \in 0 .. MaxGeneration
    BY Types DEF RInv, ReferencesHold, RunRow
  <2>3. run[r].gen \in Nat /\ run[r].gen > 0
    BY <2>1, <2>2 DEF Reclaim, RInv, RunsFit
  <2>4. CASE run' = [run EXCEPT ![r] = [run[r] EXCEPT !.gen = run[r].gen + 1]]
    BY <2>2, <2>3, <2>4 DEF Reclaim, RunRow
  <2>5. CASE run' = [run EXCEPT ![r] = [run[r] EXCEPT !.state = "recovery"]]
    BY <2>2, <2>3, <2>5 DEF Reclaim, RunRow
  <2> QED BY <2>4, <2>5 DEF Reclaim
<1>1. TypeOK'
  <2>1. TypeOK /\ run[r] \in RunRow /\ run[r].gen \in 0 .. MaxGeneration
    BY Types DEF RInv, ReferencesHold, RunRow
  <2>2. run' \in [Runs -> RunRow]
    <3>1. [run[r] EXCEPT !.state = "recovery"] \in RunRow
      BY ZenonT(30), <2>1, Generations, RunRows
    <3>2. ASSUME run[r].gen < MaxGeneration
          PROVE  [run[r] EXCEPT !.gen = run[r].gen + 1] \in RunRow
      <4>1. MaxGeneration \in Nat
        BY Bounds
      <4>2. run[r].gen \in Nat
        BY <2>1, <4>1
      <4>3. run[r].gen + 1 \in 0 .. MaxGeneration
        BY <4>1, <4>2, <3>2
      <4> QED BY <2>1, <4>3, RunRows
    <3>3. \/ /\ run' = [run EXCEPT ![r] = [run[r] EXCEPT !.gen = run[r].gen + 1]]
             /\ run[r].gen < MaxGeneration
          \/ run' = [run EXCEPT ![r] = [run[r] EXCEPT !.state = "recovery"]]
      BY DEF Reclaim
    <3> QED BY SMTT(30), <2>1, <3>1, <3>2, <3>3, Types
  <2> QED
    BY <2>1, <2>2, Types, TypesKept DEF Reclaim
<1>2. /\ SummaryCoversNoPurged' /\ PurgedMessageIsDetached' /\ PreparedFits' /\ FilesFit'
      /\ PurgedFits'
  BY Untouched DEF RInv, ReferencesHold, Reclaim
<1>3. PointerNamesACheckpoint'
  <2>1. ckpt' = ckpt /\ PointerNamesACheckpoint
    BY DEF Reclaim, RInv, ReferencesHold
  <2> QED BY <1>0, <2>1 DEF PointerNamesACheckpoint, Latest
<1>4. RunsFit'
  <2>1. message' = message /\ call' = call /\ proposal' = proposal /\ RunsFit
    BY DEF Reclaim, RInv
  <2> QED BY <1>0, <2>1 DEF RunsFit
<1>5. FinalizeFits'
  BY DEF RInv, ReferencesHold, Reclaim, TypeOK, FinalizeFits, Closed, Existing, Terminal,
     Proposed, Called, RunsFit, PurgedFits
<1>6. LiveRunKeepsItsContent'
  <2>1. message' = message /\ call' = call /\ proposal' = proposal /\ LiveRunKeepsItsContent
    BY DEF Reclaim, RInv
  <2> QED
    BY <1>0, <2>1 DEF LiveRunKeepsItsContent, Existing, Terminal, MessageHead
<1>7. DeletedIsEmpty'
  BY SMTT(30) DEF RInv, ReferencesHold, Reclaim, TypeOK, DeletedIsEmpty, Existing, Terminal,
     Proposed, Called, Attached, Unpurged, MessageHead, RunsFit, PurgedFits
<1> QED
  BY <1>1, <1>2, <1>3, <1>4, <1>5, <1>6, <1>7 DEF RInv, ReferencesHold

\* A run ends.
LEMMA EndRunKeeps ==
  ASSUME RInv, NEW r \in Runs, EndRun(r), UNCHANGED host
  PROVE  RInv'
<1>1. TypeOK'
  <2>1. TypeOK /\ run[r] \in RunRow
    BY Types DEF RInv, ReferencesHold
  <2>2. [run[r] EXCEPT !.state = "ended"] \in RunRow
    BY <2>1, Generations, RunRows
  <2> QED
    BY SMTT(30), <2>1, <2>2, Types, TypesKept DEF EndRun
<1>2. /\ SummaryCoversNoPurged' /\ PurgedMessageIsDetached' /\ PreparedFits' /\ FilesFit'
      /\ PurgedFits'
  BY Untouched DEF RInv, ReferencesHold, EndRun
<1>3. PointerNamesACheckpoint'
  <2>1. /\ ckpt' = ckpt /\ PointerNamesACheckpoint
        /\ \A q \in Runs : run'[q].latest = run[q].latest /\ run'[q].at = run[q].at
    BY Types DEF EndRun, RInv, ReferencesHold, RunRow
  <2> QED BY <2>1 DEF PointerNamesACheckpoint, Latest
<1>4. RunsFit'
  BY DEF RInv, ReferencesHold, EndRun, TypeOK, RunsFit
<1>5. FinalizeFits'
  BY DEF RInv, ReferencesHold, EndRun, TypeOK, FinalizeFits, Closed, Existing, Terminal,
     Proposed, Called, RunsFit, PurgedFits
<1>6. LiveRunKeepsItsContent'
  BY DEF RInv, ReferencesHold, EndRun, TypeOK, LiveRunKeepsItsContent, Existing, Terminal,
     RunsFit, PurgedFits, MessageHead
<1>7. DeletedIsEmpty'
  BY DEF RInv, ReferencesHold, EndRun, TypeOK, DeletedIsEmpty, Existing, Terminal, Proposed,
     Called, Attached, Unpurged, MessageHead, RunsFit, PurgedFits
<1> QED
  BY <1>1, <1>2, <1>3, <1>4, <1>5, <1>6, <1>7 DEF RInv, ReferencesHold

\* A proposal of a session that is not being deleted.
LEMMA ProposeKeeps ==
  ASSUME RInv, NEW r \in Runs, Propose(r), UNCHANGED host
  PROVE  RInv'
<1>0. /\ proposal' \in [Runs -> ProposalRow]
      /\ \A q \in Runs \ {r} : proposal'[q] = proposal[q]
      /\ run[r].state # "none" /\ session.state \in {"active", "archived"}
      /\ proposal'[r].state # "none" /\ ~proposal'[r].purged /\ ~proposal[r].purged
  <2>1. proposal \in [Runs -> ProposalRow] /\ proposal[r].state \in {"none", "pending"}
    BY Types DEF Propose, RInv, ReferencesHold
  <2>2. ~proposal[r].purged /\ run[r].state # "none"
    BY <2>1 DEF Propose, RInv, PurgedFits, RunsFit
  <2>3. PICK s \in {"pending", "accepted", "rejected"} :
          proposal' = [proposal EXCEPT ![r].state = s]
    BY DEF Propose
  <2>4. proposal[r] \in ProposalRow /\ s \in ProposalState
    BY <2>1, <2>3 DEF ProposalState
  <2>5. [proposal[r] EXCEPT !.state = s] \in ProposalRow
    BY <2>4 DEF ProposalRow
  <2> QED
    BY <2>1, <2>2, <2>3, <2>4, <2>5 DEF ProposalRow, Propose
<1>1. TypeOK'
  <2>1. TypeOK /\ AddEvents(0, 1) /\ Touch
    BY DEF Propose, RInv, ReferencesHold
  <2>2. event' \in EventRow /\ pass' \in [Workers -> PassRow]
    BY <2>1, EventsAdded, Touched
  <2> QED
    BY <1>0, <2>1, <2>2, Types, TypesKept DEF Propose
<1>2. /\ SummaryCoversNoPurged' /\ PointerNamesACheckpoint' /\ PurgedMessageIsDetached'
      /\ PreparedFits' /\ FilesFit'
  BY Untouched DEF RInv, ReferencesHold, Propose
<1>3. RunsFit'
  <2>1. message' = message /\ call' = call /\ run' = run /\ RunsFit
    BY DEF Propose, RInv
  <2> QED BY <1>0, <2>1 DEF RunsFit
<1>4. PurgedFits'
  <2>1. call' = call /\ PurgedFits
    BY DEF Propose, RInv
  <2> QED BY <1>0, <2>1 DEF PurgedFits
<1>5. FinalizeFits'
  <2>1. session' = session /\ FinalizeFits /\ \A w \in Workers : pass'[w].at = pass[w].at
    BY Touched DEF Propose, RInv, ReferencesHold
  <2> QED BY <1>0, <2>1 DEF FinalizeFits, Closed
<1>6. LiveRunKeepsItsContent'
  <2>1. message' = message /\ call' = call /\ run' = run /\ LiveRunKeepsItsContent
    BY DEF Propose, RInv
  <2> QED
    BY <1>0, <2>1 DEF LiveRunKeepsItsContent, Existing, Terminal, MessageHead
<1>7. DeletedIsEmpty'
  <2>1. session' = session
    BY DEF Propose
  <2> QED BY <1>0, <2>1 DEF DeletedIsEmpty
<1> QED
  BY <1>1, <1>2, <1>3, <1>4, <1>5, <1>6, <1>7 DEF RInv, ReferencesHold

\* An outcome is about to be recorded.
LEMMA CheckOutcomeKeeps ==
  ASSUME RInv, NEW r \in Runs, CheckOutcome(r), UNCHANGED host
  PROVE  RInv'
<1>1. TypeOK'
  BY Types, TypesKept DEF RInv, ReferencesHold, CheckOutcome, tables
<1>2. /\ SummaryCoversNoPurged' /\ PointerNamesACheckpoint' /\ PurgedMessageIsDetached'
      /\ PreparedFits' /\ FilesFit' /\ RunsFit' /\ PurgedFits' /\ FinalizeFits'
      /\ LiveRunKeepsItsContent' /\ DeletedIsEmpty'
  BY Untouched DEF RInv, ReferencesHold, CheckOutcome, tables
<1> QED
  BY <1>1, <1>2 DEF RInv, ReferencesHold

\* An outcome is recorded of an accepted proposal, which nothing has purged.
LEMMA RecordOutcomeKeeps ==
  ASSUME RInv, NEW r \in Runs, RecordOutcome(r), UNCHANGED host
  PROVE  RInv'
<1>0. /\ TypeOK /\ proposal' \in [Runs -> ProposalRow]
      /\ event' \in EventRow /\ pass' \in [Workers -> PassRow]
      /\ \A w \in Workers : pass'[w].at = pass[w].at
      /\ \A q \in Runs : /\ proposal'[q].purged = proposal[q].purged
                         /\ proposal'[q].state = "none" <=> proposal[q].state = "none"
                         /\ \/ proposal'[q] = proposal[q]
                            \/ proposal[q].state = "accepted"
  <2>1. TypeOK /\ proposal \in [Runs -> ProposalRow] /\ proposal[r] \in ProposalRow
    BY Types DEF RInv, ReferencesHold
  <2>2. CASE proposal[r].state = "accepted"
    <3>1. /\ AddEvents(0, 1) /\ Touch
          /\ proposal' = [proposal EXCEPT ![r].state = "applied"]
      BY SMTT(30), <2>2 DEF RecordOutcome
    <3>2. [proposal[r] EXCEPT !.state = "applied"] \in ProposalRow
      BY <2>1, ProposalRows DEF ProposalState
    <3>3. event' \in EventRow /\ pass' \in [Workers -> PassRow]
          /\ \A w \in Workers : pass'[w].at = pass[w].at
      BY <2>1, <3>1, EventsAdded, Touched
    <3>4. /\ proposal' \in [Runs -> ProposalRow]
          /\ \A q \in Runs \ {r} : proposal'[q] = proposal[q]
      BY <2>1, <3>1, <3>2
    <3>5. proposal'[r].state = "applied" /\ proposal'[r].purged = proposal[r].purged
      BY <2>1, <3>1 DEF ProposalRow
    <3> QED BY <2>1, <2>2, <3>3, <3>4, <3>5
  <2>3. CASE proposal[r].state # "accepted"
    BY <2>1, <2>3, Types DEF RecordOutcome
  <2> QED BY <2>2, <2>3
<1>1. TypeOK'
  BY <1>0, Types, TypesKept DEF RecordOutcome
<1>2. /\ SummaryCoversNoPurged' /\ PointerNamesACheckpoint' /\ PurgedMessageIsDetached'
      /\ PreparedFits' /\ FilesFit'
  BY Untouched DEF RInv, ReferencesHold, RecordOutcome
<1>3. RunsFit'
  <2>1. message' = message /\ call' = call /\ run' = run /\ RunsFit
    BY DEF RecordOutcome, RInv
  <2> QED BY <1>0, <2>1 DEF RunsFit
<1>4. PurgedFits'
  <2>1. call' = call /\ PurgedFits
    BY DEF RecordOutcome, RInv
  <2>2. \A q \in Runs : proposal[q].purged => proposal'[q] = proposal[q]
    BY <1>0, <2>1 DEF PurgedFits
  <2> QED BY <1>0, <2>1, <2>2 DEF PurgedFits
<1>5. FinalizeFits'
  <2>1. /\ session' = session /\ call' = call /\ run' = run /\ FinalizeFits
        /\ RunsFit /\ PurgedFits
    BY DEF RecordOutcome, RInv
  <2>2. Closed => Closed'
    BY <1>0, <2>1 DEF Closed, Existing, Terminal, Proposed, Called
  <2> QED BY <1>0, <2>1, <2>2 DEF FinalizeFits
<1>6. LiveRunKeepsItsContent'
  <2>1. message' = message /\ call' = call /\ run' = run /\ LiveRunKeepsItsContent
    BY DEF RecordOutcome, RInv
  <2> QED
    BY <1>0, <2>1 DEF LiveRunKeepsItsContent, Existing, Terminal, MessageHead
<1>7. DeletedIsEmpty'
  <2>1. /\ session' = session /\ inbox' = inbox /\ context' = context /\ ckpt' = ckpt
        /\ message' = message /\ file' = file /\ run' = run /\ call' = call
        /\ DeletedIsEmpty /\ PurgedFits /\ r \in Runs
    BY DEF RecordOutcome, RInv
  <2>2. CASE proposal[r].state = "accepted"
    <3>1. session.state # "deleted"
      BY <2>1, <2>2 DEF DeletedIsEmpty, PurgedFits, Proposed
    <3> QED BY <2>1, <3>1 DEF DeletedIsEmpty
  <2>3. CASE proposal[r].state # "accepted"
    <3>1. event' = event /\ proposal' = proposal
      BY <2>3 DEF RecordOutcome
    <3> QED
      BY <2>1, <3>1 DEF DeletedIsEmpty, Existing, Terminal, Proposed, Called, Attached,
         Unpurged, MessageHead
  <2> QED BY <2>2, <2>3
<1> QED
  BY <1>1, <1>2, <1>3, <1>4, <1>5, <1>6, <1>7 DEF RInv, ReferencesHold

\* A summary is begun.
LEMMA PrepareCompactionKeeps ==
  ASSUME RInv, PrepareCompaction, UNCHANGED host
  PROVE  RInv'
<1>1. TypeOK'
  <2>1. TypeOK
    BY DEF RInv, ReferencesHold
  <2>2. PICK through \in 1 .. Len(message) :
          prepared' = [through |-> through, parent |-> Parent]
    BY DEF PrepareCompaction, MessageHead
  <2>3. Parent \in Nat /\ through \in Nat
    BY <2>1, ParentIsThere, Types
  <2>4. [through |-> through, parent |-> Parent] \in [through : Nat, parent : Nat]
    BY <2>3
  <2> QED
    BY <2>1, <2>2, <2>4, Types, TypesKept DEF PrepareCompaction, tables
<1>2. /\ SummaryCoversNoPurged' /\ PointerNamesACheckpoint' /\ PurgedMessageIsDetached'
      /\ FilesFit' /\ RunsFit' /\ PurgedFits' /\ FinalizeFits'
      /\ LiveRunKeepsItsContent' /\ DeletedIsEmpty'
  BY Untouched DEF RInv, ReferencesHold, PrepareCompaction, tables
<1>3. PreparedFits'
  BY DEF PrepareCompaction, PreparedFits, MessageHead, tables
<1> QED
  BY <1>1, <1>2, <1>3 DEF RInv, ReferencesHold

\* A summary is safe below its parent, and the rest was read again.
LEMMA PersistCompactionKeeps ==
  ASSUME RInv, PersistCompaction, UNCHANGED host
  PROVE  RInv'
<1>0. \/ context' = context
      \/ /\ session.state = "active" /\ context' = context \cup {prepared.through}
         /\ prepared.through \in 1 .. Len(message)
         /\ 1 .. prepared.through \subseteq Unpurged
  <2>1. TypeOK /\ SummaryCoversNoPurged /\ prepared.through \in 1 .. Len(message)
        /\ Len(message) \in Nat
    BY Types DEF PersistCompaction, RInv, ReferencesHold, PreparedFits
  <2>2. CASE context' # context
    <3>1. /\ context' = context \cup {prepared.through} /\ session.state = "active"
          /\ (Parent + 1) .. prepared.through \subseteq Unpurged
      BY <2>2 DEF PersistCompaction, SourcesUnchanged, CoveredFrom
    <3>2. Parent \in context \cup {0} /\ Parent \in Nat
      BY <2>1, ParentIsThere
    <3>3. 1 .. Parent \subseteq Unpurged
      BY <2>1, <3>2 DEF SummaryCoversNoPurged
    <3>4. 1 .. prepared.through \subseteq Unpurged
      BY <2>1, <3>1, <3>2, <3>3
    <3> QED BY <2>1, <3>1, <3>4
  <2> QED BY <2>2
<1>1. TypeOK'
  <2>1. TypeOK
    BY DEF RInv, ReferencesHold
  <2>2. context' \subseteq 1 .. Len(message)
    BY <1>0, <2>1, Types
  <2> QED
    BY <2>1, <2>2, Types, TypesKept DEF PersistCompaction
<1>2. /\ PointerNamesACheckpoint' /\ PurgedMessageIsDetached' /\ FilesFit' /\ RunsFit'
      /\ PurgedFits' /\ FinalizeFits' /\ LiveRunKeepsItsContent'
  BY Untouched DEF RInv, ReferencesHold, PersistCompaction
<1>3. SummaryCoversNoPurged'
  <2>1. SummaryCoversNoPurged /\ message' = message /\ Unpurged' = Unpurged
    BY DEF RInv, ReferencesHold, PersistCompaction, Unpurged, MessageHead
  <2> QED BY <1>0, <2>1 DEF SummaryCoversNoPurged
<1>4. PreparedFits'
  BY DEF RInv, ReferencesHold, PersistCompaction, TypeOK, PreparedFits
<1>5. DeletedIsEmpty'
  <2>1. /\ DeletedIsEmpty /\ session' = session /\ event' = event /\ inbox' = inbox
        /\ ckpt' = ckpt /\ message' = message /\ file' = file /\ run' = run
        /\ proposal' = proposal /\ call' = call
    BY DEF RInv, PersistCompaction
  <2>2. session.state = "deleted" => context' = context
    BY <1>0
  <2> QED
    BY <2>1, <2>2 DEF DeletedIsEmpty, Existing, Terminal, Proposed, Called, Attached,
       Unpurged, MessageHead
<1> QED
  BY <1>1, <1>2, <1>3, <1>4, <1>5 DEF RInv, ReferencesHold

\* A file goes; its row stays.
LEMMA CleanUpKeeps ==
  ASSUME RInv, NEW f \in Media, CleanUp(f), UNCHANGED host
  PROVE  RInv'
<1>0. /\ TypeOK /\ file' \in [Media -> FileRow]
      /\ \A g \in Media : /\ file'[g].message = file[g].message
                          /\ file'[g].state # "none" <=> file[g].state # "none"
  <2>1. TypeOK /\ file \in [Media -> FileRow] /\ file[f] \in FileRow /\ "clean" \in FileState
    BY Types DEF RInv, ReferencesHold, FileState
  <2>2. /\ [file[f] EXCEPT !.artifact = "clean"] \in FileRow
        /\ [file[f] EXCEPT !.state = "clean"] \in FileRow
    BY <2>1, FileRows
  <2>3. /\ file' = [file EXCEPT ![f] = [file[f] EXCEPT !.artifact = "clean"]] \/
           /\ file' = [file EXCEPT ![f] = [file[f] EXCEPT !.state = "clean"]]
           /\ file[f].state = "requested"
    BY DEF CleanUp
  <2>4. file' \in [Media -> FileRow] /\ \A g \in Media \ {f} : file'[g] = file[g]
    BY <2>1, <2>2, <2>3
  <2>5. file'[f].message = file[f].message /\ (file'[f].state # "none" <=> file[f].state # "none")
    BY <2>1, <2>3 DEF FileRow
  <2> QED BY <2>1, <2>4, <2>5
<1>1. TypeOK'
  BY <1>0, Types, TypesKept DEF CleanUp
<1>2. /\ SummaryCoversNoPurged' /\ PointerNamesACheckpoint' /\ PreparedFits' /\ RunsFit'
      /\ PurgedFits' /\ FinalizeFits' /\ LiveRunKeepsItsContent'
  BY Untouched DEF RInv, ReferencesHold, CleanUp
<1>3. PurgedMessageIsDetached'
  <2>1. message' = message /\ PurgedMessageIsDetached
    BY DEF CleanUp, RInv, ReferencesHold
  <2> QED BY <1>0, <2>1 DEF PurgedMessageIsDetached, Attached
<1>4. FilesFit'
  <2>1. message' = message /\ FilesFit
    BY DEF CleanUp, RInv
  <2> QED BY <1>0, <2>1 DEF FilesFit, Attached
<1>5. DeletedIsEmpty'
  BY DEF RInv, ReferencesHold, CleanUp, TypeOK, DeletedIsEmpty, Existing, Terminal,
     Proposed, Called, Attached, Unpurged, MessageHead, RunsFit, PurgedFits
<1> QED
  BY <1>1, <1>2, <1>3, <1>4, <1>5 DEF RInv, ReferencesHold

\* A worker reads its candidate.
LEMMA ScanKeeps ==
  ASSUME RInv, NEW w \in Workers, Scan(w), UNCHANGED host
  PROVE  RInv'
<1>1. TypeOK'
  <2>1. TypeOK /\ pass \in [Workers -> PassRow]
    BY Types DEF RInv, ReferencesHold
  <2>2. [at |-> "scanned", fresh |-> TRUE] \in PassRow
    BY DEF PassRow
  <2>3. pass' \in [Workers -> PassRow]
    BY <2>1, <2>2 DEF Scan
  <2> QED
    BY <2>1, <2>3, Types, TypesKept DEF Scan, tables
<1>2. /\ SummaryCoversNoPurged' /\ PointerNamesACheckpoint' /\ PurgedMessageIsDetached'
      /\ PreparedFits' /\ FilesFit' /\ RunsFit' /\ PurgedFits'
      /\ LiveRunKeepsItsContent' /\ DeletedIsEmpty'
  BY Untouched DEF RInv, ReferencesHold, Scan, tables
<1>3. FinalizeFits'
  BY Bounds DEF RInv, ReferencesHold, Scan, tables, At, TypeOK, FinalizeFits, Closed,
     Existing, Terminal, Proposed, Called, RunsFit, PurgedFits
<1> QED
  BY <1>1, <1>2, <1>3 DEF RInv, ReferencesHold

\* A pass that writes nothing.
LEMMA PruneNothingKeeps ==
  ASSUME RInv, NEW w \in Workers, PruneNothing(w), UNCHANGED host
  PROVE  RInv'
<1>1. TypeOK'
  <2>1. TypeOK /\ Go(w, "idle")
    BY DEF RInv, ReferencesHold, PruneNothing
  <2> QED
    BY <2>1, Gone, Types, TypesKept DEF PruneNothing, tables
<1>2. /\ SummaryCoversNoPurged' /\ PointerNamesACheckpoint' /\ PurgedMessageIsDetached'
      /\ PreparedFits' /\ FilesFit' /\ RunsFit' /\ PurgedFits'
      /\ LiveRunKeepsItsContent' /\ DeletedIsEmpty'
  BY Untouched DEF RInv, ReferencesHold, PruneNothing, tables
<1>3. FinalizeFits'
  BY Bounds DEF RInv, ReferencesHold, PruneNothing, tables, At, Go, TypeOK, FinalizeFits,
     Closed, Existing, Terminal, Proposed, Called, RunsFit, PurgedFits
<1> QED
  BY <1>1, <1>2, <1>3 DEF RInv, ReferencesHold

\* Checkpoints are purged once nothing names them; that is when the session is closed.
LEMMA PurgeRunCheckpointsKeeps ==
  ASSUME RInv, NEW w \in Workers, PurgeRunCheckpoints(w), UNCHANGED host
  PROVE  RInv'
<1>0. /\ TypeOK /\ ckpt' \subseteq ckpt
      /\ ckpt' # ckpt => SourcesAreExhausted
      /\ \A v \in Workers : pass'[v].at = "finalize" => pass[v].at = "finalize" \/ SourcesAreExhausted
      /\ pass' \in [Workers -> PassRow]
  <2>1. TypeOK
    BY DEF RInv, ReferencesHold
  <2>2. CASE ckpt' = ckpt /\ Go(w, "idle")
    BY <2>1, <2>2, Gone
  <2>3. CASE SourcesAreExhausted /\ Go(w, "finalize")
    <3>1. ckpt' \subseteq ckpt
      BY DEF PurgeRunCheckpoints
    <3>2. pass' \in [Workers -> PassRow]
      BY <2>1, <2>3, Gone
    <3> QED BY <2>1, <2>3, <3>1, <3>2
  <2> QED BY <2>2, <2>3 DEF PurgeRunCheckpoints
<1>1. TypeOK'
  <2>1. ckpt' \subseteq Checkpoint
    BY <1>0, Types
  <2> QED BY <1>0, <2>1, Types, TypesKept DEF PurgeRunCheckpoints
<1>2. /\ SummaryCoversNoPurged' /\ PurgedMessageIsDetached' /\ PreparedFits' /\ FilesFit'
      /\ RunsFit' /\ PurgedFits' /\ LiveRunKeepsItsContent'
  BY Untouched DEF RInv, ReferencesHold, PurgeRunCheckpoints
<1>3. PointerNamesACheckpoint'
  <2>1. run' = run /\ PointerNamesACheckpoint /\ RunsFit
    BY DEF PurgeRunCheckpoints, RInv, ReferencesHold
  <2>2. CASE ckpt' = ckpt
    BY <2>1, <2>2 DEF PointerNamesACheckpoint, Latest
  <2>3. CASE SourcesAreExhausted
    <3>1. \A r \in Runs : run[r].latest = None
      BY <2>1, <2>3 DEF SourcesAreExhausted, CallsAreTombstoned, Existing, RunsFit
    <3> QED BY <2>1, <3>1 DEF PointerNamesACheckpoint
  <2> QED BY <1>0, <2>2, <2>3
<1>4. FinalizeFits'
  <2>1. /\ run' = run /\ proposal' = proposal /\ call' = call /\ session' = session
        /\ FinalizeFits
    BY DEF PurgeRunCheckpoints, RInv
  <2>2. Closed' = Closed
    BY <2>1 DEF Closed, Existing, Terminal, Proposed, Called
  <2>3. SourcesAreExhausted => Closed
    BY DEF SourcesAreExhausted, Closed, CutoffReached, CallsAreTombstoned, RunsAreClosed
  <2> QED BY <1>0, <2>1, <2>2, <2>3 DEF FinalizeFits
<1>5. DeletedIsEmpty'
  <2>1. /\ DeletedIsEmpty /\ session' = session /\ event' = event /\ inbox' = inbox
        /\ context' = context /\ message' = message /\ file' = file /\ run' = run
        /\ proposal' = proposal /\ call' = call
    BY DEF RInv, PurgeRunCheckpoints
  <2> QED
    BY <1>0, <2>1 DEF DeletedIsEmpty, Existing, Terminal, Proposed, Called, Attached,
       Unpurged, MessageHead
<1> QED
  BY <1>1, <1>2, <1>3, <1>4, <1>5 DEF RInv, ReferencesHold

\* A checkpoint that has expired is named by no run.
LEMMA PurgeExpiredKeeps ==
  ASSUME RInv, NEW w \in Workers, PurgeExpired(w), UNCHANGED host
  PROVE  RInv'
<1>0. /\ TypeOK /\ ckpt' \subseteq ckpt /\ pass' \in [Workers -> PassRow]
      /\ \A c \in ckpt \ ckpt' : c \notin Latest(c.run)
  <2>1. TypeOK /\ Go(w, "idle")
    BY DEF RInv, ReferencesHold, PurgeExpired
  <2>2. pass' \in [Workers -> PassRow]
    BY <2>1, Gone
  <2>3. CASE ckpt' = ckpt
    BY <2>1, <2>2, <2>3
  <2>4. CASE ckpt' # ckpt
    <3>1. PICK page \in Pages(ExpiredCkpts) : ckpt' = ckpt \ page
      BY <2>4 DEF PurgeExpired
    <3>2. page \subseteq ExpiredCkpts
      BY <3>1 DEF Pages
    <3> QED BY <2>1, <2>2, <3>1, <3>2 DEF ExpiredCkpts
  <2> QED BY <2>3, <2>4
<1>1. TypeOK'
  <2>1. ckpt' \subseteq Checkpoint
    BY <1>0, Types
  <2> QED BY <1>0, <2>1, Types, TypesKept DEF PurgeExpired
<1>2. /\ SummaryCoversNoPurged' /\ PurgedMessageIsDetached' /\ PreparedFits' /\ FilesFit'
      /\ RunsFit' /\ PurgedFits' /\ LiveRunKeepsItsContent'
  BY Untouched DEF RInv, ReferencesHold, PurgeExpired
<1>3. PointerNamesACheckpoint'
  <2>1. run' = run /\ PointerNamesACheckpoint
    BY DEF PurgeExpired, RInv, ReferencesHold
  <2> QED BY <1>0, <2>1 DEF PointerNamesACheckpoint, Latest
<1>4. FinalizeFits'
  BY Bounds DEF RInv, ReferencesHold, PurgeExpired, At, Go, TypeOK, FinalizeFits, Closed,
     Existing, Terminal, Proposed, Called, RunsFit, PurgedFits
<1>5. DeletedIsEmpty'
  <2>1. /\ DeletedIsEmpty /\ session' = session /\ event' = event /\ inbox' = inbox
        /\ context' = context /\ message' = message /\ file' = file /\ run' = run
        /\ proposal' = proposal /\ call' = call
    BY DEF RInv, PurgeExpired
  <2> QED
    BY <1>0, <2>1 DEF DeletedIsEmpty, Existing, Terminal, Proposed, Called, Attached,
       Unpurged, MessageHead
<1> QED
  BY <1>1, <1>2, <1>3, <1>4, <1>5 DEF RInv, ReferencesHold

\* The shell is empty, and was closed before.
LEMMA FinalizeKeeps ==
  ASSUME RInv, NEW w \in Workers, Finalize(w), UNCHANGED host
  PROVE  RInv'
<1>0. /\ TypeOK /\ session' \in SessionRow
      /\ session' = session \/ session'.state = "deleted"
      /\ session' # session => ShellIsEmpty /\ Closed
      /\ pass' \in [Workers -> PassRow]
      /\ \A v \in Workers : pass'[v].at = "finalize" => pass[v].at = "finalize"
  <2>1. TypeOK /\ session \in SessionRow /\ pass \in [Workers -> PassRow]
    BY Types DEF RInv, ReferencesHold
  <2>2. Closed
    BY DEF RInv, FinalizeFits, Finalize, At
  <2>3. CASE ShellIsEmpty
    <3>1. session' = [session EXCEPT !.state = "deleted"]
          /\ pass' = [v \in Workers |->
               [at |-> IF v = w THEN "idle" ELSE pass[v].at, fresh |-> FALSE]]
      BY <2>3 DEF Finalize
    <3>2. session' \in SessionRow /\ session'.state = "deleted"
      BY <2>1, <3>1 DEF SessionRow, SessionState
    <3>3. pass' \in [Workers -> PassRow]
          /\ \A v \in Workers : pass'[v].at = "finalize" => pass[v].at = "finalize"
      BY <2>1, <3>1 DEF PassRow
    <3> QED BY <2>1, <2>2, <2>3, <3>2, <3>3
  <2>4. CASE ~ShellIsEmpty
    <3>1. session' = session /\ Go(w, "idle")
      BY <2>4 DEF Finalize
    <3> QED BY <2>1, <3>1, Gone
  <2> QED BY <2>3, <2>4
<1>1. TypeOK'
  BY <1>0, Types, TypesKept DEF Finalize, tables
<1>2. /\ SummaryCoversNoPurged' /\ PointerNamesACheckpoint' /\ PurgedMessageIsDetached'
      /\ PreparedFits' /\ FilesFit' /\ RunsFit' /\ PurgedFits'
      /\ LiveRunKeepsItsContent'
  BY Untouched DEF RInv, ReferencesHold, Finalize, tables
<1>3. FinalizeFits'
  <2>1. /\ FinalizeFits /\ run' = run /\ proposal' = proposal /\ call' = call
    BY DEF RInv, Finalize, tables
  <2>2. Closed => Closed'
    BY <1>0, <2>1 DEF Closed, Existing, Terminal, Proposed, Called
  <2> QED BY <1>0, <2>1, <2>2 DEF FinalizeFits
<1>4. DeletedIsEmpty'
  <2>1. /\ DeletedIsEmpty /\ event' = event /\ inbox' = inbox /\ ckpt' = ckpt
        /\ context' = context /\ message' = message /\ file' = file /\ run' = run
        /\ proposal' = proposal /\ call' = call
    BY DEF RInv, Finalize, tables
  <2>2. CASE session' = session
    BY <2>1, <2>2 DEF DeletedIsEmpty, Existing, Terminal, Proposed, Called, Attached,
       Unpurged, MessageHead
  <2>3. CASE ShellIsEmpty /\ Closed
    BY <2>1, <2>3 DEF DeletedIsEmpty, Existing, Terminal, Proposed, Called, Attached,
       Unpurged, MessageHead, ShellIsEmpty, Closed, RunsAreDetached
  <2> QED BY <1>0, <2>2, <2>3
<1> QED
  BY <1>1, <1>2, <1>3, <1>4 DEF RInv, ReferencesHold

\* A pass that stops.
LEMMA CrashKeeps ==
  ASSUME RInv, NEW w \in Workers, Crash(w), UNCHANGED host
  PROVE  RInv'
<1>1. TypeOK'
  <2>1. TypeOK /\ Go(w, "idle")
    BY DEF RInv, ReferencesHold, Crash
  <2> QED
    BY <2>1, Gone, Types, TypesKept DEF Crash, tables
<1>2. /\ SummaryCoversNoPurged' /\ PointerNamesACheckpoint' /\ PurgedMessageIsDetached'
      /\ PreparedFits' /\ FilesFit' /\ RunsFit' /\ PurgedFits'
      /\ LiveRunKeepsItsContent' /\ DeletedIsEmpty'
  BY Untouched DEF RInv, ReferencesHold, Crash, tables
<1>3. FinalizeFits'
  BY Bounds DEF RInv, ReferencesHold, Crash, tables, Go, TypeOK, FinalizeFits, Closed,
     Existing, Terminal, Proposed, Called, RunsFit, PurgedFits
<1> QED
  BY <1>1, <1>2, <1>3 DEF RInv, ReferencesHold


-----------------------------------------------------------------------------
(* What prune_session takes. *)

\* The pages of events and of inbox payloads are there to be taken.
LEMMA PagesFit ==
  ASSUME TypeOK
  PROVE  /\ DeltaPage \in 0 .. event.delta /\ OtherPage \in 0 .. event.other
         /\ InboxPage \in 0 .. inbox
<1>1. /\ event.delta \in Nat /\ event.other \in Nat /\ inbox \in Nat
      /\ Limit["event"] \in Nat /\ Limit["inbox"] \in Nat
  BY Bounds, Types DEF EventRow, Tables
<1>2. DeltaPage \in 0 .. event.delta /\ OtherPage \in 0 .. event.other
  BY <1>1 DEF DeltaPage, OtherPage, Bounded
<1>3. InboxPage \in 0 .. inbox
  BY <1>1 DEF InboxPage, Bounded
<1> QED BY <1>2, <1>3

\* Proposals are purged together, decided ones of ended runs.
LEMMA ProposalsFit ==
  ASSUME NEW r \in ProposalPage
  PROVE  r \in Runs /\ proposal[r].state # "none" /\ Terminal(r) /\ ProposalIsTerminal(r)
BY DEF ProposalPage, ProposalBlocked, ProposalPhase, Proposed

\* So are tool calls: closed ones of ended runs.
LEMMA ToolCallsFit ==
  ASSUME RunsFit, NEW r \in ToolPage
  PROVE  r \in Runs /\ call[r].state = "closed" /\ Terminal(r)
<1>1. ~ToolBlocked
  BY DEF ToolPage
<1>2. CASE ToolMode = "deleting"
  <2>1. r \in Called /\ r \in Existing
    BY <1>2 DEF ToolPage, Called, RunsFit, Existing
  <2> QED BY <1>1, <1>2, <2>1 DEF ToolBlocked, Called
<1>3. CASE ToolMode = "expired"
  BY <1>3 DEF ToolPage, ExpiredCalls, Called
<1>4. CASE ToolMode \notin {"deleting", "expired"}
  BY <1>4 DEF ToolPage
<1> QED BY <1>2, <1>3, <1>4

\* A file that is left names the message it named.
LEMMA FilesAreKept ==
  ASSUME TypeOK
  PROVE  /\ FilesAfter \in [Media -> FileRow]
         /\ \A f \in Media : FilesAfter[f].state # "none" =>
              file[f].state # "none" /\ FilesAfter[f].message = file[f].message
<1>1. file \in [Media -> FileRow]
  BY Types
<1>2. \A f \in Media : /\ NextFile(f) \in FileRow
                       /\ NextFile(f).state # "none" =>
                            file[f].state # "none" /\ NextFile(f).message = file[f].message
  <2> SUFFICES ASSUME NEW f \in Media
               PROVE  /\ NextFile(f) \in FileRow
                      /\ NextFile(f).state # "none" =>
                           file[f].state # "none" /\ NextFile(f).message = file[f].message
    OBVIOUS
  <2> DEFINE x == file[f]
             a == CASE x.artifact = "clean" -> "none" [] x.artifact = "live"  -> "requested"
                    [] OTHER -> x.artifact
  <2>1. x \in FileRow /\ a \in FileState /\ {"none", "requested"} \subseteq FileState
    BY <1>1 DEF FileRow, FileState
  <2>2. \/ NextFile(f) = [x EXCEPT !.artifact = a] /\ (x.state = "none" => a # "none")
        \/ NextFile(f) = NoFile
        \/ NextFile(f) = [x EXCEPT !.artifact = a, !.state = "requested"] /\ x.state = "live"
        \/ NextFile(f) = [x EXCEPT !.artifact = a]
    BY DEF NextFile
  <2> HIDE DEF a
  <2>3. NoFile \in FileRow /\ NoFile.state = "none"
    BY <2>1 DEF FileRow, NoFile
  <2>4. [x EXCEPT !.artifact = a] \in FileRow
        /\ [x EXCEPT !.artifact = a, !.state = "requested"] \in FileRow
    BY <2>1, FileRows
  <2> HIDE DEF x
  <2>5. NextFile(f) \in FileRow
    BY <2>2, <2>3, <2>4
  <2>6. NextFile(f).state # "none" => x.state # "none" /\ NextFile(f).message = x.message
    BY <2>1, <2>2, <2>3 DEF FileRow
  <2> QED BY <2>5, <2>6 DEF x
<1> QED BY <1>1, <1>2 DEF FilesAfter

\* One transaction of a pass.
LEMMA PruneSessionKeeps ==
  ASSUME RInv, NEW w \in Workers, PruneSession(w), UNCHANGED host
  PROVE  RInv'
<1>0. /\ TypeOK /\ RunsFit /\ PurgedFits /\ LiveRunKeepsItsContent
      /\ session' = session /\ ckpt' = ckpt /\ prepared' = prepared /\ outcome' = outcome
      /\ policy' = policy
  BY DEF RInv, ReferencesHold, PruneSession
<1>1. /\ event' \in EventRow /\ inbox' \in 0 .. MaxEvents
      /\ event.delta + event.other = 0 => event'.delta + event'.other = 0
      /\ inbox = 0 => inbox' = 0
  <2>1. /\ event \in EventRow /\ event.delta \in 0 .. MaxEvents /\ event.other \in 0 .. MaxEvents
        /\ inbox \in 0 .. MaxEvents /\ MaxEvents \in Nat
    BY <1>0, Types, Bounds DEF EventRow
  <2>2. /\ event.delta - DeltaPage \in 0 .. event.delta
        /\ event.other - OtherPage \in 0 .. event.other
        /\ inbox - InboxPage \in 0 .. inbox
    BY <1>0, <2>1, PagesFit
  <2>3. event' = [event EXCEPT !.delta = event.delta - DeltaPage,
                               !.other = event.other - OtherPage]
        /\ inbox' = inbox - InboxPage
    BY DEF PruneSession
  <2>4. event'.delta = event.delta - DeltaPage /\ event'.other = event.other - OtherPage
        /\ event' \in EventRow
    <3>1. event.delta - DeltaPage \in 0 .. MaxEvents /\ event.other - OtherPage \in 0 .. MaxEvents
      BY <2>1, <2>2
    <3> DEFINE d == event.delta - DeltaPage
               o == event.other - OtherPage
    <3> HIDE DEF d, o
    <3>2. event' = [event EXCEPT !.delta = d, !.other = o]
      BY <2>3 DEF d, o
    <3>3. d \in 0 .. MaxEvents /\ o \in 0 .. MaxEvents
      BY <3>1 DEF d, o
    <3>4. event' \in EventRow /\ event'.delta = d /\ event'.other = o
      BY <2>1, <3>2, <3>3 DEF EventRow
    <3> QED BY <3>4 DEF d, o
  <2> QED BY <2>1, <2>2, <2>3, <2>4
<1>2. /\ message' \in Seq(MessageRow) /\ Len(message') = Len(message)
      /\ \A m \in 1 .. Len(message) :
           /\ message'[m].run = message[m].run
           /\ message'[m].purged <=> message[m].purged \/ m \in MessagePage
  <2>1. message' = [m \in 1 .. Len(message) |->
           IF m \in MessagePage THEN [message[m] EXCEPT !.purged = TRUE] ELSE message[m]]
    BY DEF PruneSession, MessageHead
  <2>2. \A m \in 1 .. Len(message) : message[m] \in MessageRow
    BY <1>0, Types
  <2>3. message' \in [1 .. Len(message) -> MessageRow]
    BY <2>1, <2>2, MessageRows
  <2>4. \A m \in 1 .. Len(message) :
           /\ message'[m].run = message[m].run
           /\ message'[m].purged <=> message[m].purged \/ m \in MessagePage
    BY <2>1, <2>2 DEF MessageRow
  <2> QED BY <1>0, <2>3, <2>4, Rewritten
<1>3. /\ proposal' \in [Runs -> ProposalRow]
      /\ \A q \in Runs : /\ proposal'[q].state = "none" <=> proposal[q].state = "none"
                         /\ q \notin ProposalPage => proposal'[q] = proposal[q]
                         /\ q \in ProposalPage =>
                              /\ proposal'[q].purged
                              /\ proposal'[q].state \in {"rejected", "applied", "expired"}
  <2>1. proposal \in [Runs -> ProposalRow] /\ proposal' = [q \in Runs |->
          IF q \notin ProposalPage THEN proposal[q]
          ELSE [proposal[q] EXCEPT !.purged = TRUE,
                  !.state = IF proposal[q].state = "pending" THEN "expired"
                            ELSE proposal[q].state]]
    BY <1>0, Types DEF PruneSession
  <2>2. \A q \in Runs : q \notin ProposalPage => proposal'[q] = proposal[q]
    BY <2>1
  <2>3. ASSUME NEW q \in Runs, q \in ProposalPage
        PROVE  /\ proposal'[q] \in ProposalRow /\ proposal'[q].purged
               /\ proposal'[q].state \in {"rejected", "applied", "expired"}
               /\ proposal[q].state # "none"
    <3> DEFINE s == IF proposal[q].state = "pending" THEN "expired" ELSE proposal[q].state
    <3>1. s \in {"rejected", "applied", "expired"} /\ proposal[q].state # "none"
      BY <2>3, ProposalsFit DEF ProposalIsTerminal
    <3>2. s \in ProposalState /\ proposal[q] \in ProposalRow
      BY <2>1, <3>1 DEF ProposalState
    <3>3. proposal'[q] = [proposal[q] EXCEPT !.purged = TRUE, !.state = s]
      BY <2>1, <2>3
    <3> HIDE DEF s
    <3>4. proposal'[q] \in ProposalRow
      BY ZenonT(30), <3>2, <3>3, ProposalRows
    <3>5. proposal'[q].purged = TRUE /\ proposal'[q].state = s
      BY <3>2, <3>3 DEF ProposalRow
    <3> QED BY <3>1, <3>4, <3>5
  <2>4. proposal' \in [Runs -> ProposalRow]
    <3>1. \A q \in Runs : proposal'[q] \in ProposalRow
      BY <2>1, <2>2, <2>3
    <3> QED BY ZenonT(30), <2>1, <3>1
  <2> QED BY <2>2, <2>3, <2>4
<1>4. /\ call' \in [Runs -> CallRow]
      /\ \A q \in Runs : /\ call'[q].state = call[q].state
                         /\ call'[q].purged <=> call[q].purged \/ q \in ToolPage
  <2>1. call \in [Runs -> CallRow] /\ call' = [q \in Runs |->
          IF q \in ToolPage THEN [call[q] EXCEPT !.purged = TRUE] ELSE call[q]]
    BY <1>0, Types DEF PruneSession
  <2>2. call' \in [Runs -> CallRow]
    BY <2>1, CallRows, Generations
  <2> QED BY <2>1, <2>2 DEF CallRow
<1>5. /\ run' \in [Runs -> RunRow]
      /\ \A q \in Runs : /\ run'[q].state = run[q].state /\ run'[q].gen = run[q].gen
                         /\ \/ run'[q].latest = None
                            \/ run'[q].latest = run[q].latest /\ run'[q].at = run[q].at
  <2>1. run \in [Runs -> RunRow] /\ run' = [q \in Runs |->
          IF PointersAreReady THEN [run[q] EXCEPT !.latest = None, !.at = 0] ELSE run[q]]
    BY <1>0, Types DEF PruneSession
  <2>2. run' \in [Runs -> RunRow]
    <3>1. "none" \in {"none", "live", "recovery", "ended"} /\ None \in CkptKind \cup {None}
      OBVIOUS
    <3> QED BY <2>1, <3>1, RunRows, Generations
  <2> QED BY ZenonT(30), <2>1, <2>2 DEF RunRow
<1>6. /\ file' \in [Media -> FileRow] /\ file' = FilesAfter
      /\ \A f \in Media : file'[f].state # "none" =>
           file[f].state # "none" /\ file'[f].message = file[f].message
  BY <1>0, FilesAreKept DEF PruneSession
<1>7. /\ context' \subseteq context /\ \A c \in context', m \in MessagePage : ~(c >= m)
  BY DEF PruneSession, Invalidated
<1>8. /\ pass' \in [Workers -> PassRow]
      /\ \A v \in Workers : pass'[v].at = "finalize" => pass[v].at = "finalize"
  <2>1. PICK where \in {"purge", "expire"} : Go(w, where)
    BY DEF PruneSession
  <2> QED BY <1>0, <2>1, Gone
<1>9. /\ Existing' = Existing /\ Called' = Called /\ Proposed' = Proposed
      /\ Attached' \subseteq Attached /\ Unpurged' \subseteq Unpurged /\ MessageHead' = MessageHead
      /\ \A q \in Runs : Terminal(q)' <=> Terminal(q)
  <2>1. Existing' = Existing /\ Called' = Called /\ Proposed' = Proposed
    BY <1>3, <1>4, <1>5 DEF Existing, Called, Proposed
  <2>2. Attached' \subseteq Attached
    BY <1>6 DEF Attached
  <2>3. Unpurged' \subseteq Unpurged /\ MessageHead' = MessageHead
    BY <1>2 DEF Unpurged, MessageHead
  <2>4. \A q \in Runs : Terminal(q)' <=> Terminal(q)
    BY <1>5 DEF Terminal
  <2> QED BY <2>1, <2>2, <2>3, <2>4
<1>10. TypeOK'
  <2>1. context' \subseteq 1 .. Len(message')
    BY <1>0, <1>2, <1>7, Types
  <2> QED
    BY <1>0, <1>1, <1>2, <1>3, <1>4, <1>5, <1>6, <1>8, <2>1, Types, TypesKept
<1>11. SummaryCoversNoPurged'
  <2>1. ASSUME NEW c \in context', NEW m \in 1 .. c PROVE m \in Unpurged'
    <3>1. c \in 1 .. Len(message) /\ Len(message) \in Nat /\ m \in Unpurged
      BY <1>0, <1>7, Types DEF RInv, ReferencesHold, SummaryCoversNoPurged
    <3>2. m \notin MessagePage
      BY <1>7, <3>1
    <3>3. m \in 1 .. Len(message) /\ ~message[m].purged
      BY <3>1 DEF Unpurged, MessageHead
    <3> QED BY <1>2, <3>2, <3>3 DEF Unpurged, MessageHead
  <2> QED BY <2>1 DEF SummaryCoversNoPurged
<1>12. PointerNamesACheckpoint'
  BY <1>0, <1>5 DEF RInv, ReferencesHold, PointerNamesACheckpoint, Latest
<1>13. PurgedMessageIsDetached'
  <2>1. ASSUME NEW f \in Attached', file'[f].message > 0
        PROVE  ~message'[file'[f].message].purged
    <3>1. /\ f \in Attached /\ f \in Media /\ file'[f].state # "none"
          /\ file'[f].message = file[f].message /\ file[f].message \in Nat
      BY <1>0, <1>6, <1>9, Types DEF Attached, FileRow
    <3>2. file[f].message \in 1 .. Len(message) /\ ~message[file[f].message].purged
      BY <2>1, <3>1, <1>0, Types DEF RInv, ReferencesHold, FilesFit, PurgedMessageIsDetached
    <3>3. file[f].message \notin MessagePage
      BY <1>6, <3>1 DEF MessagePage, Detachable
    <3> QED BY <1>2, <3>1, <3>2, <3>3
  <2> QED BY <2>1 DEF PurgedMessageIsDetached
<1>14. PreparedFits' /\ FilesFit'
  <2>1. PreparedFits'
    BY <1>0, <1>2 DEF RInv, PreparedFits
  <2>2. FilesFit'
    BY <1>2, <1>6, <1>9 DEF RInv, FilesFit, Attached
  <2> QED BY <2>1, <2>2
<1>15. RunsFit'
  BY SMTT(30), <1>0, <1>2, <1>3, <1>4, <1>5 DEF RunsFit
<1>16. PurgedFits'
  <2>1. \A q \in Runs : q \in ToolPage => call[q].state = "closed"
    BY <1>0, ToolCallsFit
  <2> QED BY <1>0, <1>3, <1>4, <2>1 DEF PurgedFits
<1>17. LiveRunKeepsItsContent'
  <2>1. ASSUME NEW q \in Existing, ~Terminal(q)
        PROVE  /\ ~call'[q].purged /\ ~proposal'[q].purged
               /\ \A m \in 1 .. Len(message) : message'[m].run = q => ~message'[m].purged
    <3>1. q \in Runs /\ q \notin ToolPage /\ q \notin ProposalPage
      BY <1>0, <2>1, ToolCallsFit, ProposalsFit DEF Existing
    <3>2. ~call'[q].purged /\ ~proposal'[q].purged
      BY <1>0, <1>3, <1>4, <2>1, <3>1 DEF LiveRunKeepsItsContent
    <3>3. \A m \in 1 .. Len(message) : message[m].run = q => m \notin MessagePage /\ ~message[m].purged
      BY <1>0, <2>1 DEF MessagePage, Detachable, LiveRunKeepsItsContent, MessageHead
    <3> QED BY <1>2, <3>2, <3>3
  <2> QED BY <1>2, <1>9, <2>1 DEF LiveRunKeepsItsContent, MessageHead, Existing
<1>18. FinalizeFits'
  <2>1. Closed => Closed'
    BY <1>0, <1>3, <1>4, <1>9 DEF Closed, Existing, Proposed, Called
  <2> QED BY <1>8, <2>1 DEF RInv, FinalizeFits
<1>19. DeletedIsEmpty'
  <2>1. \A q \in Runs : /\ proposal[q].purged => proposal'[q].purged
                        /\ call[q].purged => call'[q].purged
    BY <1>3, <1>4
  <2> QED
    BY <1>0, <1>1, <1>7, <1>9, <2>1 DEF RInv, DeletedIsEmpty, Existing, Proposed, Called
<1> QED
  BY <1>10, <1>11, <1>12, <1>13, <1>14, <1>15, <1>16, <1>17, <1>18, <1>19
     DEF RInv, ReferencesHold

-----------------------------------------------------------------------------
(* The invariant. *)

\* It holds at the start: the session is new.
LEMMA RInvHolds == Init => RInv
<1> SUFFICES ASSUME Init PROVE RInv
  OBVIOUS
<1>1. TypeOK
  <2>1. NoRun \in RunRow /\ NoCall \in CallRow /\ NoProposal \in ProposalRow /\ NoFile \in FileRow
    BY Bounds DEF NoRun, NoCall, NoProposal, NoFile, RunRow, CallRow, ProposalRow, FileRow,
       ProposalState, FileState
  <2>2. /\ run \in [Runs -> RunRow] /\ call \in [Runs -> CallRow]
        /\ proposal \in [Runs -> ProposalRow] /\ file \in [Media -> FileRow]
    BY <2>1 DEF Init
  <2>3. pass \in [Workers -> PassRow] /\ session \in SessionRow
    BY DEF Init, PassRow, SessionRow, SessionState
  <2>4. event \in EventRow /\ inbox \in 0 .. MaxEvents
    BY Bounds DEF Init, EventRow
  <2>5. /\ message = <<>> /\ context = {} /\ ckpt = {} /\ prepared = None /\ outcome = {}
        /\ policy \in Policy /\ host \in Hosts
    BY Bounds DEF Init
  <2> QED
    BY <2>2, <2>3, <2>4, <2>5 DEF TypeOK, RunRow, CallRow, ProposalRow, FileRow, PassRow,
       SessionRow, EventRow
<1>2. /\ session.state = "active" /\ message = <<>> /\ context = {} /\ prepared = None
      /\ \A r \in Runs : /\ run[r] = NoRun /\ call[r] = NoCall /\ proposal[r] = NoProposal
      /\ \A f \in Media : file[f].state = "none"
      /\ \A w \in Workers : pass[w].at = "idle"
  BY DEF Init, NoFile
<1>3. ReferencesHold
  BY <1>1, <1>2 DEF ReferencesHold, SummaryCoversNoPurged, PointerNamesACheckpoint,
     PurgedMessageIsDetached, Attached, NoRun
<1>4. PreparedFits /\ FilesFit /\ FinalizeFits /\ DeletedIsEmpty
  BY <1>2 DEF PreparedFits, FilesFit, Attached, FinalizeFits, DeletedIsEmpty
<1>5. RunsFit /\ PurgedFits
  BY <1>2 DEF RunsFit, PurgedFits, NoRun, NoCall, NoProposal
<1>6. LiveRunKeepsItsContent
  BY <1>2 DEF LiveRunKeepsItsContent, Existing, NoRun
<1> QED BY <1>3, <1>4, <1>5, <1>6 DEF RInv

\* A step of nobody changes nothing.
LEMMA RInvStutters ==
  ASSUME RInv, UNCHANGED vars
  PROVE  RInv'
BY SMTT(30) DEF RInv, ReferencesHold, TypeOK, Checkpoint, SummaryCoversNoPurged,
   PointerNamesACheckpoint, PurgedMessageIsDetached, PreparedFits, FilesFit, RunsFit,
   PurgedFits, FinalizeFits, Closed, LiveRunKeepsItsContent, DeletedIsEmpty, Existing,
   Terminal, Proposed, Called, Attached, Unpurged, MessageHead, Latest, vars, tables

\* Whatever the services and the workers do, in whatever order: the invariant
\* of the session.
THEOREM RetentionInvariance == Spec => []RInv
<1>1. RInv /\ [Next]_vars => RInv'
  <2> SUFFICES ASSUME RInv, [Next]_vars PROVE RInv'
    OBVIOUS
  <2>1. CASE UNCHANGED vars
    BY <2>1, RInvStutters
  <2>2. CASE Next
    <3>1. /\ UNCHANGED host /\ host.runs \subseteq Runs /\ host.workers \subseteq Workers
      BY <2>2, Types, HostsAssumption DEF Next, RInv, ReferencesHold
    <3>2. CASE \E r \in host.runs : RunStep(r)
      BY <3>1, <3>2, SendMessageKeeps, LiveDeltaKeeps, ToolCallKeeps, ConsumeBatchKeeps,
         PersistOutputKeeps, ReclaimKeeps, EndRunKeeps, ProposeKeeps, CheckOutcomeKeeps,
         RecordOutcomeKeeps, PersistCheckpointKeeps DEF RunStep
    <3>3. CASE Transition \/ PrepareCompaction \/ PersistCompaction \/ Age \/ ChangePolicy
      BY <3>1, <3>3, TransitionKeeps, PrepareCompactionKeeps, PersistCompactionKeeps,
         AgeKeeps, ChangePolicyKeeps
    <3>4. CASE \E f \in Media : CleanUp(f)
      BY <3>1, <3>4, CleanUpKeeps
    <3>5. CASE \E w \in host.workers : Pass(w) \/ Crash(w)
      BY <3>1, <3>5, ScanKeeps, PruneNothingKeeps, PruneSessionKeeps,
         PurgeRunCheckpointsKeeps, PurgeExpiredKeeps, FinalizeKeeps, CrashKeeps DEF Pass
    <3> QED BY <2>2, <3>2, <3>3, <3>4, <3>5 DEF Next
  <2> QED BY <2>1, <2>2
<1> QED BY <1>1, RInvHolds, PTL DEF Spec

\* No summary, run or attachment that is left names what retention has removed:
\* no purged message, no deleted checkpoint.
THEOREM ReferencesAlwaysHold == Spec => []ReferencesHold
<1>1. RInv => ReferencesHold
  BY DEF RInv
<1> QED BY <1>1, RetentionInvariance, PTL

\* Nothing protected is left in a deleted session, whatever wrote to it while
\* the passes went on.
THEOREM DeletedStaysEmpty == Spec => []DeletedIsEmpty
<1>1. RInv => DeletedIsEmpty
  BY DEF RInv
<1> QED BY <1>1, RetentionInvariance, PTL

\* Nothing is purged under a run that may still go on.
THEOREM LiveRunsKeepTheirContent == Spec => []LiveRunKeepsItsContent
<1>1. RInv => LiveRunKeepsItsContent
  BY DEF RInv
<1> QED BY <1>1, RetentionInvariance, PTL

-----------------------------------------------------------------------------
(***************************************************************************)
(* Attachments.                                                            *)
(***************************************************************************)

\* The objects of an upload.
Stored(f) == blob[f] \cap {"quarantine", "final"}
Derivatives(f) == blob[f] \cap {"derived", "provider"}

\* The file is not, and will not be, in anybody's hands.
GivenUp(f) ==
  /\ upload[f].at = "done"
  /\ Exists(f) => row[f].q \notin {"ready", "released"}

\* Where an upload is, its objects are; a fresh one has claimed its row.
UploadFits(f) ==
  /\ upload[f].fresh =>
       /\ upload[f].at \notin {"idle", "done"}
       /\ Exists(f) /\ row[f].q = "uploading"
  /\ f \notin spoiled =>
       /\ upload[f].at \in {"idle", "put", "close"} => Stored(f) = {}
       /\ upload[f].at \in {"judge", "clear"} => "final" \notin blob[f]
       /\ upload[f].at \in {"drop", "finish"} => "final" \in blob[f]
       /\ upload[f].at = "finish" => "quarantine" \notin blob[f]
       /\ upload[f].at = "done" => Stored(f) \subseteq Named(f)

\* What is handed over has its object and is not being cleaned up; who links a
\* file takes it out of everybody's reach but that of a due deletion.
RowFits(f) ==
  Exists(f) =>
    /\ row[f].final \/ row[f].q \in {"ready", "released"} => upload[f].at = "done"
    /\ row[f].q \in {"ready", "released"} =>
         /\ row[f].p \in {"ready", "complete"}
         /\ f \notin spoiled => row[f].final /\ "final" \in blob[f]
    /\ row[f].linked /\ row[f].q # "released" => chatRow.cutoff

ArtifactFits(f) ==
  /\ artifact[f] # Null => Exists(f)
  /\ Derivatives(f) # {} => artifact[f] # Null /\ artifact[f].c # "complete"

\* A removal that is fresh knows its row; one that is not deletes only objects
\* of a file that is given up.
RemoveFits(f) ==
  /\ remove[f].at = "read" /\ remove[f].fresh =>
       Exists(f) /\ ~row[f].linked /\ row[f].q # "uploading"
  /\ remove[f].at \in {"marked", "cleared"} =>
       /\ "final" \in remove[f].refs => GivenUp(f)
       /\ remove[f].fresh =>
            /\ Exists(f) /\ ~row[f].linked /\ row[f].q = "deleting"
            /\ remove[f].refs = Named(f)
            /\ remove[f].at = "cleared" /\ upload[f].at = "done" /\ f \notin spoiled =>
                 Stored(f) = {}

\* So does a cleanup of a file, and one of an artifact.
FileCleanupFits(w, f) ==
  /\ "final" \in worker[w].refs => GivenUp(f)
  /\ worker[w].fresh =>
       /\ Exists(f) /\ row[f].p = "cleanup_in_progress" /\ ~upload[f].fresh
       /\ worker[w].refs = Named(f)
       /\ worker[w].at = "deleted" /\ worker[w].ok /\ upload[f].at = "done"
            /\ f \notin spoiled => Stored(f) = {}
ArtifactCleanupFits(w, f) ==
  /\ "final" \notin worker[w].refs
  /\ worker[w].fresh =>
       /\ artifact[f] # Null /\ artifact[f].c = "cleanup_in_progress"
       /\ worker[w].refs = {"derived", "provider"}
       /\ worker[w].at = "deleted" /\ worker[w].ok => Derivatives(f) = {}
WorkerFits(w) ==
  worker[w].at \in {"claimed", "deleted"} =>
    /\ worker[w].queue # <<>>
    /\ \A f \in Files :
         /\ Holds(w, <<"file", f>>) => FileCleanupFits(w, f)
         /\ Holds(w, <<"artifact", f>>) => ArtifactCleanupFits(w, f)

FileFits(f) == UploadFits(f) /\ RowFits(f) /\ ArtifactFits(f) /\ RemoveFits(f)
AInv ==
  /\ RowsOK
  /\ \A f \in Files : FileFits(f)
  /\ \A w \in Callers : WorkerFits(w)

-----------------------------------------------------------------------------
(* Queues of the cleanup passes. *)

QueueOf == UNION {[1 .. n -> Items] : n \in 0 .. Cardinality(Files)}

\* Files are numbers, so each has a place among the others.
Place(S) == [f \in S |-> Cardinality({g \in S : g < f})]

LEMMA PlacesDiffer ==
  ASSUME NEW S \in SUBSET Files
  PROVE  /\ IsFiniteSet(S) /\ Cardinality(S) \in 0 .. Cardinality(Files)
         /\ \A f \in S : Place(S)[f] \in 0 .. Cardinality(S) - 1
         /\ \A f, g \in S : f # g => Place(S)[f] # Place(S)[g]
<1>1. IsFiniteSet(Files) /\ Files \subseteq Nat
  BY FilesAssumption
<1>2. IsFiniteSet(S) /\ Cardinality(S) \in Nat /\ Cardinality(Files) \in Nat
      /\ Cardinality(S) <= Cardinality(Files)
  BY <1>1, FS_Subset, FS_CardinalityType
<1>3. ASSUME NEW f \in S
      PROVE  IsFiniteSet({g \in S : g < f}) /\ Cardinality({g \in S : g < f}) \in Nat
  <2>1. {g \in S : g < f} \in SUBSET S
    OBVIOUS
  <2> QED BY <2>1, <1>2, FS_Subset, FS_CardinalityType
<1>4. ASSUME NEW f \in S, NEW T \in SUBSET S, {g \in S : g < f} \subseteq T, f \in T
      PROVE  Cardinality({g \in S : g < f}) < Cardinality(T)
  <2> DEFINE L == {g \in S : g < f}
  <2>1. L \in SUBSET T /\ f \in T /\ f \notin L
    BY <1>1, <1>4
  <2>2. IsFiniteSet(T) /\ Cardinality(T) \in Nat
    BY <1>2, FS_Subset, FS_CardinalityType
  <2>3. Cardinality(L) <= Cardinality(T) /\ (Cardinality(T) = Cardinality(L) => T = L)
    BY <2>1, <2>2, FS_Subset
  <2>4. Cardinality(L) \in Nat
    BY <1>3
  <2> HIDE DEF L
  <2>5. Cardinality(L) < Cardinality(T)
    BY <2>1, <2>2, <2>3, <2>4
  <2> QED BY <2>5 DEF L
<1>5. ASSUME NEW f \in S PROVE Place(S)[f] \in 0 .. Cardinality(S) - 1
  <2>1. Cardinality({g \in S : g < f}) < Cardinality(S)
    BY <1>4
  <2> QED BY <2>1, <1>2, <1>3 DEF Place
<1>6. ASSUME NEW f \in S, NEW g \in S, f < g PROVE Place(S)[f] < Place(S)[g]
  <2> S \subseteq Nat
    BY <1>1
  <2>1. {h \in S : h < f} \subseteq {h \in S : h < g} /\ f \in {h \in S : h < g}
    <3>1. \A h \in S : h < f => h < g
      BY <1>6
    <3> QED BY <3>1, <1>6
  <2>2. {h \in S : h < g} \in SUBSET S
    OBVIOUS
  <2>3. Cardinality({h \in S : h < f}) < Cardinality({h \in S : h < g})
    BY <2>1, <2>2, <1>4
  <2> QED BY <2>3 DEF Place
<1>7. ASSUME NEW f \in S, NEW g \in S, f # g PROVE Place(S)[f] # Place(S)[g]
  <2>1. f < g \/ g < f
    BY <1>1, <1>7
  <2>2. Place(S)[f] < Place(S)[g] \/ Place(S)[g] < Place(S)[f]
    BY <2>1, <1>6
  <2>3. Place(S)[f] \in Int /\ Place(S)[g] \in Int
    BY <1>2, <1>5
  <2> QED BY <2>2, <2>3
<1> QED BY <1>2, <1>5, <1>7

\* The oldest n files are at most n.
LEMMA OldestAreFew ==
  ASSUME NEW S \in SUBSET Files, NEW n \in Nat
  PROVE  Oldest(S, n) \in SUBSET Files /\ Cardinality(Oldest(S, n)) \in 0 .. n
<1> DEFINE T == Oldest(S, n)
           p == [f \in T |-> Place(S)[f]]
<1>1. T \subseteq S /\ \A f \in T : Place(S)[f] < n
  BY DEF Oldest, Place
<1>2. p \in Injection(T, 0 .. n - 1)
  <2>1. \A f \in T : p[f] \in 0 .. n - 1
    BY <1>1, PlacesDiffer
  <2>2. \A f, g \in T : f # g => p[f] # p[g]
    BY <1>1, PlacesDiffer
  <2>3. p \in [T -> 0 .. n - 1]
    BY <2>1
  <2> HIDE DEF p, T
  <2> QED BY <2>2, <2>3 DEF Injection, IsInjective
<1>3. IsFiniteSet(0 .. n - 1) /\ Cardinality(0 .. n - 1) = n
  BY FS_Interval
<1>4. IsFiniteSet(T) /\ Cardinality(T) <= n
  BY <1>2, <1>3, FS_Injection
<1>5. Cardinality(T) \in Nat
  BY <1>4, FS_CardinalityType
<1> QED BY <1>1, <1>4, <1>5

\* A set of files in order.
LEMMA OrderFits ==
  ASSUME NEW S \in SUBSET Files
  PROVE  InOrder(S) \in [1 .. Cardinality(S) -> Files] /\ Len(InOrder(S)) = Cardinality(S)
<1> DEFINE n == Cardinality(S)
<1>1. n \in Nat /\ IsFiniteSet(S)
  BY PlacesDiffer
<1>2. Place(S) \in Injection(S, 0 .. n - 1)
  <2>1. Place(S) \in [S -> 0 .. n - 1]
    BY PlacesDiffer DEF Place
  <2> QED BY <2>1, PlacesDiffer DEF Injection, IsInjective
<1>3. IsFiniteSet(0 .. n - 1) /\ Cardinality(0 .. n - 1) = n
  BY SMTT(30), <1>1, FS_Interval
<1>4. Place(S) \in Surjection(S, 0 .. n - 1)
  BY <1>2, <1>3, FS_Injection
<1>5. \A i \in 1 .. n : \E f \in S : Cardinality({g \in S : g < f}) = i - 1
  <2>1. ASSUME NEW i \in 1 .. n PROVE \E f \in S : Cardinality({g \in S : g < f}) = i - 1
    <3>1. i - 1 \in 0 .. n - 1
      BY <1>1
    <3>2. PICK f \in S : Place(S)[f] = i - 1
      BY <1>4, <3>1 DEF Surjection
    <3> QED BY <3>2 DEF Place
  <2> QED BY <2>1
<1>6. \A i \in 1 .. n :
        (CHOOSE f \in S : Cardinality({g \in S : g < f}) = i - 1) \in S
  BY <1>5
<1>7. InOrder(S) \in [1 .. n -> Files]
  BY <1>6 DEF InOrder
<1> HIDE DEF n
<1> QED BY <1>1, <1>7 DEF n

LEMMA QueueFits ==
  ASSUME NEW S \in SUBSET Files, NEW kind \in {"file", "artifact"}
  PROVE  Queue(kind, InOrder(S)) \in QueueOf
<1>1. /\ InOrder(S) \in [1 .. Cardinality(S) -> Files]
      /\ Cardinality(S) \in 0 .. Cardinality(Files)
  BY OrderFits, PlacesDiffer
<1>2. Queue(kind, InOrder(S)) \in [1 .. Cardinality(S) -> Items]
  BY <1>1 DEF Queue, Items
<1> QED BY <1>1, <1>2 DEF QueueOf

\* A queue that is not empty has a head, and the rest is a queue.
LEMMA QueueHead ==
  ASSUME NEW q \in QueueOf, q # <<>>
  PROVE  Head(q) \in Items /\ Tail(q) \in QueueOf
<1>1. PICK n \in 0 .. Cardinality(Files) : q \in [1 .. n -> Items]
  BY DEF QueueOf
<1>2. Cardinality(Files) \in Nat
  BY FilesAssumption, FS_CardinalityType
<1>3. n \in Nat /\ q \in Seq(Items)
  BY <1>1, <1>2
<1>4. Len(q) = n /\ n > 0
  BY <1>1, <1>3
<1>5. Head(q) \in Items /\ Tail(q) \in [1 .. n - 1 -> Items]
  <2>1. Head(q) \in Items /\ Tail(q) \in Seq(Items) /\ Len(Tail(q)) = n - 1
    BY <1>1, <1>3, <1>4, HeadTailProperties
  <2>2. Tail(q) \in [1 .. Len(Tail(q)) -> Items]
    BY <2>1, LenProperties
  <2> QED BY <2>1, <2>2
<1>6. n - 1 \in 0 .. Cardinality(Files)
  BY <1>2, <1>3, <1>4
<1> QED BY <1>5, <1>6 DEF QueueOf

-----------------------------------------------------------------------------
(* Types. *)

\* A cleanup pass, its queue unopened.
CleanupPass ==
  [at : {"idle", "next", "claimed", "deleted"}, phase : {"artifact", "file"},
   queue : QueueOf, left : 0 .. Batch, fresh : BOOLEAN, refs : SUBSET Object, ok : BOOLEAN]

\* What the constants are.
LEMMA Constants ==
  /\ Files \subseteq Nat /\ Batch \in Nat \ {0} /\ MaxFaults \in Nat
  /\ Artifacts \subseteq Files /\ Regimes \subseteq {"missing", "lenient", "strict"}
  /\ Null \notin Row /\ Null \notin Artifact
BY FilesAssumption, BatchAssumption, ArtifactsAssumption, RegimesAssumption, NullAssumption

\* The types, and what is enough for them.
LEMMA FileTypes ==
  RowsOK <=>
    /\ chatRow \in [state : {"active", "deleting"}, cutoff : BOOLEAN]
    /\ regime \in {"missing", "lenient", "strict"}
    /\ row \in [Files -> Row \cup {Null}]
    /\ artifact \in [Files -> Artifact \cup {Null}]
    /\ blob \in [Files -> SUBSET Object]
    /\ upload \in [Files -> Upload]
    /\ remove \in [Files -> Remove]
    /\ worker \in [Callers -> CleanupPass]
    /\ faults \in 0 .. MaxFaults
    /\ spoiled \subseteq Files
BY DEF RowsOK, CleanupPass, Worker, QueueOf

LEMMA FileTypesKept ==
  ASSUME chatRow' \in [state : {"active", "deleting"}, cutoff : BOOLEAN],
         regime' \in {"missing", "lenient", "strict"},
         row' \in [Files -> Row \cup {Null}],
         artifact' \in [Files -> Artifact \cup {Null}],
         blob' \in [Files -> SUBSET Object],
         upload' \in [Files -> Upload],
         remove' \in [Files -> Remove],
         worker' \in [Callers -> CleanupPass],
         faults' \in 0 .. MaxFaults,
         spoiled' \subseteq Files
  PROVE  RowsOK'
BY DEF RowsOK, CleanupPass, Worker, QueueOf

\* What is new is well formed.
LEMMA NewRows ==
  /\ NewRow \in Row /\ NewUpload \in Upload /\ NewRemove \in Remove /\ NewWorker \in CleanupPass
<1>1. <<>> \in QueueOf
  <2>1. 0 \in 0 .. Cardinality(Files)
    BY FilesAssumption, FS_CardinalityType
  <2>2. <<>> \in [1 .. 0 -> Items]
    OBVIOUS
  <2> QED BY <2>1, <2>2 DEF QueueOf
<1>2. Batch \in 0 .. Batch
  BY Constants
<1>3. NewWorker \in CleanupPass
  BY <1>1, <1>2 DEF NewWorker, CleanupPass
<1> QED
  BY <1>3 DEF NewRow, Row, QuarantineState, ProcessingState, NewUpload, Upload, UploadStep,
    NewRemove, Remove

\* What is left of a fault.
LEMMA FaultsFit ==
  ASSUME RowsOK, Fault \/ NoFault
  PROVE  faults' \in 0 .. MaxFaults
BY Constants, FileTypes DEF Fault, NoFault

\* A copy that is stale is the copy but for that.
LEMMA StaleCopies ==
  ASSUME RowsOK, NEW f \in Files
  PROVE  /\ StaleUpload(f) \in Upload /\ StaleUpload(f).fresh = FALSE
         /\ StaleUpload(f).at = upload[f].at
         /\ StaleRemove(f) \in Remove /\ StaleRemove(f).fresh = FALSE
         /\ StaleRemove(f).at = remove[f].at /\ StaleRemove(f).refs = remove[f].refs
<1>1. upload[f] \in Upload /\ remove[f] \in Remove
  BY FileTypes
<1> QED BY <1>1 DEF StaleUpload, StaleRemove, Upload, Remove

LEMMA StalePasses ==
  ASSUME RowsOK, NEW item
  PROVE  /\ StaleWorkers(item) \in [Callers -> CleanupPass]
         /\ \A w \in Callers :
              /\ StaleWorkers(item)[w].at = worker[w].at
              /\ StaleWorkers(item)[w].queue = worker[w].queue
              /\ StaleWorkers(item)[w].refs = worker[w].refs
              /\ StaleWorkers(item)[w].ok = worker[w].ok
              /\ StaleWorkers(item)[w].fresh =>
                   worker[w].fresh /\ ~Holds(w, item)
<1>1. worker \in [Callers -> CleanupPass]
  BY FileTypes
<1>2. ASSUME NEW w \in Callers
      PROVE  /\ [worker[w] EXCEPT !.fresh = FALSE] \in CleanupPass
             /\ [worker[w] EXCEPT !.fresh = FALSE].at = worker[w].at
             /\ [worker[w] EXCEPT !.fresh = FALSE].queue = worker[w].queue
             /\ [worker[w] EXCEPT !.fresh = FALSE].refs = worker[w].refs
             /\ [worker[w] EXCEPT !.fresh = FALSE].ok = worker[w].ok
             /\ [worker[w] EXCEPT !.fresh = FALSE].fresh = FALSE
  BY <1>1 DEF CleanupPass
<1> QED BY <1>1, <1>2 DEF StaleWorkers

-----------------------------------------------------------------------------
(* What a step on one file leaves alone. *)

\* A step on f concerns no other file.
Elsewhere(f) ==
  /\ chatRow' = chatRow
  /\ \A g \in Files \ {f} :
       /\ row'[g] = row[g] /\ artifact'[g] = artifact[g] /\ blob'[g] = blob[g]
       /\ upload'[g] = upload[g] /\ remove'[g] = remove[g]
       /\ g \in spoiled' <=> g \in spoiled

\* The objects of a file whose upload is over have not become more.
NothingStored(f) ==
  upload'[f].at = "done" /\ f \notin spoiled' =>
    \/ Stored(f)' = {}
    \/ upload[f].at = "done" /\ f \notin spoiled /\ Stored(f)' \subseteq Stored(f)

LEMMA ElsewhereFits ==
  ASSUME AInv, NEW f \in Files, Elsewhere(f)
  PROVE  \A g \in Files \ {f} : FileFits(g)'
<1> SUFFICES ASSUME NEW g \in Files \ {f} PROVE FileFits(g)'
  OBVIOUS
<1>1. FileFits(g)
  BY DEF AInv
<1>2. /\ chatRow' = chatRow
      /\ row'[g] = row[g] /\ artifact'[g] = artifact[g] /\ blob'[g] = blob[g]
      /\ upload'[g] = upload[g] /\ remove'[g] = remove[g]
      /\ g \in spoiled' <=> g \in spoiled
  BY DEF Elsewhere
<1>3. /\ Exists(g)' <=> Exists(g)
      /\ Named(g)' = Named(g) /\ Stored(g)' = Stored(g) /\ Derivatives(g)' = Derivatives(g)
  BY <1>2 DEF Exists, Named, Stored, Derivatives
<1>4. GivenUp(g)' <=> GivenUp(g)
  BY <1>2, <1>3 DEF GivenUp
<1>5. UploadFits(g)'
  BY <1>1, <1>2, <1>3 DEF FileFits, UploadFits
<1>6. RowFits(g)'
  BY <1>1, <1>2, <1>3 DEF FileFits, RowFits
<1>7. ArtifactFits(g)'
  BY <1>1, <1>2, <1>3 DEF FileFits, ArtifactFits
<1>8. RemoveFits(g)'
  BY <1>1, <1>2, <1>3, <1>4 DEF FileFits, RemoveFits
<1> QED BY <1>5, <1>6, <1>7, <1>8 DEF FileFits

\* Nobody but a due deletion takes hold of a file that is handed over.
LEMMA HandedOver ==
  ASSUME AInv, NEW f \in Files, Exists(f), row[f].q \in {"ready", "released"}
  PROVE  /\ upload[f].at = "done" /\ ~upload[f].fresh /\ ~GivenUp(f)
         /\ row[f].p \in {"ready", "complete"}
         /\ f \notin spoiled => row[f].final /\ "final" \in blob[f]
BY DEF AInv, FileFits, UploadFits, RowFits, GivenUp

\* A removal that goes on unchanged.
LEMMA RemovalGoesOn ==
  ASSUME AInv, NEW f \in Files, row'[f] = row[f], remove'[f] = remove[f],
         GivenUp(f) => GivenUp(f)', NothingStored(f)
  PROVE  RemoveFits(f)'
<1>1. RemoveFits(f)
  BY DEF AInv, FileFits
<1>2. Named(f)' = Named(f) /\ (Exists(f)' <=> Exists(f))
  BY DEF Named, Exists
<1>3. NothingStored(f) /\ Stored(f) = {} /\ upload'[f].at = "done" /\ f \notin spoiled' =>
        Stored(f)' = {}
  BY DEF NothingStored
<1>4. remove[f].fresh /\ remove[f].at = "cleared" /\ upload'[f].at = "done"
        /\ f \notin spoiled' => Stored(f)' = {}
  <2> SUFFICES ASSUME remove[f].fresh, remove[f].at = "cleared", upload'[f].at = "done",
                      f \notin spoiled', Stored(f)' # {}
               PROVE  FALSE
    OBVIOUS
  <2>1. upload[f].at = "done" /\ f \notin spoiled
    BY DEF NothingStored
  <2>2. Stored(f) = {}
    BY <1>1, <2>1 DEF RemoveFits
  <2> QED BY <1>3, <2>2
<1> QED BY <1>1, <1>2, <1>4 DEF RemoveFits

\* A removal whose row somebody else has written.
LEMMA RemovalGoesStale ==
  ASSUME AInv, NEW f \in Files, remove'[f] = StaleRemove(f), GivenUp(f) => GivenUp(f)'
  PROVE  RemoveFits(f)'
<1>1. RemoveFits(f)
  BY DEF AInv, FileFits
<1>2. /\ remove'[f].fresh = FALSE /\ remove'[f].at = remove[f].at
      /\ remove'[f].refs = remove[f].refs
  BY StaleCopies DEF AInv
<1> QED BY <1>1, <1>2 DEF RemoveFits

\* What a fresh worker knows of the file it cleans up.
Cleaning(w, f) ==
  /\ Exists(f) /\ row[f].p = "cleanup_in_progress" /\ ~upload[f].fresh
  /\ worker[w].refs = Named(f)
  /\ worker[w].at = "deleted" /\ worker[w].ok /\ upload[f].at = "done"
       /\ f \notin spoiled => Stored(f) = {}

\* Items are told apart by their kind and their file.
LEMMA ItemsDiffer ==
  \A f, g : /\ <<"file", f>> # <<"artifact", g>>
            /\ <<"file", f>> = <<"file", g>> => f = g
            /\ <<"artifact", f>> = <<"artifact", g>> => f = g
OBVIOUS

\* What a fresh worker knows of the artifact it cleans up.
Taking(w, f) ==
  /\ artifact[f] # Null /\ artifact[f].c = "cleanup_in_progress"
  /\ worker[w].refs = {"derived", "provider"}
  /\ worker[w].at = "deleted" /\ worker[w].ok => Derivatives(f) = {}

\* A pass goes on, fresh or stale.
GoesOn(w) ==
  /\ worker'[w].at = worker[w].at /\ worker'[w].queue = worker[w].queue
  /\ worker'[w].refs = worker[w].refs /\ worker'[w].ok = worker[w].ok
  /\ worker'[w].fresh => worker[w].fresh

\* A pass that goes on after a step on f that is not its own.
LEMMA PassGoesOn ==
  ASSUME AInv, NEW f \in Files, Elsewhere(f), GivenUp(f) => GivenUp(f)',
         NEW w \in Callers, GoesOn(w),
         Holds(w, <<"file", f>>) /\ worker'[w].fresh => Cleaning(w, f)',
         Holds(w, <<"artifact", f>>) /\ worker'[w].fresh => Taking(w, f)'
  PROVE  WorkerFits(w)'
<1> USE DEF GoesOn
<1>1. WorkerFits(w)
  BY DEF AInv
<1>2. \A item : Holds(w, item)' <=> Holds(w, item)
  BY DEF Holds
<1> SUFFICES ASSUME worker[w].at \in {"claimed", "deleted"}, NEW g \in Files
             PROVE  /\ Holds(w, <<"file", g>>)' => FileCleanupFits(w, g)'
                    /\ Holds(w, <<"artifact", g>>)' => ArtifactCleanupFits(w, g)'
  BY <1>1 DEF WorkerFits
<1>3. ASSUME Holds(w, <<"file", g>>) PROVE FileCleanupFits(w, g)'
  <2>1. FileCleanupFits(w, g)
    BY <1>1, <1>3 DEF WorkerFits
  <2>2. CASE g = f
    BY <1>3, <2>1, <2>2 DEF FileCleanupFits, Cleaning
  <2>3. CASE g # f
    <3>1. /\ row'[g] = row[g] /\ blob'[g] = blob[g] /\ upload'[g] = upload[g]
          /\ g \in spoiled' <=> g \in spoiled
      BY <2>3 DEF Elsewhere
    <3>2. /\ Exists(g)' <=> Exists(g)
          /\ Named(g)' = Named(g) /\ Stored(g)' = Stored(g)
      BY <3>1 DEF Exists, Named, Stored
    <3>3. GivenUp(g)' <=> GivenUp(g)
      BY <3>1, <3>2 DEF GivenUp
    <3> QED BY <2>1, <3>1, <3>2, <3>3 DEF FileCleanupFits
  <2> QED BY <2>2, <2>3
<1>4. ASSUME Holds(w, <<"artifact", g>>) PROVE ArtifactCleanupFits(w, g)'
  <2>1. ArtifactCleanupFits(w, g)
    BY <1>1, <1>4 DEF WorkerFits
  <2>2. CASE g = f
    BY <1>4, <2>1, <2>2 DEF ArtifactCleanupFits, Taking
  <2>3. CASE g # f
    <3>1. artifact'[g] = artifact[g] /\ Derivatives(g)' = Derivatives(g)
      BY <2>3 DEF Elsewhere, Derivatives
    <3> QED BY <2>1, <3>1 DEF ArtifactCleanupFits
  <2> QED BY <2>2, <2>3
<1> QED BY <1>2, <1>3, <1>4

\* A fresh worker is still fresh after a step that leaves artifacts alone.
LEMMA TakingGoesOn ==
  ASSUME AInv, NEW f \in Files, artifact'[f] = artifact[f],
         Derivatives(f)' \subseteq Derivatives(f),
         NEW w \in Callers, GoesOn(w), Holds(w, <<"artifact", f>>), worker'[w].fresh
  PROVE  Taking(w, f)'
<1>1. ArtifactCleanupFits(w, f)
  BY DEF AInv, WorkerFits, Holds
<1> QED BY <1>1 DEF ArtifactCleanupFits, Taking, GoesOn

\* A step that writes no row of f's and is nobody's pass.
LEMMA QuietStep ==
  ASSUME AInv, NEW f \in Files, Elsewhere(f), RowsOK',
         row'[f] = row[f], artifact'[f] = artifact[f], worker' = worker,
         Derivatives(f)' \subseteq Derivatives(f), NothingStored(f),
         GivenUp(f) => GivenUp(f)', upload'[f].fresh => upload[f].fresh, FileFits(f)'
  PROVE  AInv'
<1>1. \A g \in Files : FileFits(g)'
  BY ElsewhereFits
<1>2. ASSUME NEW w \in Callers, Holds(w, <<"file", f>>), worker[w].fresh
      PROVE  Cleaning(w, f)'
  <2>1. FileCleanupFits(w, f)
    BY <1>2 DEF AInv, WorkerFits, Holds
  <2>2. Named(f)' = Named(f) /\ (Exists(f)' <=> Exists(f))
    BY DEF Named, Exists
  <2>3. worker[w].at = "deleted" /\ worker[w].ok /\ upload'[f].at = "done" /\ f \notin spoiled'
          => Stored(f)' = {}
    BY <1>2, <2>1 DEF FileCleanupFits, NothingStored
  <2> QED BY <1>2, <2>1, <2>2, <2>3 DEF FileCleanupFits, Cleaning
<1>3. ASSUME NEW w \in Callers PROVE WorkerFits(w)'
  <2>1. GoesOn(w)
    BY DEF GoesOn
  <2> QED BY <1>2, <2>1, PassGoesOn, TakingGoesOn
<1> QED BY <1>1, <1>3 DEF AInv

\* A step that writes the row of f.
LEMMA WritingStep ==
  ASSUME AInv, NEW f \in Files, Elsewhere(f), RowsOK',
         artifact'[f] = artifact[f], Derivatives(f)' \subseteq Derivatives(f),
         worker' = StaleWorkers(<<"file", f>>),
         GivenUp(f) => GivenUp(f)', FileFits(f)'
  PROVE  AInv'
<1>1. \A g \in Files : FileFits(g)'
  BY ElsewhereFits
<1>2. ASSUME NEW w \in Callers PROVE WorkerFits(w)'
  <2>1. GoesOn(w) /\ (worker'[w].fresh => ~Holds(w, <<"file", f>>))
    BY StalePasses DEF AInv, GoesOn
  <2> QED BY <2>1, PassGoesOn, TakingGoesOn
<1> QED BY <1>1, <1>2 DEF AInv

\* A step that writes the row of f when nobody is cleaning it up.
LEMMA UnwatchedStep ==
  ASSUME AInv, NEW f \in Files, Elsewhere(f), RowsOK',
         artifact'[f] = artifact[f], Derivatives(f)' \subseteq Derivatives(f),
         worker' = worker, Exists(f) => row[f].p # "cleanup_in_progress",
         GivenUp(f) => GivenUp(f)', FileFits(f)'
  PROVE  AInv'
<1>1. \A g \in Files : FileFits(g)'
  BY ElsewhereFits
<1>2. ASSUME NEW w \in Callers PROVE WorkerFits(w)'
  <2>1. ~(Holds(w, <<"file", f>>) /\ worker[w].fresh)
    BY DEF AInv, WorkerFits, FileCleanupFits, Holds
  <2>2. GoesOn(w)
    BY DEF GoesOn
  <2> QED BY <2>1, <2>2, PassGoesOn, TakingGoesOn
<1> QED BY <1>1, <1>2 DEF AInv

-----------------------------------------------------------------------------
(* Upload. *)

\* The rows of files that are not concerned.
LEMMA OtherFiles ==
  ASSUME RowsOK, NEW f \in Files
  PROVE  /\ \A x : \A g \in Files \ {f} : /\ [row EXCEPT ![f] = x][g] = row[g]
                                          /\ [upload EXCEPT ![f] = x][g] = upload[g]
                                          /\ [remove EXCEPT ![f] = x][g] = remove[g]
                                          /\ [blob EXCEPT ![f] = x][g] = blob[g]
                                          /\ [artifact EXCEPT ![f] = x][g] = artifact[g]
         /\ \A x : /\ [row EXCEPT ![f] = x][f] = x
                   /\ [upload EXCEPT ![f] = x][f] = x
                   /\ [remove EXCEPT ![f] = x][f] = x
                   /\ [blob EXCEPT ![f] = x][f] = x
                   /\ [artifact EXCEPT ![f] = x][f] = x
         /\ row = [row EXCEPT ![f] = row[f]] /\ row[f] \in Row \cup {Null}
         /\ upload = [upload EXCEPT ![f] = upload[f]] /\ upload[f] \in Upload
         /\ remove = [remove EXCEPT ![f] = remove[f]] /\ remove[f] \in Remove
         /\ blob = [blob EXCEPT ![f] = blob[f]] /\ blob[f] \in SUBSET Object
         /\ artifact = [artifact EXCEPT ![f] = artifact[f]]
         /\ artifact[f] \in Artifact \cup {Null}
BY FileTypes

\* A step makes r, a, b, up and rm of what belongs to f and leaves other files alone.
Touches(f, r, a, b, up, rm) ==
  /\ r \in Row \cup {Null} /\ a \in Artifact \cup {Null} /\ b \in SUBSET Object
  /\ up \in Upload /\ rm \in Remove
  /\ chatRow' = chatRow /\ regime' = regime
  /\ row' = [row EXCEPT ![f] = r] /\ artifact' = [artifact EXCEPT ![f] = a]
  /\ blob' = [blob EXCEPT ![f] = b]
  /\ upload' = [upload EXCEPT ![f] = up] /\ remove' = [remove EXCEPT ![f] = rm]
  /\ worker' \in [Callers -> CleanupPass] /\ faults' \in 0 .. MaxFaults
  /\ spoiled' \in {spoiled, spoiled \cup {f}}

LEMMA OneFile ==
  ASSUME RowsOK, NEW f \in Files, NEW r, NEW a, NEW b, NEW up, NEW rm,
         Touches(f, r, a, b, up, rm)
  PROVE  /\ RowsOK' /\ Elsewhere(f)
         /\ row'[f] = r /\ artifact'[f] = a /\ blob'[f] = b
         /\ upload'[f] = up /\ remove'[f] = rm
<1> USE DEF Touches
<1>1. /\ row' \in [Files -> Row \cup {Null}] /\ artifact' \in [Files -> Artifact \cup {Null}]
      /\ blob' \in [Files -> SUBSET Object] /\ upload' \in [Files -> Upload]
      /\ remove' \in [Files -> Remove] /\ spoiled' \subseteq Files
  BY FileTypes
<1>2. RowsOK'
  BY <1>1, FileTypes, FileTypesKept
<1>3. Elsewhere(f)
  BY OtherFiles DEF Elsewhere
<1> QED BY <1>2, <1>3, OtherFiles

LEMMA CreateUploadFits ==
  ASSUME AInv, NEW f \in Files, CreateUpload(f)
  PROVE  AInv'
<1>1. /\ row' = [row EXCEPT ![f] = NewRow] /\ upload[f].at = "idle" /\ ~Exists(f)
      /\ UNCHANGED <<chatRow, regime, artifact, blob, upload, remove, worker, faults, spoiled>>
  BY DEF CreateUpload, WriteRow
<1>2. RowsOK /\ FileFits(f)
  BY DEF AInv
<1>3. RowsOK' /\ Elsewhere(f) /\ row'[f] = NewRow
  <2>1. /\ artifact' = [artifact EXCEPT ![f] = artifact[f]]
        /\ blob' = [blob EXCEPT ![f] = blob[f]] /\ upload' = [upload EXCEPT ![f] = upload[f]]
        /\ remove' = [remove EXCEPT ![f] = remove[f]]
    BY <1>1, <1>2, OtherFiles
  <2>2. /\ NewRow \in Row \cup {Null} /\ artifact[f] \in Artifact \cup {Null}
        /\ blob[f] \in SUBSET Object /\ upload[f] \in Upload /\ remove[f] \in Remove
        /\ worker' \in [Callers -> CleanupPass] /\ faults' \in 0 .. MaxFaults
    BY <1>1, <1>2, OtherFiles, NewRows, FileTypes
  <2>3. Touches(f, NewRow, artifact[f], blob[f], upload[f], remove[f])
    BY <1>1, <2>1, <2>2 DEF Touches
  <2> QED BY <1>2, <2>3, OneFile
<1>6. NewRow # Null /\ ~GivenUp(f) /\ ~upload[f].fresh
  BY <1>1, <1>2, NewRows, Constants DEF GivenUp, FileFits, UploadFits
<1>7. UploadFits(f)'
  BY <1>1, <1>2, <1>6 DEF FileFits, UploadFits, Stored
<1>8. RowFits(f)'
  BY <1>3 DEF RowFits, NewRow
<1>9. ArtifactFits(f)'
  BY <1>1, <1>2, <1>3, <1>6 DEF FileFits, ArtifactFits, Exists, Derivatives
<1>10. RemoveFits(f)'
  BY <1>1, <1>2, <1>6 DEF FileFits, RemoveFits
<1>11. Derivatives(f)' = Derivatives(f) /\ artifact'[f] = artifact[f]
  BY <1>1 DEF Derivatives
<1> QED
  BY <1>1, <1>3, <1>6, <1>7, <1>8, <1>9, <1>10, <1>11, UnwatchedStep DEF FileFits

LEMMA ClaimUploadFits ==
  ASSUME AInv, NEW f \in Files, ClaimUpload(f)
  PROVE  AInv'
<1> DEFINE new == [row[f] EXCEPT !.token = FALSE, !.q = "uploading", !.p = "scanning",
                                 !.due = FALSE]
<1>1. /\ upload[f].at = "idle" /\ MayUpload(f) /\ row' = [row EXCEPT ![f] = new]
      /\ remove' = [remove EXCEPT ![f] = StaleRemove(f)]
      /\ worker' = StaleWorkers(<<"file", f>>)
      /\ UNCHANGED <<chatRow, regime, artifact, blob, faults, spoiled>>
  BY DEF ClaimUpload, WriteRow, RemoveAfter
<1>2. PICK up \in Upload :
        /\ upload' = [upload EXCEPT ![f] = up]
        /\ up.fresh /\ up.at \in {"put", "clear"}
  <2>1. PICK hint \in BOOLEAN : UploadAfter(f, [NewUpload EXCEPT
          !.at = IF hint THEN "put" ELSE "clear", !.out = "rejected", !.fresh = TRUE])
    BY DEF ClaimUpload
  <2> DEFINE u == [NewUpload EXCEPT
          !.at = IF hint THEN "put" ELSE "clear", !.out = "rejected", !.fresh = TRUE]
  <2>2. u \in Upload /\ u.fresh /\ u.at \in {"put", "clear"}
    BY DEF NewUpload, Upload, UploadStep
  <2> QED BY <2>1, <2>2 DEF UploadAfter
<1>3. RowsOK /\ FileFits(f) /\ row[f] \in Row /\ Exists(f)
  BY <1>1, FileTypes DEF AInv, MayUpload, Exists
<1>4. /\ new \in Row /\ new.q = "uploading" /\ new.p = "scanning"
      /\ new.final = row[f].final /\ new.linked = row[f].linked
  BY <1>3 DEF Row, QuarantineState, ProcessingState
<1> HIDE DEF new
<1>5. /\ RowsOK' /\ Elsewhere(f)
      /\ row'[f] = new /\ upload'[f] = up /\ remove'[f] = StaleRemove(f)
  <2>1. /\ artifact' = [artifact EXCEPT ![f] = artifact[f]]
        /\ blob' = [blob EXCEPT ![f] = blob[f]]
    BY <1>1, <1>3, OtherFiles
  <2>2. /\ new \in Row \cup {Null} /\ artifact[f] \in Artifact \cup {Null}
        /\ blob[f] \in SUBSET Object /\ StaleRemove(f) \in Remove
        /\ worker' \in [Callers -> CleanupPass] /\ faults' \in 0 .. MaxFaults
    BY <1>1, <1>3, <1>4, OtherFiles, StaleCopies, StalePasses, FileTypes
  <2>3. Touches(f, new, artifact[f], blob[f], up, StaleRemove(f))
    BY <1>1, <1>2, <2>1, <2>2 DEF Touches
  <2> QED BY <1>3, <2>3, OneFile
<1>8. Exists(f)' /\ ~GivenUp(f)
  BY <1>1, <1>4, <1>5, Constants DEF Exists, GivenUp
<1>9. UploadFits(f)'
  BY <1>1, <1>2, <1>3, <1>4, <1>5, <1>8 DEF FileFits, UploadFits, Stored
<1>10. RowFits(f)'
  BY <1>1, <1>3, <1>4, <1>5 DEF FileFits, RowFits, MayUpload
<1>11. ArtifactFits(f)'
  BY <1>1, <1>3, <1>8 DEF FileFits, ArtifactFits, Derivatives
<1>12. RemoveFits(f)'
  BY <1>5, <1>8, RemovalGoesStale
<1>13. Derivatives(f)' = Derivatives(f) /\ artifact'[f] = artifact[f]
  BY <1>1 DEF Derivatives
<1> QED
  BY <1>1, <1>5, <1>8, <1>9, <1>10, <1>11, <1>12, <1>13, WritingStep DEF FileFits

\* An upload that goes on, or gives up, and writes no row.
Continues(f, up, b) ==
  /\ up \in Upload /\ b \in SUBSET Object
  /\ UNCHANGED <<chatRow, regime, row, artifact, remove, worker>>
  /\ upload' = [upload EXCEPT ![f] = up] /\ blob' = [blob EXCEPT ![f] = b]
  /\ faults' \in 0 .. MaxFaults /\ spoiled' \in {spoiled, spoiled \cup {f}}
  /\ upload[f].at \notin {"idle", "done"} /\ up.at # "idle"
  /\ up.fresh => upload[f].fresh /\ up.at # "done"
  /\ b \cap {"derived", "provider"} \subseteq blob[f]
  /\ f \notin spoiled' =>
       /\ up.at \in {"put", "close", "done"} => b \cap {"quarantine", "final"} = {}
       /\ up.at \in {"judge", "clear"} => "final" \notin b
       /\ up.at \in {"drop", "finish"} => "final" \in b
       /\ up.at = "finish" => "quarantine" \notin b

LEMMA UploadGoesOn ==
  ASSUME AInv, NEW f \in Files, NEW up, NEW b, Continues(f, up, b)
  PROVE  AInv'
<1> USE DEF Continues
<1>1. RowsOK /\ FileFits(f)
  BY DEF AInv
<1>2. /\ RowsOK' /\ Elsewhere(f) /\ row'[f] = row[f] /\ artifact'[f] = artifact[f]
      /\ blob'[f] = b /\ upload'[f] = up /\ remove'[f] = remove[f]
  <2>1. /\ row' = [row EXCEPT ![f] = row[f]] /\ artifact' = [artifact EXCEPT ![f] = artifact[f]]
        /\ remove' = [remove EXCEPT ![f] = remove[f]]
    BY <1>1, OtherFiles
  <2>2. /\ row[f] \in Row \cup {Null} /\ artifact[f] \in Artifact \cup {Null}
        /\ remove[f] \in Remove /\ worker' \in [Callers -> CleanupPass]
    BY <1>1, OtherFiles, FileTypes
  <2>3. Touches(f, row[f], artifact[f], b, up, remove[f])
    BY <2>1, <2>2 DEF Touches
  <2> QED BY <1>1, <2>3, OneFile
<1>3. f \notin spoiled' => f \notin spoiled
  OBVIOUS
<1>4. (Exists(f)' <=> Exists(f)) /\ ~GivenUp(f)
  BY <1>2 DEF Exists, GivenUp
<1>5. NothingStored(f) /\ Derivatives(f)' \subseteq Derivatives(f)
  BY <1>2 DEF NothingStored, Stored, Derivatives
<1>6. UploadFits(f)'
  BY <1>1, <1>2, <1>4 DEF FileFits, UploadFits, Stored
<1>7. RowFits(f)'
  BY <1>1, <1>2, <1>4 DEF FileFits, RowFits
<1>8. ArtifactFits(f)'
  BY <1>1, <1>2, <1>4, <1>5 DEF FileFits, ArtifactFits
<1>9. RemoveFits(f)'
  BY <1>2, <1>4, <1>5, RemovalGoesOn
<1> QED
  BY <1>2, <1>4, <1>5, <1>6, <1>7, <1>8, <1>9, QuietStep DEF FileFits

\* An upload that ends with a write of its row.
Closes(f, new, up, b) ==
  /\ new \in Row /\ up \in Upload /\ b \in SUBSET Object
  /\ UNCHANGED <<chatRow, regime, artifact>>
  /\ row' = [row EXCEPT ![f] = new] /\ upload' = [upload EXCEPT ![f] = up]
  /\ blob' = [blob EXCEPT ![f] = b] /\ remove' = [remove EXCEPT ![f] = StaleRemove(f)]
  /\ worker' = StaleWorkers(<<"file", f>>)
  /\ faults' \in 0 .. MaxFaults /\ spoiled' \in {spoiled, spoiled \cup {f}}
  /\ upload[f].fresh /\ up.at = "done" /\ ~up.fresh
  /\ new.linked = row[f].linked /\ new.q # "released" /\ (new.q = "ready" => new.p = "ready")
  /\ b \cap {"derived", "provider"} \subseteq blob[f]
  /\ f \notin spoiled' =>
       /\ "quarantine" \in b => new.quar
       /\ "final" \in b => new.final
       /\ new.q = "ready" => new.final /\ "final" \in b

LEMMA UploadEnds ==
  ASSUME AInv, NEW f \in Files, NEW new, NEW up, NEW b, Closes(f, new, up, b)
  PROVE  AInv'
<1> USE DEF Closes
<1>1. RowsOK /\ FileFits(f)
  BY DEF AInv
<1>2. /\ RowsOK' /\ Elsewhere(f) /\ row'[f] = new /\ artifact'[f] = artifact[f]
      /\ blob'[f] = b /\ upload'[f] = up /\ remove'[f] = StaleRemove(f)
  <2>1. artifact' = [artifact EXCEPT ![f] = artifact[f]]
    BY <1>1, OtherFiles
  <2>2. /\ new \in Row \cup {Null} /\ artifact[f] \in Artifact \cup {Null}
        /\ StaleRemove(f) \in Remove /\ worker' \in [Callers -> CleanupPass]
    BY <1>1, OtherFiles, StaleCopies, StalePasses
  <2>3. Touches(f, new, artifact[f], b, up, StaleRemove(f))
    BY <2>1, <2>2 DEF Touches
  <2> QED BY <1>1, <2>3, OneFile
<1>3. upload[f].at # "done" /\ Exists(f) /\ row[f].q = "uploading"
  BY <1>1 DEF FileFits, UploadFits
<1>4. Exists(f)' /\ ~GivenUp(f)
  BY <1>2, <1>3, Constants DEF Exists, GivenUp
<1>5. Derivatives(f)' \subseteq Derivatives(f)
  BY <1>2 DEF Derivatives
<1>6. UploadFits(f)'
  BY <1>2, <1>4 DEF UploadFits, Stored, Named
<1>7. RowFits(f)'
  BY <1>1, <1>2, <1>3 DEF FileFits, RowFits
<1>8. ArtifactFits(f)'
  BY <1>1, <1>2, <1>4, <1>5 DEF FileFits, ArtifactFits
<1>9. RemoveFits(f)'
  BY <1>2, <1>4, RemovalGoesStale
<1> QED
  BY <1>2, <1>4, <1>5, <1>6, <1>7, <1>8, <1>9, WritingStep DEF FileFits

\* What a deletion leaves of the objects of f.
LEMMA Deletes ==
  ASSUME RowsOK, NEW f \in Files, NEW objects, NEW ok \in BOOLEAN, Deleted(f, objects, ok)
  PROVE  /\ faults' \in 0 .. MaxFaults
         /\ \E b \in SUBSET blob[f] :
              /\ blob' = [blob EXCEPT ![f] = b]
              /\ blob[f] \ objects \subseteq b
              /\ ok => b = blob[f] \ objects
<1>1. faults' \in 0 .. MaxFaults
  BY FaultsFit DEF Deleted
<1>2. CASE ok /\ blob' = [blob EXCEPT ![f] = @ \ objects]
  <2> DEFINE b == blob[f] \ objects
  <2>1. b \in SUBSET blob[f] /\ blob[f] \ objects \subseteq b /\ b = blob[f] \ objects
    OBVIOUS
  <2>2. blob' = [blob EXCEPT ![f] = b]
    BY <1>2
  <2> HIDE DEF b
  <2> QED BY <1>1, <1>2, <2>1, <2>2
<1>3. CASE ~ok /\ \E gone \in SUBSET objects : blob' = [blob EXCEPT ![f] = @ \ gone]
  <2>1. PICK gone \in SUBSET objects : blob' = [blob EXCEPT ![f] = @ \ gone]
    BY <1>3
  <2> DEFINE b == blob[f] \ gone
  <2>2. b \in SUBSET blob[f] /\ blob[f] \ objects \subseteq b
    OBVIOUS
  <2>3. blob' = [blob EXCEPT ![f] = b]
    BY <2>1
  <2> HIDE DEF b
  <2> QED BY <1>1, <1>3, <2>2, <2>3
<1> QED BY <1>1, <1>2, <1>3 DEF Deleted

\* Where an upload is, its objects are.
LEMMA UploadIs ==
  ASSUME AInv, NEW f \in Files
  PROVE  /\ RowsOK /\ UploadFits(f) /\ upload[f] \in Upload /\ blob[f] \in SUBSET Object
         /\ upload \in [Files -> Upload] /\ blob \in [Files -> SUBSET Object]
BY FileTypes DEF AInv, FileFits

\* The copy an upload keeps, moved on.
LEMMA MovedOn ==
  ASSUME AInv, NEW f \in Files, NEW s \in UploadStep
  PROVE  LET up == [upload[f] EXCEPT !.at = s] IN
         /\ up \in Upload /\ up.at = s /\ up.fresh = upload[f].fresh
         /\ [upload EXCEPT ![f].at = s] = [upload EXCEPT ![f] = up]
BY UploadIs DEF Upload

\* One that gave up.
LEMMA Refused ==
  ASSUME AInv, NEW f \in Files, NEW s \in UploadStep, NEW out \in {"rejected", "failed"}
  PROVE  LET up == [upload[f] EXCEPT !.at = s, !.out = out] IN
         /\ up \in Upload /\ up.at = s /\ up.fresh = upload[f].fresh
         /\ [upload EXCEPT ![f].at = s, ![f].out = out] = [upload EXCEPT ![f] = up]
BY UploadIs DEF Upload

LEMMA PutBlobFits ==
  ASSUME AInv, NEW f \in Files, PutBlob(f)
  PROVE  AInv'
<1>1. /\ upload[f].at = "put"
      /\ UNCHANGED <<chatRow, regime, row, artifact, remove, worker>>
      /\ faults' \in 0 .. MaxFaults
  BY UploadIs, FaultsFit DEF PutBlob
<1> DEFINE b == blob[f] \cup {"quarantine"}
<1>2. /\ b \in SUBSET Object /\ [blob EXCEPT ![f] = @ \cup {"quarantine"}] = [blob EXCEPT ![f] = b]
      /\ b \cap {"derived", "provider"} \subseteq blob[f]
      /\ "final" \in b => "final" \in blob[f]
  BY UploadIs DEF Object
<1>3. f \notin spoiled => "final" \notin blob[f]
  BY <1>1, UploadIs DEF UploadFits, Stored
<1> HIDE DEF b
<1>4. CASE blob' = [blob EXCEPT ![f] = b] /\ upload' = [upload EXCEPT ![f].at = "judge"]
           /\ UNCHANGED spoiled
  <2> DEFINE up == [upload[f] EXCEPT !.at = "judge"]
  <2>1. /\ up \in Upload /\ up.at = "judge" /\ up.fresh = upload[f].fresh
        /\ upload' = [upload EXCEPT ![f] = up]
    BY <1>4, MovedOn DEF UploadStep
  <2> HIDE DEF up
  <2>2. Continues(f, up, b)
    BY <1>1, <1>2, <1>3, <1>4, <2>1 DEF Continues
  <2> QED BY <2>2, UploadGoesOn
<1>5. CASE /\ blob' \in {blob, [blob EXCEPT ![f] = b]}
           /\ upload' = [upload EXCEPT ![f].at = "clear", ![f].out = "failed"]
           /\ spoiled' = spoiled \cup {f}
  <2> DEFINE up == [upload[f] EXCEPT !.at = "clear", !.out = "failed"]
  <2>1. /\ up \in Upload /\ up.at = "clear" /\ up.fresh = upload[f].fresh
        /\ upload' = [upload EXCEPT ![f] = up]
    BY <1>5, Refused DEF UploadStep
  <2> HIDE DEF up
  <2>2. PICK c \in {blob[f], b} : blob' = [blob EXCEPT ![f] = c]
    BY <1>5, UploadIs
  <2>3. c \in SUBSET Object /\ c \cap {"derived", "provider"} \subseteq blob[f]
    BY <1>2, <2>2, UploadIs
  <2>4. Continues(f, up, c)
    BY <1>1, <1>5, <2>1, <2>2, <2>3 DEF Continues
  <2> QED BY SMTT(30), <2>4, UploadGoesOn
<1> QED BY <1>2, <1>4, <1>5 DEF PutBlob

LEMMA JudgeBlobFits ==
  ASSUME AInv, NEW f \in Files, JudgeBlob(f)
  PROVE  AInv'
<1>1. /\ upload[f].at = "judge"
      /\ UNCHANGED <<chatRow, regime, row, artifact, remove, worker>>
      /\ faults' \in 0 .. MaxFaults
  BY UploadIs, FaultsFit DEF JudgeBlob, CopyBlob, Refuse
<1> DEFINE b == blob[f] \cup {"final"}
<1>2. /\ b \in SUBSET Object /\ [blob EXCEPT ![f] = @ \cup {"final"}] = [blob EXCEPT ![f] = b]
      /\ b \cap {"derived", "provider"} \subseteq blob[f] /\ "final" \in b
  BY UploadIs DEF Object
<1>3. f \notin spoiled => "final" \notin blob[f]
  BY <1>1, UploadIs DEF UploadFits
<1> HIDE DEF b
<1>4. CASE blob' = [blob EXCEPT ![f] = b] /\ upload' = [upload EXCEPT ![f].at = "drop"]
           /\ UNCHANGED spoiled
  <2> DEFINE up == [upload[f] EXCEPT !.at = "drop"]
  <2>1. /\ up \in Upload /\ up.at = "drop" /\ up.fresh = upload[f].fresh
        /\ upload' = [upload EXCEPT ![f] = up]
    BY <1>4, MovedOn DEF UploadStep
  <2> HIDE DEF up
  <2>2. Continues(f, up, b)
    BY <1>1, <1>2, <1>4, <2>1 DEF Continues
  <2> QED BY <2>2, UploadGoesOn
<1> DEFINE Gives(out, c) ==
      /\ out \in {"rejected", "failed"} /\ c \in {blob[f], b}
      /\ blob' = [blob EXCEPT ![f] = c]
      /\ upload' = [upload EXCEPT ![f].at = "clear", ![f].out = out]
      /\ spoiled' = spoiled \cup {f} \/ (spoiled' = spoiled /\ c = blob[f])
<1>5. ASSUME NEW out, NEW c, Gives(out, c)
      PROVE  AInv'
  <2> DEFINE up == [upload[f] EXCEPT !.at = "clear", !.out = out]
  <2>1. /\ up \in Upload /\ up.at = "clear" /\ up.fresh = upload[f].fresh
        /\ upload' = [upload EXCEPT ![f] = up]
    <3>1. up \in Upload /\ up.at = "clear" /\ up.fresh = upload[f].fresh
      BY <1>5, UploadIs DEF Upload, UploadStep
    <3>2. upload' = [upload EXCEPT ![f] = up]
      BY <1>5, UploadIs
    <3> QED BY <3>1, <3>2
  <2> HIDE DEF up
  <2>2. c \in SUBSET Object /\ c \cap {"derived", "provider"} \subseteq blob[f]
    BY <1>2, <1>5, UploadIs
  <2>3. Continues(f, up, c)
    BY <1>1, <1>3, <1>5, <2>1, <2>2 DEF Continues
  <2> QED BY <2>3, UploadGoesOn
<1>6. blob = [blob EXCEPT ![f] = blob[f]]
  BY UploadIs
<1>7. CASE CopyBlob(f)
  <2>1. CASE /\ blob' = [blob EXCEPT ![f] = @ \cup {"final"}]
             /\ upload' = [upload EXCEPT ![f].at = "drop"] /\ UNCHANGED spoiled
    BY <1>2, <1>4, <2>1
  <2>2. CASE /\ blob' \in {blob, [blob EXCEPT ![f] = @ \cup {"final"}]}
             /\ upload' = [upload EXCEPT ![f].at = "clear", ![f].out = "failed"]
             /\ spoiled' = spoiled \cup {f}
    <3>1. PICK c \in {blob[f], b} : blob' = [blob EXCEPT ![f] = c]
      BY <1>2, <1>6, <2>2
    <3>2. Gives("failed", c)
      BY <2>2, <3>1
    <3> HIDE DEF Gives
    <3> QED BY <1>5, <3>2
  <2> QED BY <1>7, <2>1, <2>2 DEF CopyBlob
<1>8. CASE \E out \in {"rejected", "failed"} : Refuse(f, out)
  <2>1. PICK out \in {"rejected", "failed"} : Refuse(f, out)
    BY <1>8
  <2>2. Gives(out, blob[f])
    BY <1>6, <2>1 DEF Refuse
  <2> HIDE DEF Gives
  <2> QED BY <1>5, <2>2
<1> QED BY <1>7, <1>8 DEF JudgeBlob

LEMMA DropQuarantineFits ==
  ASSUME AInv, NEW f \in Files, DropQuarantine(f)
  PROVE  AInv'
<1>1. /\ upload[f].at = "drop"
      /\ UNCHANGED <<chatRow, regime, row, artifact, remove, worker>>
  BY DEF DropQuarantine
<1>2. f \notin spoiled => "final" \in blob[f]
  BY <1>1, UploadIs DEF UploadFits
<1>3. CASE /\ Deleted(f, {"quarantine"}, TRUE)
           /\ upload' = [upload EXCEPT ![f].at = "finish"] /\ UNCHANGED spoiled
  <2> DEFINE up == [upload[f] EXCEPT !.at = "finish"]
  <2>1. /\ up \in Upload /\ up.at = "finish" /\ up.fresh = upload[f].fresh
        /\ upload' = [upload EXCEPT ![f] = up]
    BY <1>3, MovedOn DEF UploadStep
  <2> HIDE DEF up
  <2>2. faults' \in 0 .. MaxFaults /\ blob' = [blob EXCEPT ![f] = blob[f] \ {"quarantine"}]
    BY <1>3, FaultsFit, UploadIs DEF Deleted
  <2>3. Continues(f, up, blob[f] \ {"quarantine"})
    BY <1>1, <1>2, <1>3, <2>1, <2>2, UploadIs DEF Continues
  <2> QED BY <2>3, UploadGoesOn
<1>4. ASSUME Fault, NEW gone \in SUBSET {"quarantine", "final"}, NEW kept \in BOOLEAN,
             blob' = [blob EXCEPT ![f] = @ \ gone],
             upload' = [upload EXCEPT ![f].at = "close", ![f].out = "failed",
                                      ![f].quar = TRUE, ![f].final = kept],
             spoiled' = spoiled \cup {f}
      PROVE  AInv'
  <2> DEFINE up == [upload[f] EXCEPT !.at = "close", !.out = "failed", !.quar = TRUE,
                                     !.final = kept]
             b == blob[f] \ gone
  <2>1. up \in Upload /\ up.at = "close" /\ up.fresh = upload[f].fresh
    BY UploadIs DEF Upload, UploadStep
  <2>2. upload' = [upload EXCEPT ![f] = up] /\ blob' = [blob EXCEPT ![f] = b]
    BY <1>4, UploadIs
  <2>3. faults' \in 0 .. MaxFaults /\ b \in SUBSET Object /\ b \subseteq blob[f]
    BY <1>4, FaultsFit, UploadIs
  <2> HIDE DEF up, b
  <2>4. Continues(f, up, b)
    BY <1>1, <1>4, <2>1, <2>2, <2>3 DEF Continues
  <2> QED BY <2>4, UploadGoesOn
<1> QED BY <1>3, <1>4 DEF DropQuarantine

LEMMA ClearUploadFits ==
  ASSUME AInv, NEW f \in Files, ClearUpload(f)
  PROVE  AInv'
<1>1. PICK ok \in BOOLEAN :
        /\ Deleted(f, {"quarantine"}, ok)
        /\ upload' = [upload EXCEPT ![f].at = "close", ![f].quar = ~ok]
        /\ spoiled' = IF ok THEN spoiled ELSE spoiled \cup {f}
  BY DEF ClearUpload
<1>2. /\ upload[f].at = "clear"
      /\ UNCHANGED <<chatRow, regime, row, artifact, remove, worker>>
  BY DEF ClearUpload
<1>3. f \notin spoiled => "final" \notin blob[f]
  BY <1>2, UploadIs DEF UploadFits
<1> DEFINE up == [upload[f] EXCEPT !.at = "close", !.quar = ~ok]
<1>4. /\ up \in Upload /\ up.at = "close" /\ up.fresh = upload[f].fresh
      /\ upload' = [upload EXCEPT ![f] = up]
  BY <1>1, UploadIs DEF Upload, UploadStep
<1> HIDE DEF up
<1>5. PICK b \in SUBSET blob[f] :
        /\ blob' = [blob EXCEPT ![f] = b]
        /\ ok => b = blob[f] \ {"quarantine"}
  BY <1>1, UploadIs, Deletes
<1>6. b \in SUBSET Object /\ faults' \in 0 .. MaxFaults
  BY <1>1, <1>5, UploadIs, Deletes
<1>7. Continues(f, up, b)
  BY <1>1, <1>2, <1>3, <1>4, <1>5, <1>6 DEF Continues
<1> QED BY <1>7, UploadGoesOn

\* An upload that is over.
LEMMA DoneUpload ==
  LET up == [NewUpload EXCEPT !.at = "done"] IN
  up \in Upload /\ up.at = "done" /\ up.fresh = FALSE
BY DEF NewUpload, Upload, UploadStep

\* The row of a fresh upload.
LEMMA OwnRow ==
  ASSUME AInv, NEW f \in Files, upload[f].fresh
  PROVE  row[f] \in Row /\ row[f].q = "uploading"
<1>1. Exists(f) /\ row[f].q = "uploading" /\ RowsOK
  BY DEF AInv, FileFits, UploadFits
<1> QED BY <1>1, FileTypes DEF Exists

LEMMA CloseUploadFits ==
  ASSUME AInv, NEW f \in Files, CloseUpload(f)
  PROVE  AInv'
<1> DEFINE up == [NewUpload EXCEPT !.at = "done"]
<1>1. up \in Upload /\ up.at = "done" /\ up.fresh = FALSE
  BY DoneUpload
<1>2. /\ upload[f].at = "close" /\ upload' = [upload EXCEPT ![f] = up]
      /\ UNCHANGED <<chatRow, regime, artifact, blob, faults, spoiled>>
  BY DEF CloseUpload, UploadAfter
<1> HIDE DEF up
<1>3. /\ blob' = [blob EXCEPT ![f] = blob[f]] /\ blob[f] \in SUBSET Object
      /\ faults' \in 0 .. MaxFaults
      /\ f \notin spoiled => blob[f] \cap {"quarantine", "final"} = {}
  BY <1>2, UploadIs, FileTypes DEF UploadFits, Stored
<1>4. CASE upload[f].fresh
  <2> DEFINE new == [row[f] EXCEPT
               !.q = upload[f].out, !.due = FALSE,
               !.quar = upload[f].quar, !.final = upload[f].final,
               !.p = IF upload[f].quar THEN "cleanup_required" ELSE "complete"]
  <2>1. new \in Row /\ new.linked = row[f].linked /\ new.q \in {"rejected", "failed"}
    BY ZenonT(90), <1>4, OwnRow, UploadIs DEF Row, Upload, QuarantineState, ProcessingState
  <2>2. /\ row' = [row EXCEPT ![f] = new] /\ remove' = [remove EXCEPT ![f] = StaleRemove(f)]
        /\ worker' = StaleWorkers(<<"file", f>>)
    BY <1>4 DEF CloseUpload, WriteRow, RemoveAfter
  <2> HIDE DEF new
  <2>3. Closes(f, new, up, blob[f])
    BY <1>1, <1>2, <1>3, <1>4, <2>1, <2>2 DEF Closes
  <2> QED BY <2>3, UploadEnds
<1>5. CASE ~upload[f].fresh
  <2>1. UNCHANGED <<row, remove, worker>>
    BY <1>5 DEF CloseUpload
  <2>2. Continues(f, up, blob[f])
    BY <1>1, <1>2, <1>3, <2>1 DEF Continues
  <2> QED BY <2>2, UploadGoesOn
<1> QED BY <1>4, <1>5

LEMMA FinishRefusedFits ==
  ASSUME AInv, NEW f \in Files, FinishRefused(f)
  PROVE  AInv'
<1> DEFINE up == [NewUpload EXCEPT !.at = "done"]
<1>1. up \in Upload /\ up.at = "done" /\ up.fresh = FALSE
  BY DoneUpload
<1>2. PICK ok \in BOOLEAN :
        /\ Deleted(f, {"final"}, ok)
        /\ spoiled' = IF ok THEN spoiled ELSE spoiled \cup {f}
  BY DEF FinishRefused
<1>3. /\ upload[f].at = "finish" /\ upload' = [upload EXCEPT ![f] = up]
      /\ UNCHANGED <<chatRow, regime, row, artifact, remove, worker>>
  BY DEF FinishRefused, UploadAfter
<1> HIDE DEF up
<1>4. PICK b \in SUBSET blob[f] :
        /\ blob' = [blob EXCEPT ![f] = b]
        /\ ok => b = blob[f] \ {"final"}
  BY <1>2, UploadIs, Deletes
<1>5. b \in SUBSET Object /\ faults' \in 0 .. MaxFaults
  BY <1>2, <1>4, UploadIs, Deletes
<1>6. f \notin spoiled => "quarantine" \notin blob[f]
  BY <1>3, UploadIs DEF UploadFits
<1>7. Continues(f, up, b)
  BY <1>1, <1>2, <1>3, <1>4, <1>5, <1>6 DEF Continues
<1> QED BY <1>7, UploadGoesOn

LEMMA UploadCrashFits ==
  ASSUME AInv, NEW f \in Files, UploadCrash(f)
  PROVE  AInv'
<1> DEFINE up == [NewUpload EXCEPT !.at = "done"]
<1>1. up \in Upload /\ up.at = "done" /\ up.fresh = FALSE
  BY DoneUpload
<1>2. /\ upload[f].at \notin {"idle", "done"} /\ upload' = [upload EXCEPT ![f] = up]
      /\ spoiled' = spoiled \cup {f} /\ faults' \in 0 .. MaxFaults
      /\ UNCHANGED <<chatRow, regime, row, artifact, blob, remove, worker>>
  BY FaultsFit, UploadIs DEF UploadCrash, UploadAfter
<1> HIDE DEF up
<1>3. blob' = [blob EXCEPT ![f] = blob[f]] /\ blob[f] \in SUBSET Object
  BY <1>2, UploadIs
<1>4. Continues(f, up, blob[f])
  BY <1>1, <1>2, <1>3 DEF Continues
<1> QED BY <1>4, UploadGoesOn

\* The row of a file whose upload has succeeded.
LEMMA ReadyRow ==
  ASSUME AInv, NEW f \in Files, upload[f].fresh
  PROVE  LET new == [row[f] EXCEPT !.q = "ready", !.p = "ready", !.due = FALSE,
                                   !.quar = FALSE, !.final = TRUE] IN
         /\ new \in Row /\ new.q = "ready" /\ new.p = "ready" /\ new.final
         /\ new.linked = row[f].linked
BY ZenonT(30), OwnRow DEF Row, QuarantineState, ProcessingState

LEMMA FinishUploadFits ==
  ASSUME AInv, NEW f \in Files, FinishUpload(f)
  PROVE  AInv'
<1> DEFINE up == [NewUpload EXCEPT !.at = "done"]
           new == [row[f] EXCEPT !.q = "ready", !.p = "ready", !.due = FALSE,
                                 !.quar = FALSE, !.final = TRUE]
<1>1. up \in Upload /\ up.at = "done" /\ up.fresh = FALSE
  BY DoneUpload
<1>2. /\ upload[f].at = "finish" /\ upload[f].fresh
      /\ upload' = [upload EXCEPT ![f] = up] /\ row' = [row EXCEPT ![f] = new]
      /\ remove' = [remove EXCEPT ![f] = StaleRemove(f)]
      /\ worker' = StaleWorkers(<<"file", f>>)
      /\ UNCHANGED <<chatRow, regime, artifact, blob, faults, spoiled>>
  BY DEF FinishUpload, UploadAfter, WriteRow, RemoveAfter
<1>3. new \in Row /\ new.q = "ready" /\ new.p = "ready" /\ new.final
      /\ new.linked = row[f].linked
  BY <1>2, ReadyRow
<1> HIDE DEF up, new
<1>4. /\ blob' = [blob EXCEPT ![f] = blob[f]] /\ blob[f] \in SUBSET Object
      /\ faults' \in 0 .. MaxFaults
      /\ f \notin spoiled => "quarantine" \notin blob[f] /\ "final" \in blob[f]
  BY <1>2, UploadIs, FileTypes DEF UploadFits
<1>5. Closes(f, new, up, blob[f])
  BY <1>1, <1>2, <1>3, <1>4 DEF Closes
<1> QED BY <1>5, UploadEnds

LEMMA FinishUnclearFits ==
  ASSUME AInv, NEW f \in Files, FinishUnclear(f)
  PROVE  AInv'
<1> DEFINE up == [NewUpload EXCEPT !.at = "done"]
           new == [row[f] EXCEPT !.q = "ready", !.p = "ready", !.due = FALSE,
                                 !.quar = FALSE, !.final = TRUE]
           b == blob[f] \ {"final"}
<1>1. up \in Upload /\ up.at = "done" /\ up.fresh = FALSE
  BY DoneUpload
<1>2. /\ upload[f].at = "finish" /\ upload[f].fresh /\ Fault
      /\ upload' = [upload EXCEPT ![f] = up] /\ row' = [row EXCEPT ![f] = new]
      /\ remove' = [remove EXCEPT ![f] = StaleRemove(f)]
      /\ worker' = StaleWorkers(<<"file", f>>)
      /\ blob' = [blob EXCEPT ![f] = b]
      /\ spoiled' = spoiled \cup {f}
      /\ UNCHANGED <<chatRow, regime, artifact>>
  BY DEF FinishUnclear, UploadAfter, WriteRow, RemoveAfter
<1>3. new \in Row /\ new.q = "ready" /\ new.p = "ready" /\ new.final
      /\ new.linked = row[f].linked
  BY <1>2, ReadyRow
<1>4. b \in SUBSET Object /\ b \subseteq blob[f] /\ faults' \in 0 .. MaxFaults
  BY <1>2, UploadIs, FaultsFit
<1> HIDE DEF up, new, b
<1>5. Closes(f, new, up, b)
  BY <1>1, <1>2, <1>3, <1>4 DEF Closes
<1> QED BY <1>5, UploadEnds

-----------------------------------------------------------------------------
(* Session, release, link and removal. *)

\* A step that changes no row, object or task.
LEMMA RestKeeps ==
  ASSUME AInv, UNCHANGED Rest, regime' \in {"missing", "lenient", "strict"},
         chatRow' \in [state : {"active", "deleting"}, cutoff : BOOLEAN],
         chatRow.cutoff => chatRow'.cutoff
  PROVE  AInv'
<1>1. RowsOK'
  BY FileTypes, FileTypesKept DEF AInv, Rest
<1>2. ASSUME NEW f \in Files PROVE FileFits(f)'
  <2>1. FileFits(f)
    BY DEF AInv
  <2>2. /\ Exists(f)' <=> Exists(f)
        /\ Named(f)' = Named(f) /\ Stored(f)' = Stored(f)
        /\ Derivatives(f)' = Derivatives(f) /\ (GivenUp(f)' <=> GivenUp(f))
    BY DEF Rest, Exists, Named, Stored, Derivatives, GivenUp
  <2>3. UploadFits(f)'
    BY <2>1, <2>2 DEF FileFits, UploadFits, Rest
  <2>4. RowFits(f)'
    BY <2>1, <2>2 DEF FileFits, RowFits, Rest
  <2>5. ArtifactFits(f)'
    BY <2>1, <2>2 DEF FileFits, ArtifactFits, Rest
  <2>6. RemoveFits(f)'
    BY <2>1, <2>2 DEF FileFits, RemoveFits, Rest
  <2> QED BY <2>3, <2>4, <2>5, <2>6 DEF FileFits
<1>3. ASSUME NEW w \in Callers PROVE WorkerFits(w)'
  <2>1. WorkerFits(w)
    BY DEF AInv
  <2>2. ASSUME NEW f \in Files
        PROVE  /\ FileCleanupFits(w, f) => FileCleanupFits(w, f)'
               /\ ArtifactCleanupFits(w, f) => ArtifactCleanupFits(w, f)'
               /\ Holds(w, <<"file", f>>)' <=> Holds(w, <<"file", f>>)
               /\ Holds(w, <<"artifact", f>>)' <=> Holds(w, <<"artifact", f>>)
    BY DEF Rest, Exists, Named, Stored, Derivatives, GivenUp, FileCleanupFits,
           ArtifactCleanupFits, Holds
  <2> QED BY <2>1, <2>2 DEF WorkerFits, Rest
<1> QED BY <1>1, <1>2, <1>3 DEF AInv

LEMMA SessionSteps ==
  ASSUME AInv, DeleteSession \/ PassCutoff \/ ChangeRegime
  PROVE  AInv'
<1>1. chatRow \in [state : {"active", "deleting"}, cutoff : BOOLEAN]
      /\ regime \in {"missing", "lenient", "strict"}
  BY FileTypes DEF AInv
<1>2. UNCHANGED Rest /\ regime' \in {"missing", "lenient", "strict"}
  BY <1>1, Constants DEF DeleteSession, PassCutoff, ChangeRegime, Rest
<1>3. chatRow' \in [state : {"active", "deleting"}, cutoff : BOOLEAN]
      /\ (chatRow.cutoff => chatRow'.cutoff)
  BY <1>1 DEF DeleteSession, PassCutoff, ChangeRegime
<1> QED BY <1>2, <1>3, RestKeeps

\* What belongs to f, in hand.
LEMMA InHand ==
  ASSUME AInv, NEW f \in Files
  PROVE  /\ RowsOK /\ FileFits(f)
         /\ row[f] \in Row \cup {Null} /\ artifact[f] \in Artifact \cup {Null}
         /\ blob[f] \in SUBSET Object /\ upload[f] \in Upload /\ remove[f] \in Remove
         /\ worker \in [Callers -> CleanupPass] /\ faults \in 0 .. MaxFaults
BY FileTypes DEF AInv

\* A write of f's row that leaves uploads and objects alone.
Writes(f, new, rm) ==
  /\ new \in Row /\ rm \in Remove
  /\ UNCHANGED <<chatRow, regime, artifact, blob, upload, faults, spoiled>>
  /\ row' = [row EXCEPT ![f] = new] /\ remove' = [remove EXCEPT ![f] = rm]
  /\ worker' \in [Callers -> CleanupPass]

LEMMA RowWritten ==
  ASSUME AInv, NEW f \in Files, NEW new, NEW rm, Writes(f, new, rm)
  PROVE  /\ RowsOK' /\ Elsewhere(f) /\ row'[f] = new /\ remove'[f] = rm
         /\ Exists(f)' /\ Stored(f)' = Stored(f) /\ Derivatives(f)' = Derivatives(f)
         /\ artifact'[f] = artifact[f] /\ ArtifactFits(f)'
<1>1. Touches(f, new, artifact[f], blob[f], upload[f], rm)
  BY InHand, OtherFiles DEF Writes, Touches
<1>2. /\ RowsOK' /\ Elsewhere(f) /\ row'[f] = new /\ remove'[f] = rm
      /\ artifact'[f] = artifact[f] /\ blob'[f] = blob[f]
  BY <1>1, OneFile, InHand
<1>3. Exists(f)' /\ Stored(f)' = Stored(f) /\ Derivatives(f)' = Derivatives(f)
  BY <1>2, Constants DEF Exists, Stored, Derivatives, Writes
<1>4. ArtifactFits(f)'
  BY <1>2, <1>3, InHand DEF FileFits, ArtifactFits
<1> QED BY <1>2, <1>3, <1>4

LEMMA FinalizeUploadFits ==
  ASSUME AInv, NEW f \in Files, FinalizeUpload(f)
  PROVE  AInv'
<1> DEFINE new == [row[f] EXCEPT !.q = "released", !.p = "complete", !.due = FALSE]
<1>1. /\ Exists(f) /\ row[f].q = "ready" /\ row[f].final
      /\ row' = [row EXCEPT ![f] = new] /\ remove' = [remove EXCEPT ![f] = StaleRemove(f)]
      /\ UNCHANGED <<chatRow, regime, artifact, blob, upload, worker, faults, spoiled>>
  BY DEF FinalizeUpload, WriteRow, RemoveAfter
<1>2. /\ new \in Row /\ new.q = "released" /\ new.p = "complete"
      /\ new.final = row[f].final /\ new.quar = row[f].quar
  BY <1>1, InHand DEF Row, QuarantineState, ProcessingState, Exists
<1> HIDE DEF new
<1>3. Writes(f, new, StaleRemove(f))
  BY <1>1, <1>2, InHand, StaleCopies DEF Writes
<1>4. /\ upload[f].at = "done" /\ ~upload[f].fresh /\ ~GivenUp(f)
      /\ row[f].p # "cleanup_in_progress"
      /\ f \notin spoiled => "final" \in blob[f]
  BY <1>1, HandedOver
<1>5. Named(f)' = Named(f)
  <2>1. row'[f] = new /\ Exists(f)'
    BY <1>3, RowWritten
  <2> QED BY <1>1, <1>2, <2>1 DEF Named
<1>6. UploadFits(f)'
  BY <1>1, <1>3, <1>4, <1>5, RowWritten, InHand DEF UploadFits, FileFits
<1>7. RowFits(f)'
  BY <1>1, <1>2, <1>3, <1>4, RowWritten DEF RowFits
<1>8. RemoveFits(f)'
  BY <1>3, <1>4, RowWritten, RemovalGoesStale
<1> QED
  BY <1>1, <1>3, <1>4, <1>6, <1>7, <1>8, RowWritten, UnwatchedStep DEF FileFits

LEMMA SendMessageFits ==
  ASSUME AInv, NEW f \in Files, SendMessageWith(f)
  PROVE  AInv'
<1> DEFINE new == [row[f] EXCEPT !.linked = TRUE]
<1>1. /\ Exists(f) /\ row[f].q = "released"
      /\ remove' = [remove EXCEPT ![f] = StaleRemove(f)]
      /\ UNCHANGED <<chatRow, regime, artifact, blob, upload, worker, faults, spoiled>>
  BY DEF SendMessageWith, RemoveAfter
<1>2. /\ new \in Row /\ new.q = "released" /\ new.p = row[f].p
      /\ new.final = row[f].final /\ new.quar = row[f].quar
  BY <1>1, InHand DEF Row, Exists
<1>3. row' = [row EXCEPT ![f] = new]
  BY InHand, FileTypes DEF SendMessageWith
<1> HIDE DEF new
<1>4. Writes(f, new, StaleRemove(f))
  BY <1>1, <1>2, <1>3, InHand, StaleCopies DEF Writes
<1>5. /\ upload[f].at = "done" /\ ~upload[f].fresh /\ ~GivenUp(f)
      /\ row[f].p \in {"ready", "complete"}
      /\ f \notin spoiled => row[f].final /\ "final" \in blob[f]
  BY <1>1, HandedOver
<1>6. Named(f)' = Named(f)
  <2>1. row'[f] = new /\ Exists(f)'
    BY <1>4, RowWritten
  <2> QED BY <1>1, <1>2, <2>1 DEF Named
<1>7. UploadFits(f)'
  BY <1>1, <1>4, <1>5, <1>6, RowWritten, InHand DEF UploadFits, FileFits
<1>8. RowFits(f)'
  BY <1>1, <1>2, <1>4, <1>5, RowWritten DEF RowFits
<1>9. RemoveFits(f)'
  BY <1>4, <1>5, RowWritten, RemovalGoesStale
<1> QED
  BY <1>1, <1>4, <1>5, <1>7, <1>8, <1>9, RowWritten, UnwatchedStep DEF FileFits

\* Some objects of f go, the final one only if f is given up.
Clears(f, b) ==
  /\ b \in SUBSET blob[f] /\ ("final" \in blob[f] \ b => GivenUp(f))
  /\ UNCHANGED <<chatRow, regime, row, artifact, upload, spoiled>>
  /\ blob' = [blob EXCEPT ![f] = b]

LEMMA ObjectsGo ==
  ASSUME AInv, NEW f \in Files, NEW b, Clears(f, b)
  PROVE  /\ row'[f] = row[f] /\ artifact'[f] = artifact[f] /\ upload'[f] = upload[f]
         /\ blob'[f] = b /\ b \in SUBSET Object
         /\ Exists(f)' <=> Exists(f)
         /\ Named(f)' = Named(f)
         /\ GivenUp(f)' <=> GivenUp(f)
         /\ Stored(f)' \subseteq Stored(f) /\ Derivatives(f)' \subseteq Derivatives(f)
         /\ NothingStored(f) /\ UploadFits(f)' /\ RowFits(f)' /\ ArtifactFits(f)'
<1>1. FileFits(f) /\ b \in SUBSET Object
  BY InHand DEF Clears
<1>2. /\ row'[f] = row[f] /\ artifact'[f] = artifact[f] /\ upload'[f] = upload[f]
      /\ blob'[f] = b
  BY InHand, OtherFiles DEF Clears
<1>3. (Exists(f)' <=> Exists(f)) /\ Named(f)' = Named(f) /\ (GivenUp(f)' <=> GivenUp(f))
  BY <1>2 DEF Exists, Named, GivenUp
<1>4. /\ Derivatives(f)' \subseteq Derivatives(f) /\ Stored(f)' \subseteq Stored(f)
      /\ spoiled' = spoiled /\ chatRow' = chatRow /\ b \subseteq blob[f]
      /\ "final" \in blob[f] /\ "final" \notin b => GivenUp(f)
  BY <1>2 DEF Clears, Derivatives, Stored
<1>5. NothingStored(f)
  BY <1>2, <1>4 DEF NothingStored
<1>6. UploadFits(f)'
  BY <1>1, <1>2, <1>3, <1>4 DEF FileFits, UploadFits, GivenUp
<1>7. RowFits(f)'
  BY <1>1, <1>2, <1>3, <1>4 DEF FileFits, RowFits, GivenUp
<1>8. ArtifactFits(f)'
  BY <1>1, <1>2, <1>3, <1>4 DEF FileFits, ArtifactFits
<1> QED BY <1>1, <1>2, <1>3, <1>4, <1>5, <1>6, <1>7, <1>8

\* A removal that writes no row.
Removes(f, rm, b) ==
  /\ Clears(f, b) /\ rm \in Remove
  /\ UNCHANGED worker
  /\ remove' = [remove EXCEPT ![f] = rm] /\ faults' \in 0 .. MaxFaults

LEMMA RemovalStep ==
  ASSUME AInv, NEW f \in Files, NEW rm, NEW b, Removes(f, rm, b), RemoveFits(f)'
  PROVE  AInv'
<1>1. Clears(f, b) /\ b \in SUBSET Object
  BY ObjectsGo DEF Removes
<1>2. Touches(f, row[f], artifact[f], b, upload[f], rm)
  BY <1>1, InHand, OtherFiles DEF Removes, Clears, Touches
<1>3. RowsOK' /\ Elsewhere(f)
  BY <1>2, OneFile, InHand
<1> QED
  BY <1>1, <1>3, ObjectsGo, QuietStep DEF FileFits, Removes

\* The removal of a file, to be begun again.
LEMMA NewRemoval ==
  NewRemove \in Remove /\ NewRemove.at = "idle" /\ ~NewRemove.fresh /\ NewRemove.refs = {}
BY DEF NewRemove, Remove

LEMMA RemoveReadFits ==
  ASSUME AInv, NEW f \in Files, RemoveRead(f)
  PROVE  AInv'
<1> DEFINE rm == [NewRemove EXCEPT !.at = "read", !.fresh = TRUE]
<1>1. /\ Exists(f) /\ ~row[f].linked /\ row[f].q # "uploading"
      /\ remove' = [remove EXCEPT ![f] = rm]
      /\ UNCHANGED <<chatRow, regime, row, artifact, blob, upload, worker, faults, spoiled>>
  BY DEF RemoveRead, RemoveAfter
<1>2. rm \in Remove /\ rm.at = "read"
  BY DEF NewRemove, Remove
<1> HIDE DEF rm
<1>3. /\ blob' = [blob EXCEPT ![f] = blob[f]] /\ blob[f] \in SUBSET Object
      /\ faults' \in 0 .. MaxFaults
  BY <1>1, InHand, OtherFiles
<1>4. Removes(f, rm, blob[f])
  BY <1>1, <1>2, <1>3 DEF Removes, Clears
<1>5. remove'[f] = rm /\ row'[f] = row[f] /\ (Exists(f)' <=> Exists(f))
  BY <1>1, InHand, OtherFiles DEF Exists
<1>6. RemoveFits(f)'
  BY <1>1, <1>2, <1>5 DEF RemoveFits
<1> QED BY <1>4, <1>6, RemovalStep

LEMMA RemoveMarkFits ==
  ASSUME AInv, NEW f \in Files, RemoveMark(f)
  PROVE  AInv'
<1>1. /\ remove[f].at = "read"
      /\ UNCHANGED <<chatRow, regime, artifact, blob, upload, faults, spoiled>>
  BY DEF RemoveMark
<1>2. CASE remove[f].fresh
  <2> DEFINE new == [row[f] EXCEPT !.token = FALSE, !.q = "deleting", !.p = "deleting",
                                   !.due = FALSE]
             rm == [at |-> "marked", fresh |-> TRUE, refs |-> Named(f)]
  <2>1. /\ row' = [row EXCEPT ![f] = new] /\ remove' = [remove EXCEPT ![f] = rm]
        /\ worker' = StaleWorkers(<<"file", f>>)
    BY <1>2 DEF RemoveMark, WriteRow, RemoveAfter
  <2>2. Exists(f) /\ ~row[f].linked /\ row[f].q # "uploading"
    BY <1>1, <1>2, InHand DEF FileFits, RemoveFits
  <2>3. /\ new \in Row /\ new.q = "deleting" /\ new.linked = row[f].linked
        /\ new.final = row[f].final /\ new.quar = row[f].quar
    BY ZenonT(30), <2>2, InHand DEF Row, QuarantineState, ProcessingState, Exists
  <2>4. rm \in Remove /\ rm.at = "marked" /\ rm.refs = Named(f)
    BY DEF Remove, Named, Object
  <2> HIDE DEF new, rm
  <2>5. Writes(f, new, rm)
    BY <1>1, <2>1, <2>3, <2>4, InHand, StalePasses DEF Writes
  <2>6. Named(f)' = Named(f)
    <3>1. row'[f] = new /\ Exists(f)'
      BY <2>5, RowWritten
    <3> QED BY <2>2, <2>3, <3>1 DEF Named
  <2>7. UploadFits(f)'
    BY <1>1, <2>2, <2>5, <2>6, RowWritten, InHand DEF UploadFits, FileFits
  <2>8. RowFits(f)'
    BY <1>1, <2>2, <2>3, <2>5, RowWritten, InHand DEF RowFits, FileFits
  <2>9. "final" \in Named(f) => GivenUp(f)'
    <3>1. "final" \in Named(f) => row[f].final
      BY DEF Named
    <3>2. row[f].final => upload[f].at = "done"
      BY <2>2, InHand DEF FileFits, RowFits
    <3> QED BY <1>1, <2>3, <2>5, <3>1, <3>2, RowWritten DEF GivenUp
  <2>10. RemoveFits(f)'
    BY <2>2, <2>3, <2>4, <2>5, <2>6, <2>9, RowWritten DEF RemoveFits
  <2>11. GivenUp(f) => GivenUp(f)'
    BY <1>1, <2>3, <2>5, RowWritten DEF GivenUp
  <2> QED
    BY <2>1, <2>5, <2>7, <2>8, <2>10, <2>11, RowWritten, WritingStep DEF FileFits
<1>3. CASE ~remove[f].fresh
  <2>1. remove' = [remove EXCEPT ![f] = NewRemove] /\ UNCHANGED <<row, worker>>
    BY <1>3 DEF RemoveMark, RemoveAfter
  <2>2. /\ blob' = [blob EXCEPT ![f] = blob[f]] /\ blob[f] \in SUBSET Object
        /\ faults' \in 0 .. MaxFaults
    BY <1>1, InHand, OtherFiles
  <2>3. Removes(f, NewRemove, blob[f])
    BY <1>1, <2>1, <2>2, NewRemoval DEF Removes, Clears
  <2>4. remove'[f].at = "idle"
    BY <2>1, InHand, OtherFiles, NewRemoval
  <2>5. RemoveFits(f)'
    BY <2>4 DEF RemoveFits
  <2> QED BY <2>3, <2>5, RemovalStep
<1> QED BY <1>2, <1>3

LEMMA RemoveClearFits ==
  ASSUME AInv, NEW f \in Files, RemoveClear(f)
  PROVE  AInv'
<1>1. PICK ok \in BOOLEAN :
        /\ Deleted(f, remove[f].refs, ok)
        /\ RemoveAfter(f, IF ok THEN [remove[f] EXCEPT !.at = "cleared"] ELSE NewRemove)
  BY DEF RemoveClear
<1>2. /\ remove[f].at = "marked"
      /\ UNCHANGED <<chatRow, regime, row, artifact, upload, worker, spoiled>>
  BY DEF RemoveClear
<1> DEFINE rm == IF ok THEN [remove[f] EXCEPT !.at = "cleared"] ELSE NewRemove
<1>3. /\ rm \in Remove
      /\ ok => rm.at = "cleared" /\ rm.fresh = remove[f].fresh /\ rm.refs = remove[f].refs
      /\ ~ok => rm.at = "idle"
  BY InHand, NewRemoval DEF Remove
<1>4. remove' = [remove EXCEPT ![f] = rm]
  BY <1>1 DEF RemoveAfter
<1> HIDE DEF rm
<1>5. PICK b \in SUBSET blob[f] :
        /\ blob' = [blob EXCEPT ![f] = b]
        /\ blob[f] \ remove[f].refs \subseteq b
        /\ ok => b = blob[f] \ remove[f].refs
  BY SMTT(30), <1>1, InHand, Deletes
<1>6. b \in SUBSET Object /\ faults' \in 0 .. MaxFaults
  BY <1>1, <1>5, InHand, Deletes
<1>7. RemoveFits(f) /\ UploadFits(f)
  BY InHand DEF FileFits
<1>8. Removes(f, rm, b)
  BY <1>2, <1>3, <1>4, <1>5, <1>6, <1>7 DEF Removes, Clears, RemoveFits
<1>9. /\ row'[f] = row[f] /\ upload'[f] = upload[f] /\ remove'[f] = rm /\ blob'[f] = b
      /\ spoiled' = spoiled
  <2>1. RowsOK
    BY InHand
  <2>2. [remove EXCEPT ![f] = rm][f] = rm /\ [blob EXCEPT ![f] = b][f] = b
    BY <2>1, OtherFiles
  <2> QED BY ONLY <1>2, <1>4, <1>5, <2>2
<1>10. (Exists(f)' <=> Exists(f)) /\ Named(f)' = Named(f) /\ (GivenUp(f)' <=> GivenUp(f))
  BY <1>9 DEF Exists, Named, GivenUp
<1>11. ASSUME ok, remove[f].refs = Named(f), upload[f].at = "done", f \notin spoiled
       PROVE  Stored(f)' = {}
  BY <1>5, <1>7, <1>9, <1>11 DEF UploadFits, Stored
<1>12. RemoveFits(f)'
  BY <1>2, <1>3, <1>7, <1>9, <1>10, <1>11 DEF RemoveFits
<1> QED BY <1>8, <1>12, RemovalStep

LEMMA RemoveFinishFits ==
  ASSUME AInv, NEW f \in Files, RemoveFinish(f)
  PROVE  AInv'
<1>1. /\ remove[f].at = "cleared" /\ remove' = [remove EXCEPT ![f] = NewRemove]
      /\ UNCHANGED <<chatRow, regime, artifact, blob, upload, faults, spoiled>>
  BY DEF RemoveFinish, RemoveAfter
<1>2. remove'[f] = NewRemove
  BY <1>1, InHand, OtherFiles
<1>3. RemoveFits(f)'
  BY <1>2, NewRemoval DEF RemoveFits
<1>4. CASE remove[f].fresh /\ chatRow.state # "deleting"
  <2> DEFINE new == [row[f] EXCEPT !.q = "deleted", !.p = "complete", !.due = FALSE,
                                   !.quar = FALSE, !.final = FALSE, !.gone = TRUE]
  <2>1. row' = [row EXCEPT ![f] = new] /\ worker' = StaleWorkers(<<"file", f>>)
    BY <1>4 DEF RemoveFinish, WriteRow
  <2>2. /\ Exists(f) /\ ~row[f].linked /\ row[f].q = "deleting"
        /\ upload[f].at = "done" /\ f \notin spoiled => Stored(f) = {}
    BY <1>1, <1>4, InHand DEF FileFits, RemoveFits
  <2>3. /\ new \in Row /\ new.q = "deleted" /\ new.linked = row[f].linked
        /\ ~new.final
    BY ZenonT(30), <2>2, InHand DEF Row, QuarantineState, ProcessingState, Exists
  <2> HIDE DEF new
  <2>4. Writes(f, new, NewRemove)
    BY <1>1, <2>1, <2>3, NewRemoval, InHand, StalePasses DEF Writes
  <2>5. UploadFits(f)'
    BY <1>1, <2>2, <2>4, RowWritten, InHand DEF UploadFits, FileFits
  <2>6. RowFits(f)'
    BY <1>1, <2>2, <2>3, <2>4, RowWritten, InHand DEF RowFits, FileFits
  <2>7. GivenUp(f) => GivenUp(f)'
    BY <1>1, <2>3, <2>4, RowWritten DEF GivenUp
  <2> QED BY <1>3, <2>1, <2>4, <2>5, <2>6, <2>7, RowWritten, WritingStep DEF FileFits
<1>5. CASE ~(remove[f].fresh /\ chatRow.state # "deleting")
  <2>1. UNCHANGED <<row, worker>>
    BY <1>5 DEF RemoveFinish
  <2>2. /\ blob' = [blob EXCEPT ![f] = blob[f]] /\ blob[f] \in SUBSET Object
        /\ faults' \in 0 .. MaxFaults
    BY <1>1, InHand, OtherFiles
  <2>3. Removes(f, NewRemove, blob[f])
    BY <1>1, <2>1, <2>2, NewRemoval DEF Removes, Clears
  <2> QED BY <1>3, <2>3, RemovalStep
<1> QED BY <1>4, <1>5

LEMMA RemoveCrashFits ==
  ASSUME AInv, NEW f \in Files, RemoveCrash(f)
  PROVE  AInv'
<1>1. /\ Fault /\ remove' = [remove EXCEPT ![f] = NewRemove]
      /\ UNCHANGED <<chatRow, regime, row, artifact, blob, upload, worker, spoiled>>
  BY DEF RemoveCrash, RemoveAfter
<1>2. /\ blob' = [blob EXCEPT ![f] = blob[f]] /\ blob[f] \in SUBSET Object
      /\ faults' \in 0 .. MaxFaults
  BY <1>1, InHand, OtherFiles, FaultsFit
<1>3. Removes(f, NewRemove, blob[f])
  BY <1>1, <1>2, NewRemoval DEF Removes, Clears
<1>4. remove'[f] = NewRemove
  BY <1>1, InHand, OtherFiles
<1>5. RemoveFits(f)'
  BY <1>4, NewRemoval DEF RemoveFits
<1> QED BY <1>3, <1>5, RemovalStep

\* A step that changes nothing but a deadline of f.
LEMMA DeadlinePasses ==
  ASSUME AInv, NEW f \in Files, Elsewhere(f), RowsOK',
         UNCHANGED <<blob, upload, remove, worker, spoiled>>,
         Exists(f)' <=> Exists(f),
         Exists(f) => /\ row'[f].q = row[f].q /\ row'[f].p = row[f].p
                      /\ row'[f].linked = row[f].linked
                      /\ row'[f].quar = row[f].quar /\ row'[f].final = row[f].final,
         artifact'[f] = Null <=> artifact[f] = Null,
         artifact[f] # Null => artifact'[f].c = artifact[f].c
  PROVE  AInv'
<1>1. FileFits(f) /\ \A g \in Files \ {f} : FileFits(g)'
  BY ElsewhereFits DEF AInv
<1>2. /\ Named(f)' = Named(f) /\ Stored(f)' = Stored(f) /\ Derivatives(f)' = Derivatives(f)
      /\ GivenUp(f)' <=> GivenUp(f)
      /\ chatRow' = chatRow
  BY DEF Exists, Named, Stored, Derivatives, GivenUp, Elsewhere
<1>3. UploadFits(f)'
  BY <1>1, <1>2 DEF FileFits, UploadFits
<1>4. RowFits(f)'
  BY <1>1, <1>2 DEF FileFits, RowFits
<1>5. ArtifactFits(f)'
  BY <1>1, <1>2 DEF FileFits, ArtifactFits
<1>6. RemoveFits(f)'
  BY <1>1, <1>2 DEF FileFits, RemoveFits
<1>7. ASSUME NEW w \in Callers PROVE WorkerFits(w)'
  <2>1. WorkerFits(w) /\ GoesOn(w)
    BY DEF AInv, GoesOn
  <2>2. ASSUME Holds(w, <<"file", f>>), worker[w].fresh PROVE Cleaning(w, f)'
    BY <1>2, <2>1, <2>2 DEF WorkerFits, Holds, FileCleanupFits, Cleaning
  <2>3. ASSUME Holds(w, <<"artifact", f>>), worker[w].fresh PROVE Taking(w, f)'
    BY <1>2, <2>1, <2>3 DEF WorkerFits, Holds, ArtifactCleanupFits, Taking
  <2> QED BY <1>2, <2>1, <2>2, <2>3, PassGoesOn
<1> QED BY <1>1, <1>3, <1>4, <1>5, <1>6, <1>7 DEF AInv, FileFits

LEMMA ElapseFits ==
  ASSUME AInv, NEW f \in Files, Elapse(f)
  PROVE  AInv'
<1>1. UNCHANGED <<chatRow, regime, blob, upload, remove, worker, spoiled>>
      /\ faults' \in 0 .. MaxFaults
  <2>1. \A item : Overrun(item) => faults' \in 0 .. MaxFaults
    BY FaultsFit, InHand DEF Overrun
  <2> QED BY <2>1 DEF Elapse
<1>2. ASSUME NEW r \in Row \cup {Null}, NEW a \in Artifact \cup {Null},
             row' = [row EXCEPT ![f] = r], artifact' = [artifact EXCEPT ![f] = a]
      PROVE  RowsOK' /\ Elsewhere(f) /\ row'[f] = r /\ artifact'[f] = a
  <2>1. Touches(f, r, a, blob[f], upload[f], remove[f])
    BY <1>1, <1>2, InHand, OtherFiles DEF Touches
  <2> QED BY <2>1, InHand, OneFile
<1>3. CASE Exists(f) /\ row' = [row EXCEPT ![f].due = TRUE] /\ UNCHANGED artifact
  <2> DEFINE r == [row[f] EXCEPT !.due = TRUE]
  <2>1. /\ r \in Row /\ r.q = row[f].q /\ r.p = row[f].p /\ r.linked = row[f].linked
        /\ r.quar = row[f].quar /\ r.final = row[f].final
    BY <1>3, InHand DEF Row, Exists
  <2>2. row' = [row EXCEPT ![f] = r] /\ artifact' = [artifact EXCEPT ![f] = artifact[f]]
    BY <1>3, InHand, OtherFiles
  <2> HIDE DEF r
  <2>3. RowsOK' /\ Elsewhere(f) /\ row'[f] = r /\ artifact'[f] = artifact[f]
    BY <1>2, <2>1, <2>2, InHand
  <2>4. Exists(f)'
    BY <2>1, <2>3, Constants DEF Exists
  <2> QED BY <1>1, <1>3, <2>1, <2>3, <2>4, DeadlinePasses
<1>4. CASE artifact[f] # Null /\ artifact' = [artifact EXCEPT ![f].due = TRUE] /\ UNCHANGED row
  <2> DEFINE a == [artifact[f] EXCEPT !.due = TRUE]
  <2>1. a \in Artifact /\ a.c = artifact[f].c
    BY <1>4, InHand DEF Artifact
  <2>2. artifact' = [artifact EXCEPT ![f] = a] /\ row' = [row EXCEPT ![f] = row[f]]
    BY <1>4, InHand, OtherFiles
  <2> HIDE DEF a
  <2>3. RowsOK' /\ Elsewhere(f) /\ row'[f] = row[f] /\ artifact'[f] = a
    BY <1>2, <2>1, <2>2, InHand
  <2>4. (Exists(f)' <=> Exists(f)) /\ artifact'[f] # Null
    BY <2>1, <2>3, Constants DEF Exists
  <2> QED BY <1>1, <1>4, <2>1, <2>3, <2>4, DeadlinePasses
<1> QED BY <1>3, <1>4 DEF Elapse

LEMMA DeriveFits ==
  ASSUME AInv, NEW f \in Files, Derive(f)
  PROVE  AInv'
<1> DEFINE a == [c |-> "none", due |-> FALSE]
           b == blob[f] \cup {"derived", "provider"}
<1>1. /\ artifact[f] = Null /\ Exists(f) /\ row[f].q = "released"
      /\ artifact' = [artifact EXCEPT ![f] = a]
      /\ UNCHANGED <<chatRow, regime, row, upload, remove, worker, faults, spoiled>>
  BY DEF Derive
<1>2. /\ a \in Artifact /\ a.c = "none" /\ b \in SUBSET Object
      /\ blob' = [blob EXCEPT ![f] = b]
      /\ b \cap {"quarantine", "final"} = blob[f] \cap {"quarantine", "final"}
  BY InHand DEF Derive, Artifact, ArtifactState, Object
<1> HIDE DEF a, b
<1>3. Touches(f, row[f], a, b, upload[f], remove[f])
  BY <1>1, <1>2, InHand, OtherFiles DEF Touches
<1>4. /\ RowsOK' /\ Elsewhere(f) /\ row'[f] = row[f] /\ artifact'[f] = a /\ blob'[f] = b
      /\ upload'[f] = upload[f] /\ remove'[f] = remove[f]
  BY <1>3, OneFile, InHand
<1>5. /\ Exists(f)' <=> Exists(f)
      /\ Named(f)' = Named(f) /\ Stored(f)' = Stored(f) /\ (GivenUp(f)' <=> GivenUp(f))
      /\ "final" \in b <=> "final" \in blob[f]
      /\ "quarantine" \in b <=> "quarantine" \in blob[f]
  BY <1>2, <1>4 DEF Exists, Named, Stored, GivenUp
<1>6. artifact'[f] # Null /\ artifact'[f].c = "none"
  BY <1>2, <1>4, Constants
<1>7. UploadFits(f)'
  BY <1>1, <1>4, <1>5, InHand DEF FileFits, UploadFits
<1>8. RowFits(f)'
  BY <1>1, <1>4, <1>5, InHand DEF FileFits, RowFits
<1>9. ArtifactFits(f)'
  BY <1>1, <1>5, <1>6 DEF ArtifactFits
<1>10. RemoveFits(f)'
  BY <1>1, <1>4, <1>5, InHand DEF FileFits, RemoveFits
<1>11. ASSUME NEW w \in Callers PROVE WorkerFits(w)'
  <2>1. WorkerFits(w) /\ GoesOn(w)
    BY <1>1 DEF AInv, GoesOn
  <2>2. ASSUME Holds(w, <<"file", f>>), worker[w].fresh PROVE Cleaning(w, f)'
    BY <1>1, <1>4, <1>5, <2>1, <2>2 DEF WorkerFits, Holds, FileCleanupFits, Cleaning
  <2>3. ~(Holds(w, <<"artifact", f>>) /\ worker[w].fresh)
    BY <1>1, <2>1 DEF WorkerFits, Holds, ArtifactCleanupFits
  <2> QED BY <1>1, <1>4, <1>5, <2>1, <2>2, <2>3, PassGoesOn
<1>12. \A g \in Files \ {f} : FileFits(g)'
  BY <1>4, ElsewhereFits
<1> QED BY <1>4, <1>7, <1>8, <1>9, <1>10, <1>11, <1>12 DEF AInv, FileFits

-----------------------------------------------------------------------------
(* Cleanup passes. *)

\* Only the pass of w changes.
LEMMA PassAlone ==
  ASSUME AInv, NEW w \in Callers, NEW wk \in CleanupPass,
         worker' = [worker EXCEPT ![w] = wk], wk.at \in {"idle", "next"},
         UNCHANGED <<chatRow, regime, row, artifact, blob, upload, remove, spoiled>>,
         faults' \in 0 .. MaxFaults
  PROVE  AInv'
<1>1. worker \in [Callers -> CleanupPass] /\ RowsOK
  BY FileTypes DEF AInv
<1>2. RowsOK'
  BY <1>1, FileTypes, FileTypesKept
<1>3. ASSUME NEW f \in Files PROVE FileFits(f)'
  <2>1. FileFits(f)
    BY DEF AInv
  <2>2. /\ Exists(f)' <=> Exists(f)
        /\ Named(f)' = Named(f) /\ Stored(f)' = Stored(f)
        /\ Derivatives(f)' = Derivatives(f) /\ (GivenUp(f)' <=> GivenUp(f))
    BY DEF Exists, Named, Stored, Derivatives, GivenUp
  <2>3. UploadFits(f)' /\ RowFits(f)'
    BY <2>1, <2>2 DEF FileFits, UploadFits, RowFits
  <2>4. ArtifactFits(f)' /\ RemoveFits(f)'
    BY <2>1, <2>2 DEF FileFits, ArtifactFits, RemoveFits
  <2> QED BY <2>3, <2>4 DEF FileFits
<1>4. ASSUME NEW v \in Callers PROVE WorkerFits(v)'
  <2>1. CASE v = w
    BY <1>1, <2>1 DEF WorkerFits
  <2>2. CASE v # w
    <3>1. WorkerFits(v) /\ worker'[v] = worker[v]
      BY <1>1, <2>2 DEF AInv
    <3>2. ASSUME NEW f \in Files
          PROVE  /\ FileCleanupFits(v, f) => FileCleanupFits(v, f)'
                 /\ ArtifactCleanupFits(v, f) => ArtifactCleanupFits(v, f)'
                 /\ Holds(v, <<"file", f>>)' <=> Holds(v, <<"file", f>>)
                 /\ Holds(v, <<"artifact", f>>)' <=> Holds(v, <<"artifact", f>>)
      BY <3>1 DEF Exists, Named, Stored, Derivatives, GivenUp, FileCleanupFits,
             ArtifactCleanupFits, Holds
    <3> QED BY <3>1, <3>2 DEF WorkerFits
  <2> QED BY <2>1, <2>2
<1> QED BY <1>2, <1>3, <1>4 DEF AInv

\* The candidates are files.
LEMMA CandidatesFit ==
  /\ Queue("artifact", ArtifactCandidates) \in QueueOf
  /\ Len(ArtifactCandidates) \in 0 .. Batch
  /\ \A n \in Nat : Queue("file", Candidates(n)) \in QueueOf
<1>1. PICK S \in SUBSET Files : ArtifactCandidates = InOrder(Oldest(S, Batch))
  <2> DEFINE Class(k) == {f \in Files : artifact[f] # Null /\ artifact[f].c =
               <<"cleanup_required", "cleanup_backoff", "cleanup_in_progress">>[k]}
             Found(k) == {f \in Oldest(Class(k), Batch) : ArtifactEligible(f)}
             Asked(k) == Cardinality(UNION {Found(j) : j \in 1 .. k - 1}) < Batch
             T == UNION {Found(k) : k \in {j \in 1 .. 3 : Asked(j)}}
  <2>1. \A k : Found(k) \subseteq Files
    BY DEF Oldest
  <2>2. T \subseteq Files
    <3> HIDE DEF Found, Asked
    <3> QED BY <2>1
  <2>3. ArtifactCandidates = InOrder(Oldest(T, Batch))
    BY DEF ArtifactCandidates
  <2> HIDE DEF T
  <2> QED BY <2>2, <2>3
<1>2. Batch \in Nat
  BY Constants
<1>3. /\ Oldest(S, Batch) \in SUBSET Files
      /\ Cardinality(Oldest(S, Batch)) \in 0 .. Batch
  BY <1>2, OldestAreFew
<1>4. Len(ArtifactCandidates) \in 0 .. Batch
  BY <1>1, <1>3, OrderFits
<1>5. Queue("artifact", ArtifactCandidates) \in QueueOf
  BY <1>1, <1>3, QueueFits
<1>6. ASSUME NEW n \in Nat PROVE Queue("file", Candidates(n)) \in QueueOf
  <2>1. Windows(n) \in SUBSET Files
    <3> DEFINE Class(k) == {f \in Files : Exists(f) /\
                 CASE k = 1 -> row[f].q = "pending_upload"
                   [] k = 2 -> row[f].q = "uploading"
                   [] k = 3 -> row[f].q = "deleting"
                   [] k = 4 -> row[f].p \in {"cleanup_required", "cleanup_backoff", "cleanup_in_progress"}}
               Found(k) == {f \in Oldest(Class(k), n) : Eligible(f)}
               Asked(k) == Cardinality(UNION {Found(j) : j \in 1 .. k - 1}) < n
               T == UNION {Found(k) : k \in {j \in 1 .. 4 : Asked(j)}}
    <3>1. \A k : Found(k) \subseteq Files
      BY DEF Oldest
    <3>2. T \subseteq Files
      <4> HIDE DEF Found, Asked
      <4> QED BY <3>1
    <3>3. Windows(n) = T
      BY DEF Windows
    <3> HIDE DEF T
    <3> QED BY <3>2, <3>3
  <2>2. Oldest(Windows(n), n) \in SUBSET Files
    BY <2>1, OldestAreFew
  <2> QED BY <2>2, QueueFits DEF Candidates
<1> QED BY <1>4, <1>5, <1>6

LEMMA BeginPassFits ==
  ASSUME AInv, NEW w \in Callers, BeginPass(w)
  PROVE  AInv'
<1> DEFINE wk == [NewWorker EXCEPT
             !.at = "next", !.queue = Queue("artifact", ArtifactCandidates),
             !.left = Batch - Len(ArtifactCandidates)]
<1>1. Batch - Len(ArtifactCandidates) \in 0 .. Batch
  BY CandidatesFit, Constants
<1>2. wk \in CleanupPass /\ wk.at = "next"
  BY <1>1, CandidatesFit, NewRows DEF CleanupPass
<1>3. /\ worker' = [worker EXCEPT ![w] = wk]
      /\ UNCHANGED <<chatRow, regime, row, artifact, blob, upload, remove, faults, spoiled>>
  BY DEF BeginPass
<1> HIDE DEF wk
<1>4. faults' \in 0 .. MaxFaults
  BY <1>3, FileTypes DEF AInv
<1> QED BY <1>2, <1>3, <1>4, PassAlone

LEMMA NextPhaseFits ==
  ASSUME AInv, NEW w \in Callers, NextPhase(w)
  PROVE  AInv'
<1>1. worker[w] \in CleanupPass /\ faults \in 0 .. MaxFaults
  BY FileTypes DEF AInv
<1> DEFINE wk == IF worker[w].phase = "artifact" /\ worker[w].left > 0
       THEN [worker[w] EXCEPT !.phase = "file", !.queue = Queue("file", Candidates(worker[w].left))]
       ELSE NewWorker
<1>2. wk \in CleanupPass /\ wk.at \in {"idle", "next"}
  <2>1. worker[w].left \in Nat /\ worker[w].at = "next"
    BY <1>1, Constants DEF CleanupPass, NextPhase
  <2>2. Queue("file", Candidates(worker[w].left)) \in QueueOf
    BY <2>1, CandidatesFit
  <2>3. NewWorker.at = "idle"
    BY DEF NewWorker
  <2> QED BY <1>1, <2>1, <2>2, <2>3, NewRows DEF CleanupPass
<1>3. /\ worker' = [worker EXCEPT ![w] = wk]
      /\ UNCHANGED <<chatRow, regime, row, artifact, blob, upload, remove, faults, spoiled>>
  BY DEF NextPhase
<1> HIDE DEF wk
<1> QED BY <1>1, <1>2, <1>3, PassAlone

LEMMA WorkerCrashFits ==
  ASSUME AInv, NEW w \in Callers, WorkerCrash(w)
  PROVE  AInv'
<1>1. /\ worker' = [worker EXCEPT ![w] = NewWorker] /\ faults' \in 0 .. MaxFaults
      /\ UNCHANGED <<chatRow, regime, row, artifact, blob, upload, remove, spoiled>>
  BY FaultsFit DEF WorkerCrash, AInv
<1>2. NewWorker.at = "idle"
  BY DEF NewWorker
<1> QED BY <1>1, <1>2, NewRows, PassAlone

\* A pass that goes on to its next candidate.
LEMMA Advances ==
  ASSUME AInv, NEW w \in Callers, worker[w].queue # <<>>
  PROVE  Advanced(w) \in CleanupPass /\ Advanced(w).at = "next"
<1>1. worker[w] \in CleanupPass
  BY FileTypes DEF AInv
<1>2. Tail(worker[w].queue) \in QueueOf
  BY <1>1, QueueHead DEF CleanupPass
<1> QED BY <1>1, <1>2, NewRows DEF Advanced, CleanupPass

\* The candidate in hand is a file or the artifact of one.
LEMMA CandidateIs ==
  ASSUME AInv, NEW w \in Callers, worker[w].queue # <<>>
  PROVE  \E f \in Files : Head(worker[w].queue) \in {<<"file", f>>, <<"artifact", f>>}
<1>1. worker[w] \in CleanupPass
  BY FileTypes DEF AInv
<1>2. Head(worker[w].queue) \in Items
  BY <1>1, QueueHead DEF CleanupPass
<1> QED BY <1>2 DEF Items

\* The pass of w becomes wk, all others that hold the item become stale.
HandsOver(w, wk, kind, f) ==
  worker' = [StaleWorkers(<<kind, f>>) EXCEPT ![w] = wk]

\* Passes other than w's after a step of w on f.
LEMMA OtherPasses ==
  ASSUME AInv, NEW f \in Files, Elsewhere(f), GivenUp(f) => GivenUp(f)',
         NEW w \in Callers, NEW wk, NEW kind \in {"file", "artifact"},
         HandsOver(w, wk, kind, f),
         kind = "file" => artifact'[f] = artifact[f] /\ Derivatives(f)' \subseteq Derivatives(f),
         kind = "artifact" =>
           /\ row'[f] = row[f] /\ upload'[f] = upload[f] /\ blob'[f] = blob[f]
           /\ spoiled' = spoiled,
         NEW v \in Callers \ {w}
  PROVE  WorkerFits(v)'
<1>1. WorkerFits(v) /\ RowsOK
  BY DEF AInv
<1>2. worker'[v] = StaleWorkers(<<kind, f>>)[v]
  BY <1>1, StalePasses DEF HandsOver
<1>3. GoesOn(v) /\ (worker'[v].fresh => ~Holds(v, <<kind, f>>))
  BY <1>1, <1>2, StalePasses DEF GoesOn
<1>4. CASE kind = "file"
  BY <1>3, <1>4, PassGoesOn, TakingGoesOn
<1>5. CASE kind = "artifact"
  <2>1. ASSUME Holds(v, <<"file", f>>), worker'[v].fresh PROVE Cleaning(v, f)'
    <3>1. FileCleanupFits(v, f) /\ worker[v].fresh
      BY <1>1, <1>3, <2>1 DEF WorkerFits, Holds, GoesOn
    <3>2. Named(f)' = Named(f) /\ (Exists(f)' <=> Exists(f)) /\ Stored(f)' = Stored(f)
      BY <1>5 DEF Named, Exists, Stored
    <3> QED BY <1>3, <1>5, <3>1, <3>2 DEF FileCleanupFits, Cleaning, GoesOn
  <2> QED BY <1>3, <1>5, <2>1, PassGoesOn
<1> QED BY <1>4, <1>5

LEMMA DeleteObjectsFits ==
  ASSUME AInv, NEW w \in Callers, DeleteObjects(w)
  PROVE  AInv'
<1>1. PICK ok \in BOOLEAN :
        /\ Deleted(Head(worker[w].queue)[2], worker[w].refs, ok)
        /\ worker' = [worker EXCEPT ![w].at = "deleted", ![w].ok = ok]
  BY DEF DeleteObjects
<1>2. /\ worker[w].at = "claimed"
      /\ UNCHANGED <<chatRow, regime, row, artifact, upload, remove, spoiled>>
  BY DEF DeleteObjects
<1>3. WorkerFits(w) /\ worker[w].queue # <<>> /\ RowsOK /\ worker \in [Callers -> CleanupPass]
  BY <1>2, FileTypes DEF AInv, WorkerFits
<1>4. PICK f \in Files : Head(worker[w].queue) \in {<<"file", f>>, <<"artifact", f>>}
  BY <1>3, CandidateIs
<1>5. Head(worker[w].queue)[2] = f
  BY <1>4
<1>6. PICK b \in SUBSET blob[f] :
        /\ blob' = [blob EXCEPT ![f] = b]
        /\ blob[f] \ worker[w].refs \subseteq b
        /\ ok => b = blob[f] \ worker[w].refs
  <2>1. Deleted(f, worker[w].refs, ok)
    BY <1>1, <1>5
  <2>2. RowsOK
    BY <1>3
  <2>3. \E b \in SUBSET blob[f] :
              /\ blob' = [blob EXCEPT ![f] = b]
              /\ blob[f] \ worker[w].refs \subseteq b
              /\ ok => b = blob[f] \ worker[w].refs
    BY <2>1, <2>2, Deletes, SMTT(60)
  <2> QED BY <2>3
<1>7. faults' \in 0 .. MaxFaults
  BY <1>1, <1>3, <1>5, Deletes
<1> DEFINE wk == [worker[w] EXCEPT !.at = "deleted", !.ok = ok]
<1>8. /\ worker' = [worker EXCEPT ![w] = wk] /\ wk \in CleanupPass
      /\ wk.at = "deleted" /\ wk.ok = ok /\ wk.queue = worker[w].queue
      /\ wk.refs = worker[w].refs /\ wk.fresh = worker[w].fresh
  BY <1>1, <1>3 DEF CleanupPass
<1> HIDE DEF wk
<1>9. /\ Holds(w, <<"file", f>>) => FileCleanupFits(w, f)
      /\ Holds(w, <<"artifact", f>>) => ArtifactCleanupFits(w, f)
      /\ Holds(w, <<"file", f>>) \/ Holds(w, <<"artifact", f>>)
  BY <1>2, <1>3, <1>4 DEF WorkerFits, Holds
<1>10. "final" \in worker[w].refs => GivenUp(f)
  BY <1>9 DEF FileCleanupFits, ArtifactCleanupFits
<1>11. Clears(f, b)
  BY <1>2, <1>6, <1>10 DEF Clears
<1>12. /\ row'[f] = row[f] /\ artifact'[f] = artifact[f] /\ upload'[f] = upload[f]
       /\ blob'[f] = b /\ b \in SUBSET Object /\ remove'[f] = remove[f]
       /\ Exists(f)' <=> Exists(f)
       /\ Named(f)' = Named(f)
       /\ GivenUp(f)' <=> GivenUp(f)
       /\ Stored(f)' \subseteq Stored(f) /\ Derivatives(f)' \subseteq Derivatives(f)
       /\ NothingStored(f) /\ UploadFits(f)' /\ RowFits(f)' /\ ArtifactFits(f)'
  BY <1>2, <1>11, ObjectsGo
<1>13. RemoveFits(f)'
  BY <1>12, RemovalGoesOn
<1>14. RowsOK' /\ Elsewhere(f)
  <2>1. worker' \in [Callers -> CleanupPass]
    BY <1>3, <1>8
  <2>2. Touches(f, row[f], artifact[f], b, upload[f], remove[f])
    BY <1>2, <1>6, <1>7, <1>12, <2>1, InHand, OtherFiles DEF Touches
  <2> QED BY <1>3, <2>2, OneFile
<1>15. ASSUME NEW v \in Callers \ {w} PROVE WorkerFits(v)'
  <2>1. WorkerFits(v) /\ worker'[v] = worker[v]
    BY <1>3, <1>8 DEF AInv
  <2>2. GoesOn(v)
    BY <2>1 DEF GoesOn
  <2>3. ASSUME Holds(v, <<"file", f>>), worker[v].fresh PROVE Cleaning(v, f)'
    BY <1>2, <1>12, <2>1, <2>3 DEF WorkerFits, Holds, FileCleanupFits, Cleaning
  <2> QED BY <1>12, <1>14, <2>1, <2>2, <2>3, PassGoesOn, TakingGoesOn
<1>16. WorkerFits(w)'
  <2>1. worker'[w] = wk
    BY <1>3, <1>8
  <2>2. ASSUME NEW item PROVE Holds(w, item)' <=> Holds(w, item)
    BY <1>2, <1>8, <2>1 DEF Holds
  <2>3. ASSUME Holds(w, <<"file", f>>) PROVE FileCleanupFits(w, f)'
    <3>1. FileCleanupFits(w, f)
      BY <1>9, <2>3
    <3>2. ASSUME ok, worker[w].fresh, upload[f].at = "done", f \notin spoiled
          PROVE  Stored(f)' = {}
      <4>1. Stored(f) \subseteq Named(f) /\ worker[w].refs = Named(f)
        BY <3>1, <3>2, InHand DEF FileFits, UploadFits, FileCleanupFits
      <4> QED BY <1>6, <1>12, <3>2, <4>1 DEF Stored
    <3> QED BY <1>2, <1>8, <1>12, <2>1, <3>1, <3>2 DEF FileCleanupFits
  <2>4. ASSUME Holds(w, <<"artifact", f>>) PROVE ArtifactCleanupFits(w, f)'
    <3>1. ArtifactCleanupFits(w, f)
      BY <1>9, <2>4
    <3>2. ASSUME ok, worker[w].fresh PROVE Derivatives(f)' = {}
      BY <1>6, <1>12, <3>1, <3>2 DEF ArtifactCleanupFits, Derivatives
    <3> QED BY <1>8, <1>12, <2>1, <3>1, <3>2 DEF ArtifactCleanupFits
  <2>5. ASSUME NEW g \in Files
        PROVE  /\ Holds(w, <<"file", g>>) => g = f
               /\ Holds(w, <<"artifact", g>>) => g = f
    BY <1>4 DEF Holds
  <2> QED BY <1>3, <1>8, <2>1, <2>2, <2>3, <2>4, <2>5 DEF WorkerFits
<1>17. \A g \in Files \ {f} : FileFits(g)'
  BY <1>14, ElsewhereFits
<1> QED BY <1>12, <1>13, <1>14, <1>15, <1>16, <1>17 DEF AInv, FileFits

\* A file that is eligible is not handed over.
LEMMA EligibleIsNotHandedOver ==
  ASSUME AInv, NEW f \in Files, Eligible(f)
  PROVE  Exists(f) /\ row[f].q \notin {"ready", "released"}
BY HandedOver DEF Eligible

LEMMA ClaimFileFits ==
  ASSUME AInv, NEW w \in Callers, ClaimCleanup(w), worker[w].queue # <<>>,
         NEW f \in Files, Head(worker[w].queue) = <<"file", f>>, FileClaimable(f),
         NEW claimed,
         claimed = [worker[w] EXCEPT !.at = "claimed", !.fresh = TRUE, !.refs = Named(f)],
         worker' = [StaleWorkers(<<"file", f>>) EXCEPT ![w] = claimed],
         WriteRow(f, [row[f] EXCEPT !.token = FALSE, !.due = FALSE, !.gen = TRUE,
                                    !.p = "cleanup_in_progress"]),
         UploadAfter(f, StaleUpload(f)), RemoveAfter(f, StaleRemove(f)),
         UNCHANGED <<chatRow, regime, artifact, blob, faults, spoiled>>
  PROVE  AInv'
<1> DEFINE new == [row[f] EXCEPT !.token = FALSE, !.due = FALSE, !.gen = TRUE,
                                 !.p = "cleanup_in_progress"]
<1>1. /\ Exists(f) /\ row[f].q \notin {"ready", "released"} /\ row[f] \in Row
      /\ RowsOK /\ FileFits(f)
  BY EligibleIsNotHandedOver, InHand DEF FileClaimable, Exists
<1>2. /\ new \in Row /\ new.p = "cleanup_in_progress" /\ new.q = row[f].q
      /\ new.linked = row[f].linked /\ new.final = row[f].final /\ new.quar = row[f].quar
  BY <1>1 DEF Row, ProcessingState
<1>3. row' = [row EXCEPT ![f] = new]
  BY DEF WriteRow
<1> HIDE DEF new
<1>4. /\ claimed \in CleanupPass /\ claimed.at = "claimed" /\ claimed.refs = Named(f)
      /\ claimed.queue = worker[w].queue
  BY ZenonT(90), <1>1, FileTypes DEF CleanupPass, Named, Object
<1>5. /\ StaleUpload(f) \in Upload /\ StaleUpload(f).fresh = FALSE
      /\ StaleUpload(f).at = upload[f].at
      /\ StaleRemove(f) \in Remove
  BY <1>1, StaleCopies
<1>6. Touches(f, new, artifact[f], blob[f], StaleUpload(f), StaleRemove(f))
  <2>1. worker' \in [Callers -> CleanupPass]
    BY <1>1, <1>4, StalePasses
  <2>2. /\ artifact' = [artifact EXCEPT ![f] = artifact[f]]
        /\ blob' = [blob EXCEPT ![f] = blob[f]]
        /\ artifact[f] \in Artifact \cup {Null} /\ blob[f] \in SUBSET Object
        /\ faults' \in 0 .. MaxFaults
    BY InHand, OtherFiles
  <2> QED BY <1>2, <1>3, <1>5, <2>1, <2>2 DEF Touches, UploadAfter, RemoveAfter
<1>7. /\ RowsOK' /\ Elsewhere(f) /\ row'[f] = new /\ artifact'[f] = artifact[f]
      /\ blob'[f] = blob[f] /\ upload'[f] = StaleUpload(f) /\ remove'[f] = StaleRemove(f)
  BY <1>1, <1>6, OneFile
<1>8. /\ Exists(f)' /\ Named(f)' = Named(f) /\ Stored(f)' = Stored(f)
      /\ Derivatives(f)' = Derivatives(f)
  BY <1>1, <1>2, <1>7, Constants DEF Exists, Named, Stored, Derivatives
<1>9. GivenUp(f) => GivenUp(f)'
  BY <1>1, <1>2, <1>5, <1>7 DEF GivenUp
<1>10. UploadFits(f)'
  BY <1>1, <1>5, <1>7, <1>8 DEF FileFits, UploadFits
<1>11. RowFits(f)'
  BY <1>1, <1>2, <1>5, <1>7 DEF FileFits, RowFits
<1>12. ArtifactFits(f)'
  BY <1>1, <1>7, <1>8 DEF FileFits, ArtifactFits
<1>13. RemoveFits(f)'
  BY <1>7, <1>9, RemovalGoesStale
<1>14. \A v \in Callers \ {w} : WorkerFits(v)'
  <2>1. HandsOver(w, claimed, "file", f)
    BY DEF HandsOver
  <2>2. "file" \in {"file", "artifact"} /\ "file" # "artifact"
    OBVIOUS
  <2> QED BY <1>7, <1>8, <1>9, <2>1, <2>2, OtherPasses
<1>15. WorkerFits(w)'
  <2>1. worker'[w] = claimed
    BY <1>1, StalePasses
  <2>2. ASSUME NEW g \in Files
        PROVE  /\ Holds(w, <<"file", g>>)' => g = f
               /\ ~Holds(w, <<"artifact", g>>)'
    BY ZenonT(30), <1>4, <2>1, ItemsDiffer DEF Holds
  <2>3. "final" \in Named(f) => GivenUp(f)'
    <3>1. "final" \in Named(f) => row[f].final
      BY DEF Named
    <3>2. row[f].final => upload[f].at = "done"
      BY <1>1 DEF FileFits, RowFits
    <3> QED BY <1>1, <1>2, <1>5, <1>7, <3>1, <3>2 DEF GivenUp
  <2>4. FileCleanupFits(w, f)'
    BY <1>2, <1>4, <1>5, <1>7, <1>8, <2>1, <2>3 DEF FileCleanupFits
  <2> QED BY <1>4, <2>1, <2>2, <2>4 DEF WorkerFits
<1>16. \A g \in Files \ {f} : FileFits(g)'
  BY <1>7, ElsewhereFits
<1> QED BY <1>7, <1>10, <1>11, <1>12, <1>13, <1>14, <1>15, <1>16 DEF AInv, FileFits

\* A write of f's artifact row that leaves the rest alone.
LEMMA ArtifactWritten ==
  ASSUME AInv, NEW f \in Files, NEW a \in Artifact,
         artifact' = [artifact EXCEPT ![f] = a], artifact[f] # Null,
         UNCHANGED <<chatRow, regime, row, blob, upload, remove, faults, spoiled>>,
         worker' \in [Callers -> CleanupPass], a.c = "complete" => Derivatives(f) = {}
  PROVE  /\ RowsOK' /\ Elsewhere(f) /\ artifact'[f] = a /\ artifact'[f] # Null
         /\ GivenUp(f) => GivenUp(f)'
         /\ \A g \in Files : FileFits(g)'
<1>1. RowsOK /\ FileFits(f)
  BY DEF AInv
<1>2. Touches(f, row[f], a, blob[f], upload[f], remove[f])
  <2>1. /\ row' = [row EXCEPT ![f] = row[f]] /\ blob' = [blob EXCEPT ![f] = blob[f]]
        /\ upload' = [upload EXCEPT ![f] = upload[f]]
        /\ remove' = [remove EXCEPT ![f] = remove[f]]
    BY <1>1, OtherFiles
  <2>2. /\ row[f] \in Row \cup {Null} /\ blob[f] \in SUBSET Object /\ upload[f] \in Upload
        /\ remove[f] \in Remove /\ faults' \in 0 .. MaxFaults
    BY InHand
  <2> QED BY <2>1, <2>2 DEF Touches
<1>3. RowsOK' /\ Elsewhere(f) /\ artifact'[f] = a
  BY <1>1, <1>2, OneFile
<1>4. /\ Exists(f)' <=> Exists(f)
      /\ Named(f)' = Named(f) /\ Stored(f)' = Stored(f)
      /\ Derivatives(f)' = Derivatives(f)
      /\ GivenUp(f)' <=> GivenUp(f)
  BY DEF Exists, Named, Stored, Derivatives, GivenUp
<1>5. artifact'[f] # Null
  BY <1>3, Constants
<1>6. UploadFits(f)'
  BY <1>1, <1>4 DEF FileFits, UploadFits
<1>7. RowFits(f)'
  BY <1>1, <1>4 DEF FileFits, RowFits
<1>8. ArtifactFits(f)'
  BY <1>1, <1>3, <1>4, <1>5 DEF FileFits, ArtifactFits
<1>9. RemoveFits(f)'
  BY <1>1, <1>4 DEF FileFits, RemoveFits
<1> QED BY <1>3, <1>4, <1>5, <1>6, <1>7, <1>8, <1>9, ElsewhereFits DEF FileFits

LEMMA ClaimArtifactFits ==
  ASSUME AInv, NEW w \in Callers, worker[w].queue # <<>>,
         NEW f \in Files, Head(worker[w].queue) = <<"artifact", f>>, ArtifactClaimable(f),
         NEW claimed,
         claimed = [worker[w] EXCEPT !.at = "claimed", !.fresh = TRUE,
                                     !.refs = {"derived", "provider"}],
         worker' = [StaleWorkers(<<"artifact", f>>) EXCEPT ![w] = claimed],
         artifact' = [artifact EXCEPT ![f] = [c |-> "cleanup_in_progress", due |-> FALSE]],
         UNCHANGED <<chatRow, regime, row, blob, upload, remove, faults, spoiled>>
  PROVE  AInv'
<1> DEFINE a == [c |-> "cleanup_in_progress", due |-> FALSE]
<1>1. a \in Artifact /\ a.c = "cleanup_in_progress" /\ artifact[f] # Null /\ RowsOK
  BY InHand DEF Artifact, ArtifactState, ArtifactClaimable, ArtifactEligible
<1>2. /\ claimed \in CleanupPass /\ claimed.at = "claimed" /\ claimed.queue = worker[w].queue
      /\ claimed.refs = {"derived", "provider"}
  BY ZenonT(30), <1>1, FileTypes DEF CleanupPass, Object
<1>3. artifact' = [artifact EXCEPT ![f] = a] /\ worker' \in [Callers -> CleanupPass]
  BY <1>1, <1>2, StalePasses
<1> HIDE DEF a
<1>4. /\ RowsOK' /\ Elsewhere(f) /\ artifact'[f] = a /\ artifact'[f] # Null
      /\ GivenUp(f) => GivenUp(f)'
      /\ \A g \in Files : FileFits(g)'
  BY <1>1, <1>3, ArtifactWritten
<1>5. ASSUME NEW v \in Callers \ {w} PROVE WorkerFits(v)'
  <2>1. HandsOver(w, claimed, "artifact", f)
    BY DEF HandsOver
  <2>2. "artifact" \in {"file", "artifact"} /\ "file" # "artifact"
    OBVIOUS
  <2> QED BY <1>4, <2>1, <2>2, OtherPasses
<1>6. WorkerFits(w)'
  <2>1. worker'[w] = claimed
    BY <1>1, StalePasses
  <2>2. ASSUME NEW g \in Files
        PROVE  /\ Holds(w, <<"artifact", g>>)' => g = f
               /\ ~Holds(w, <<"file", g>>)'
    BY ZenonT(30), <1>2, <2>1, ItemsDiffer DEF Holds
  <2>3. ArtifactCleanupFits(w, f)'
    <3>1. /\ worker'[w].refs = {"derived", "provider"} /\ worker'[w].at = "claimed"
          /\ "final" \notin {"derived", "provider"} /\ "claimed" # "deleted"
      BY <1>2, <2>1
    <3>2. artifact'[f].c = "cleanup_in_progress" /\ artifact'[f] # Null
      BY <1>1, <1>4
    <3> HIDE DEF a
    <3> QED BY ONLY <3>1, <3>2 DEF ArtifactCleanupFits
  <2> QED BY <1>2, <2>1, <2>2, <2>3 DEF WorkerFits
<1> QED BY <1>4, <1>5, <1>6 DEF AInv

LEMMA ClaimCleanupFits ==
  ASSUME AInv, NEW w \in Callers, ClaimCleanup(w)
  PROVE  AInv'
<1>1. /\ worker[w].queue # <<>>
      /\ UNCHANGED <<chatRow, regime, blob, faults, spoiled>>
  BY DEF ClaimCleanup
<1>2. PICK f \in Files : Head(worker[w].queue) \in {<<"file", f>>, <<"artifact", f>>}
  BY <1>1, CandidateIs
<1> DEFINE item == Head(worker[w].queue)
<1>3. item[2] = f /\ item[1] \in {"file", "artifact"}
  BY <1>2
<1>4. CASE /\ Skip(w) /\ UNCHANGED <<row, artifact, upload, remove>>
  <2>1. faults' \in 0 .. MaxFaults
    BY <1>1, FileTypes DEF AInv
  <2> QED BY <1>1, <1>4, <2>1, Advances, PassAlone DEF Skip
<1>5. CASE item[1] = "file" /\ Claimable(item)
  <2> DEFINE claimed == [worker[w] EXCEPT !.at = "claimed", !.fresh = TRUE, !.refs = Named(f)]
  <2>1. item = <<"file", f>>
    BY <1>2, <1>5
  <2>2. ExternalObjects(item) = Named(f) /\ FileClaimable(f)
    BY <1>5, <2>1 DEF ExternalObjects, Claimable
  <2>3. /\ worker' = [StaleWorkers(<<"file", f>>) EXCEPT ![w] = claimed]
        /\ WriteRow(f, [row[f] EXCEPT !.token = FALSE, !.due = FALSE, !.gen = TRUE,
                                      !.p = "cleanup_in_progress"])
        /\ UploadAfter(f, StaleUpload(f)) /\ RemoveAfter(f, StaleRemove(f))
        /\ UNCHANGED artifact
    BY <1>3, <1>5, <2>1, <2>2 DEF ClaimCleanup
  <2> QED BY <1>1, <2>1, <2>2, <2>3, ClaimFileFits
<1>6. CASE item[1] = "artifact" /\ Claimable(item)
  <2> DEFINE claimed == [worker[w] EXCEPT !.at = "claimed", !.fresh = TRUE,
                                          !.refs = {"derived", "provider"}]
  <2>1. item = <<"artifact", f>>
    BY <1>2, <1>6
  <2>2. ExternalObjects(item) = {"derived", "provider"} /\ ArtifactClaimable(f)
    BY <1>6, <2>1 DEF ExternalObjects, Claimable
  <2>3. /\ worker' = [StaleWorkers(<<"artifact", f>>) EXCEPT ![w] = claimed]
        /\ artifact' = [artifact EXCEPT ![f] = [c |-> "cleanup_in_progress", due |-> FALSE]]
        /\ UNCHANGED <<row, upload, remove>>
    BY <1>3, <1>6, <2>1, <2>2 DEF ClaimCleanup
  <2> QED BY <1>1, <2>1, <2>2, <2>3, ClaimArtifactFits
<1>7. Claimable(item) \/ (Skip(w) /\ UNCHANGED <<row, artifact, upload, remove>>)
  BY DEF ClaimCleanup
<1> QED BY <1>3, <1>4, <1>5, <1>6, <1>7

LEMMA FinishFileFits ==
  ASSUME AInv, NEW w \in Callers, worker[w].at = "deleted", worker[w].fresh,
         NEW f \in Files, Holds(w, <<"file", f>>),
         worker' = [StaleWorkers(<<"file", f>>) EXCEPT ![w] = Advanced(w)],
         WriteRow(f, Cleaned(f, worker[w].ok)), RemoveAfter(f, StaleRemove(f)),
         UNCHANGED <<chatRow, regime, artifact, blob, upload, faults, spoiled>>
  PROVE  AInv'
<1> DEFINE new == Cleaned(f, worker[w].ok)
<1>1. WorkerFits(w) /\ RowsOK /\ FileFits(f) /\ worker[w].queue # <<>>
  BY FileTypes DEF AInv, WorkerFits
<1>2. FileCleanupFits(w, f)
  BY <1>1 DEF WorkerFits, Holds
<1>3. /\ Exists(f) /\ row[f].p = "cleanup_in_progress" /\ ~upload[f].fresh
      /\ worker[w].ok /\ upload[f].at = "done" /\ f \notin spoiled => Stored(f) = {}
  BY <1>2 DEF FileCleanupFits
<1>4. row[f].q \notin {"ready", "released"} /\ row[f] \in Row
  BY <1>3, HandedOver, InHand DEF Exists
<1>5. /\ new \in Row /\ new.q \notin {"ready", "released"} /\ new.linked = row[f].linked
      /\ new.final => row[f].final
      /\ ~worker[w].ok => new.final = row[f].final /\ new.quar = row[f].quar
  <2>1. worker[w].ok \in BOOLEAN
    BY <1>1, FileTypes DEF CleanupPass
  <2>2. CASE worker[w].ok
    <3> DEFINE q == CASE row[f].q = "pending_upload" -> "expired"
                      [] row[f].q = "uploading" -> "failed"
                      [] row[f].q = "deleting" -> "deleted" [] OTHER -> row[f].q
               g == row[f].gone \/ row[f].q \in {"pending_upload", "deleting"}
    <3>1. q \in QuarantineState /\ q \notin {"ready", "released"} /\ g \in BOOLEAN
      BY <1>4 DEF QuarantineState, Row
    <3> HIDE DEF q, g
    <3>2. new = [row[f] EXCEPT !.quar = FALSE, !.final = FALSE, !.p = "complete", !.due = FALSE,
                               !.q = q, !.gone = g]
      BY <2>2, <1>4 DEF Cleaned, q, g, Row
    <3> HIDE DEF new
    <3> QED BY <1>4, <2>2, <3>1, <3>2 DEF Row, ProcessingState
  <2>3. CASE ~worker[w].ok
    BY <1>4, <2>3 DEF Cleaned, Row, ProcessingState
  <2> QED BY <2>1, <2>2, <2>3
<1>6. row' = [row EXCEPT ![f] = new] /\ remove' = [remove EXCEPT ![f] = StaleRemove(f)]
  BY DEF WriteRow, RemoveAfter
<1> HIDE DEF new
<1>7. Writes(f, new, StaleRemove(f))
  <2>1. worker' \in [Callers -> CleanupPass]
    BY <1>1, StalePasses, Advances
  <2> QED BY <1>1, <1>5, <1>6, <2>1, StaleCopies DEF Writes
<1>8. /\ RowsOK' /\ Elsewhere(f) /\ row'[f] = new /\ remove'[f] = StaleRemove(f)
      /\ Exists(f)' /\ Stored(f)' = Stored(f) /\ Derivatives(f)' = Derivatives(f)
      /\ artifact'[f] = artifact[f] /\ ArtifactFits(f)'
  BY <1>7, RowWritten
<1>9. UploadFits(f)'
  <2>1. ~worker[w].ok => Named(f)' = Named(f)
    BY <1>3, <1>5, <1>8 DEF Named
  <2> QED BY <1>1, <1>3, <1>8, <2>1 DEF FileFits, UploadFits
<1>10. RowFits(f)'
  BY <1>1, <1>3, <1>4, <1>5, <1>8 DEF FileFits, RowFits
<1>11. GivenUp(f) => GivenUp(f)'
  BY <1>5, <1>8 DEF GivenUp
<1>12. RemoveFits(f)'
  BY <1>8, <1>11, RemovalGoesStale
<1>13. ASSUME NEW v \in Callers \ {w} PROVE WorkerFits(v)'
  <2>1. HandsOver(w, Advanced(w), "file", f)
    BY DEF HandsOver
  <2>2. "file" \in {"file", "artifact"} /\ "file" # "artifact"
    OBVIOUS
  <2> QED BY <1>8, <1>11, <2>1, <2>2, OtherPasses
<1>14. WorkerFits(w)'
  <2>1. worker'[w].at = "next"
    BY <1>1, StalePasses, Advances
  <2> QED BY <2>1 DEF WorkerFits
<1>15. \A g \in Files \ {f} : FileFits(g)'
  BY <1>8, ElsewhereFits
<1> QED BY <1>8, <1>9, <1>10, <1>12, <1>13, <1>14, <1>15 DEF AInv, FileFits

LEMMA FinishArtifactFits ==
  ASSUME AInv, NEW w \in Callers, worker[w].at = "deleted", worker[w].fresh,
         NEW f \in Files, Holds(w, <<"artifact", f>>),
         worker' = [StaleWorkers(<<"artifact", f>>) EXCEPT ![w] = Advanced(w)],
         artifact' = [artifact EXCEPT ![f] = CleanedArtifact(worker[w].ok)],
         UNCHANGED <<chatRow, regime, row, blob, upload, remove, faults, spoiled>>
  PROVE  AInv'
<1> DEFINE a == CleanedArtifact(worker[w].ok)
<1>1. WorkerFits(w) /\ RowsOK /\ worker[w].queue # <<>>
  BY FileTypes DEF AInv, WorkerFits
<1>2. /\ artifact[f] # Null
      /\ worker[w].ok => Derivatives(f) = {}
  BY <1>1 DEF WorkerFits, Holds, ArtifactCleanupFits
<1>3. a \in Artifact /\ (a.c = "complete" => worker[w].ok)
  BY DEF CleanedArtifact, Artifact, ArtifactState
<1> HIDE DEF a
<1>4. worker' \in [Callers -> CleanupPass] /\ worker'[w].at = "next"
  BY <1>1, StalePasses, Advances
<1>5. /\ RowsOK' /\ Elsewhere(f)
      /\ GivenUp(f) => GivenUp(f)'
      /\ \A g \in Files : FileFits(g)'
  BY <1>2, <1>3, <1>4, ArtifactWritten DEF a
<1>6. ASSUME NEW v \in Callers \ {w} PROVE WorkerFits(v)'
  <2>1. HandsOver(w, Advanced(w), "artifact", f)
    BY DEF HandsOver
  <2>2. "artifact" \in {"file", "artifact"} /\ "file" # "artifact"
    OBVIOUS
  <2> QED BY <1>5, <2>1, <2>2, OtherPasses
<1>7. WorkerFits(w)'
  BY <1>4 DEF WorkerFits
<1> QED BY <1>5, <1>6, <1>7 DEF AInv

LEMMA FinishCleanupFits ==
  ASSUME AInv, NEW w \in Callers, FinishCleanup(w)
  PROVE  AInv'
<1>1. /\ worker[w].at = "deleted"
      /\ UNCHANGED <<chatRow, regime, blob, upload, faults, spoiled>>
  BY DEF FinishCleanup
<1>2. worker[w].queue # <<>>
  BY <1>1 DEF AInv, WorkerFits
<1>3. PICK f \in Files : Head(worker[w].queue) \in {<<"file", f>>, <<"artifact", f>>}
  BY <1>2, CandidateIs
<1> DEFINE item == Head(worker[w].queue)
<1>4. item[2] = f /\ item[1] \in {"file", "artifact"}
  BY <1>3
<1>5. CASE ~worker[w].fresh
  <2>1. faults' \in 0 .. MaxFaults
    BY <1>1, FileTypes DEF AInv
  <2>2. Skip(w) /\ UNCHANGED <<row, artifact, remove>>
    BY <1>5 DEF FinishCleanup
  <2> QED BY <1>1, <1>2, <2>1, <2>2, Advances, PassAlone DEF Skip
<1>6. CASE worker[w].fresh /\ item[1] = "file"
  <2>1. item = <<"file", f>>
    BY <1>3, <1>6
  <2>2. /\ worker' = [StaleWorkers(<<"file", f>>) EXCEPT ![w] = Advanced(w)]
        /\ WriteRow(f, Cleaned(f, worker[w].ok)) /\ RemoveAfter(f, StaleRemove(f))
        /\ UNCHANGED artifact
    BY <1>4, <1>6, <2>1 DEF FinishCleanup
  <2>3. Holds(w, <<"file", f>>)
    BY <1>1, <2>1 DEF Holds
  <2> QED BY <1>1, <1>6, <2>2, <2>3, FinishFileFits
<1>7. CASE worker[w].fresh /\ item[1] = "artifact"
  <2>1. item = <<"artifact", f>>
    BY <1>3, <1>7
  <2>2. /\ worker' = [StaleWorkers(<<"artifact", f>>) EXCEPT ![w] = Advanced(w)]
        /\ artifact' = [artifact EXCEPT ![f] = CleanedArtifact(worker[w].ok)]
        /\ UNCHANGED <<row, remove>>
    BY <1>4, <1>7, <2>1 DEF FinishCleanup
  <2>3. Holds(w, <<"artifact", f>>)
    BY <1>1, <2>1 DEF Holds
  <2> QED BY <1>1, <1>7, <2>2, <2>3, FinishArtifactFits
<1> QED BY <1>4, <1>5, <1>6, <1>7

-----------------------------------------------------------------------------
(* Retention asks for all files of the session at once. *)

\* What the phase makes of a row and of an artifact.
LEMMA RequestsFit ==
  ASSUME AInv, NEW f \in Files
  PROVE  /\ Requested(f) \in Row \cup {Null} /\ RequestedArtifact(f) \in Artifact \cup {Null}
         /\ \/ Requested(f) = row[f]
            \/ /\ Requested(f) = Null /\ Exists(f) /\ ~row[f].quar /\ ~row[f].final
               /\ artifact[f] = Null \/ artifact[f].c = "complete"
            \/ /\ Exists(f) /\ Requested(f) # Null /\ Requested(f).q = "deleting"
               /\ Requested(f).quar = row[f].quar /\ Requested(f).final = row[f].final
         /\ RequestedArtifact(f) # Null =>
              /\ artifact[f] # Null /\ artifact[f].c # "complete" /\ Requested(f) = row[f]
              /\ RequestedArtifact(f).c # "complete"
         /\ RequestedArtifact(f) = Null => artifact[f] = Null \/ artifact[f].c = "complete"
<1>1. row[f] \in Row \cup {Null} /\ artifact[f] \in Artifact \cup {Null}
  BY InHand
<1>2. Requested(f) \in Row \cup {Null}
      /\ \/ Requested(f) = row[f]
         \/ /\ Requested(f) = Null /\ Exists(f) /\ ~row[f].quar /\ ~row[f].final
            /\ artifact[f] = Null \/ artifact[f].c = "complete"
         \/ /\ Exists(f) /\ Requested(f) # Null /\ Requested(f).q = "deleting"
            /\ Requested(f).quar = row[f].quar /\ Requested(f).final = row[f].final
  <2>1. CASE ~Exists(f) \/ DependencyRemains(f)
    BY <1>1, <2>1 DEF Requested
  <2>2. CASE Exists(f) /\ ~DependencyRemains(f) /\ MetadataDeletable(f)
    BY <2>2 DEF Requested, MetadataDeletable, DependencyRemains
  <2>3. CASE Exists(f) /\ ~DependencyRemains(f) /\ ~MetadataDeletable(f) /\ CleanupPending(f)
    BY <1>1, <2>3 DEF Requested
  <2>4. CASE Exists(f) /\ ~DependencyRemains(f) /\ ~MetadataDeletable(f) /\ ~CleanupPending(f)
    <3> DEFINE new == [row[f] EXCEPT !.q = "deleting", !.p = "retention_cleanup_required",
                                     !.token = FALSE, !.due = FALSE]
    <3>1. row[f] \in Row
      BY <1>1, <2>4 DEF Exists
    <3>2. /\ new \in Row /\ new.q = "deleting"
          /\ new.quar = row[f].quar /\ new.final = row[f].final
      BY <3>1 DEF Row, QuarantineState, ProcessingState
    <3>3. Requested(f) = new
      BY <2>4 DEF Requested
    <3> QED BY <2>4, <3>2, <3>3, Constants
  <2> QED BY <2>1, <2>2, <2>3, <2>4
<1>3. RequestedArtifact(f) \in Artifact \cup {Null}
      /\ (RequestedArtifact(f) # Null =>
            /\ artifact[f] # Null /\ artifact[f].c # "complete"
            /\ RequestedArtifact(f).c # "complete")
      /\ (RequestedArtifact(f) = Null => artifact[f] = Null \/ artifact[f].c = "complete")
  <2>1. CASE artifact[f] = Null
    BY <2>1 DEF RequestedArtifact
  <2>2. CASE artifact[f] # Null /\ artifact[f].c = "complete"
    BY <2>2 DEF RequestedArtifact
  <2>3. CASE artifact[f] # Null /\ artifact[f].c = "none"
    <3> DEFINE new == [c |-> "cleanup_required", due |-> FALSE]
    <3>1. new \in Artifact /\ new.c = "cleanup_required"
      BY DEF Artifact, ArtifactState
    <3>2. RequestedArtifact(f) = new
      BY <2>3 DEF RequestedArtifact
    <3> HIDE DEF new
    <3> QED BY <2>3, <3>1, <3>2, Constants
  <2>4. CASE artifact[f] # Null /\ artifact[f].c \notin {"complete", "none"}
    BY <1>1, <2>4 DEF RequestedArtifact
  <2> QED BY <2>1, <2>2, <2>3, <2>4
<1>4. RequestedArtifact(f) # Null => Requested(f) = row[f]
  BY <1>3 DEF Requested, DependencyRemains
<1> QED BY <1>2, <1>3, <1>4

LEMMA RetentionPhaseFits ==
  ASSUME AInv, RetentionPhase
  PROVE  AInv'
<1>1. /\ row' = [f \in Files |-> Requested(f)]
      /\ artifact' = [f \in Files |-> RequestedArtifact(f)]
      /\ upload' = [f \in Files |-> IF row'[f] # row[f] THEN StaleUpload(f) ELSE upload[f]]
      /\ remove' = [f \in Files |-> IF row'[f] # row[f] THEN StaleRemove(f) ELSE remove[f]]
      /\ worker' = [w \in Callers |->
           IF \E f \in Files : \/ row'[f] # row[f] /\ Holds(w, <<"file", f>>)
                               \/ artifact'[f] # artifact[f] /\ Holds(w, <<"artifact", f>>)
           THEN [worker[w] EXCEPT !.fresh = FALSE] ELSE worker[w]]
      /\ UNCHANGED <<chatRow, regime, blob, faults, spoiled>>
      /\ chatRow.cutoff
  BY DEF RetentionPhase, DeletionDue
<1>2. RowsOK
  BY DEF AInv
<1>3. ASSUME NEW f \in Files
      PROVE  /\ row'[f] = Requested(f) /\ artifact'[f] = RequestedArtifact(f)
             /\ upload'[f] \in Upload /\ remove'[f] \in Remove
             /\ upload'[f].at = upload[f].at
             /\ upload'[f].fresh => row'[f] = row[f] /\ upload[f].fresh
             /\ row'[f] = row[f] => upload'[f] = upload[f] /\ remove'[f] = remove[f]
             /\ row'[f] # row[f] => remove'[f] = StaleRemove(f)
  BY <1>1, <1>2, StaleCopies, InHand
<1>4. ASSUME NEW w \in Callers
      PROVE  /\ worker'[w] \in CleanupPass /\ GoesOn(w)
             /\ worker'[w].fresh =>
                  \A f \in Files :
                    /\ Holds(w, <<"file", f>>) => row'[f] = row[f]
                    /\ Holds(w, <<"artifact", f>>) => artifact'[f] = artifact[f]
  <2>1. worker[w] \in CleanupPass
    BY <1>2, FileTypes
  <2> DEFINE hit == \E f \in Files : \/ row'[f] # row[f] /\ Holds(w, <<"file", f>>)
                                     \/ artifact'[f] # artifact[f] /\ Holds(w, <<"artifact", f>>)
  <2>2. worker'[w] = IF hit THEN [worker[w] EXCEPT !.fresh = FALSE] ELSE worker[w]
    BY <1>1
  <2>3. CASE hit
    <3>1. worker'[w] = [worker[w] EXCEPT !.fresh = FALSE]
      BY <2>2, <2>3
    <3> HIDE DEF hit
    <3> QED BY <2>1, <3>1 DEF CleanupPass, GoesOn
  <2>4. CASE ~hit
    <3>1. worker'[w] = worker[w]
      BY <2>2, <2>4
    <3> QED BY <2>1, <2>4, <3>1 DEF GoesOn
  <2> QED BY <2>3, <2>4
<1>5. RowsOK'
  <2>1. row' \in [Files -> Row \cup {Null}] /\ artifact' \in [Files -> Artifact \cup {Null}]
    BY <1>1, RequestsFit
  <2>2. upload' \in [Files -> Upload] /\ remove' \in [Files -> Remove]
    BY <1>1, <1>3
  <2>3. worker' \in [Callers -> CleanupPass]
    BY <1>1, <1>4
  <2> QED BY <1>1, <1>2, <2>1, <2>2, <2>3, FileTypes, FileTypesKept
<1>6. ASSUME NEW f \in Files
      PROVE  /\ Exists(f)' => Exists(f)
             /\ Named(f)' = Named(f)
             /\ GivenUp(f) => GivenUp(f)'
             /\ Stored(f)' = Stored(f) /\ Derivatives(f)' = Derivatives(f)
  <2>1. Exists(f)' => Exists(f)
    BY <1>3, RequestsFit DEF Exists
  <2>2. Named(f)' = Named(f)
    <3>1. CASE Requested(f) = row[f]
      BY <1>3, <3>1 DEF Named, Exists
    <3>2. CASE Requested(f) = Null /\ Exists(f) /\ ~row[f].quar /\ ~row[f].final
      <4>1. Named(f) = {}
        BY <3>2 DEF Named
      <4>2. Named(f)' = {}
        BY <1>3, <3>2 DEF Named, Exists
      <4> QED BY <4>1, <4>2
    <3>3. CASE /\ Exists(f) /\ Requested(f) # Null
               /\ Requested(f).quar = row[f].quar /\ Requested(f).final = row[f].final
      BY <1>3, <3>3 DEF Named, Exists
    <3> QED BY <3>1, <3>2, <3>3, RequestsFit
  <2>3. GivenUp(f) => GivenUp(f)'
    BY <1>3, <2>1, RequestsFit DEF GivenUp, Exists
  <2> QED BY <1>1, <2>1, <2>2, <2>3 DEF Stored, Derivatives
<1>7. ASSUME NEW f \in Files PROVE FileFits(f)'
  <2>1. FileFits(f)
    BY InHand
  <2>2. UploadFits(f)'
    BY <1>1, <1>3, <1>6, <2>1 DEF FileFits, UploadFits, Exists
  <2>3. RowFits(f)'
    BY <1>1, <1>3, <1>6, <2>1, RequestsFit DEF FileFits, RowFits, Exists
  <2>4. ArtifactFits(f)'
    BY <1>1, <1>3, <1>6, <2>1, RequestsFit DEF FileFits, ArtifactFits, Exists
  <2>5. RemoveFits(f)'
    <3>1. NothingStored(f)
      BY <1>1, <1>3, <1>6 DEF NothingStored
    <3> QED BY <1>3, <1>6, <3>1, RemovalGoesOn, RemovalGoesStale
  <2> QED BY <2>2, <2>3, <2>4, <2>5 DEF FileFits
<1>8. ASSUME NEW w \in Callers PROVE WorkerFits(w)'
  <2>1. WorkerFits(w) /\ GoesOn(w)
    BY <1>4 DEF AInv
  <2>2. ASSUME NEW f \in Files, worker[w].at \in {"claimed", "deleted"}, Holds(w, <<"file", f>>)
        PROVE  FileCleanupFits(w, f)'
    <3>1. FileCleanupFits(w, f)
      BY <2>1, <2>2 DEF WorkerFits
    <3>2. worker'[w].fresh => worker[w].fresh /\ row'[f] = row[f] /\ upload'[f] = upload[f]
      BY <1>3, <1>4, <2>1, <2>2 DEF GoesOn
    <3> QED BY <1>1, <1>6, <2>1, <3>1, <3>2 DEF FileCleanupFits, GoesOn, Exists
  <2>3. ASSUME NEW f \in Files, worker[w].at \in {"claimed", "deleted"},
               Holds(w, <<"artifact", f>>)
        PROVE  ArtifactCleanupFits(w, f)'
    <3>1. ArtifactCleanupFits(w, f)
      BY <2>1, <2>3 DEF WorkerFits
    <3>2. worker'[w].fresh => worker[w].fresh /\ artifact'[f] = artifact[f]
      BY <1>4, <2>1, <2>3 DEF GoesOn
    <3> QED BY <1>6, <2>1, <3>1, <3>2 DEF ArtifactCleanupFits, GoesOn
  <2>4. \A f : /\ Holds(w, <<"file", f>>)' <=> Holds(w, <<"file", f>>)
               /\ Holds(w, <<"artifact", f>>)' <=> Holds(w, <<"artifact", f>>)
    BY <2>1 DEF GoesOn, Holds
  <2> QED BY <2>1, <2>2, <2>3, <2>4 DEF WorkerFits, GoesOn
<1> QED BY <1>5, <1>7, <1>8 DEF AInv

-----------------------------------------------------------------------------
(* The theorems. *)

LEMMA InitFits ==
  ASSUME FileInit
  PROVE  AInv
<1>1. NewRow \in Row /\ NewUpload \in Upload /\ NewRemove \in Remove /\ NewWorker \in CleanupPass
  BY NewRows
<1>2. RowsOK
  <2>1. 0 \in 0 .. MaxFaults /\ regime \in {"missing", "lenient", "strict"}
    BY Constants DEF FileInit
  <2> QED BY <1>1, <2>1, FileTypes DEF FileInit
<1>3. ASSUME NEW f \in Files PROVE FileFits(f)
  <2>1. /\ row[f] = Null /\ artifact[f] = Null /\ blob[f] = {}
        /\ upload[f].at = "idle" /\ ~upload[f].fresh /\ remove[f].at = "idle"
    BY DEF FileInit, NewUpload, NewRemove
  <2> QED
    BY <2>1 DEF FileFits, UploadFits, RowFits, ArtifactFits, RemoveFits, Exists, Stored,
      Derivatives
<1>4. ASSUME NEW w \in Callers PROVE WorkerFits(w)
  BY DEF FileInit, NewWorker, WorkerFits
<1> QED BY <1>2, <1>3, <1>4 DEF AInv

LEMMA NextFits ==
  ASSUME AInv, [FileNext]_fileVars
  PROVE  AInv'
<1>1. CASE DeleteSession \/ PassCutoff \/ ChangeRegime
  BY <1>1, SessionSteps
<1>2. CASE RetentionPhase
  BY <1>2, RetentionPhaseFits
<1>3. ASSUME NEW f \in Files, FileStep(f) PROVE AInv'
  <2>1. CASE \/ CreateUpload(f) \/ ClaimUpload(f) \/ PutBlob(f) \/ JudgeBlob(f)
             \/ DropQuarantine(f) \/ ClearUpload(f) \/ CloseUpload(f)
    BY <2>1, CreateUploadFits, ClaimUploadFits, PutBlobFits, JudgeBlobFits,
       DropQuarantineFits, ClearUploadFits, CloseUploadFits
  <2>2. CASE \/ FinishUpload(f) \/ FinishRefused(f) \/ FinishUnclear(f) \/ UploadCrash(f)
             \/ FinalizeUpload(f) \/ Derive(f) \/ SendMessageWith(f)
    BY <2>2, FinishUploadFits, FinishRefusedFits, FinishUnclearFits, UploadCrashFits,
       FinalizeUploadFits, DeriveFits, SendMessageFits
  <2>3. CASE \/ RemoveRead(f) \/ RemoveMark(f) \/ RemoveClear(f) \/ RemoveFinish(f)
             \/ RemoveCrash(f) \/ Elapse(f)
    BY <2>3, RemoveReadFits, RemoveMarkFits, RemoveClearFits, RemoveFinishFits,
       RemoveCrashFits, ElapseFits
  <2> QED BY <1>3, <2>1, <2>2, <2>3 DEF FileStep
<1>4. ASSUME NEW w \in Callers, WorkerStep(w) PROVE AInv'
  <2>1. CASE BeginPass(w) \/ NextPhase(w) \/ ClaimCleanup(w)
    BY <2>1, BeginPassFits, NextPhaseFits, ClaimCleanupFits
  <2>2. CASE DeleteObjects(w) \/ FinishCleanup(w) \/ WorkerCrash(w)
    BY <2>2, DeleteObjectsFits, FinishCleanupFits, WorkerCrashFits
  <2> QED BY <1>4, <2>1, <2>2 DEF WorkerStep
<1>5. CASE UNCHANGED fileVars
  <2>1. /\ UNCHANGED Rest /\ chatRow' = chatRow /\ regime' = regime
    BY <1>5 DEF fileVars, Rest
  <2>2. /\ chatRow \in [state : {"active", "deleting"}, cutoff : BOOLEAN]
        /\ regime \in {"missing", "lenient", "strict"}
    BY FileTypes DEF AInv
  <2> QED BY <2>1, <2>2, RestKeeps
<1> QED BY <1>1, <1>2, <1>3, <1>4, <1>5 DEF FileNext

\* The inductive invariant holds: rows, objects, uploads, removals and cleanup
\* passes fit together after every step.
THEOREM AttachmentInvariance == FileSpec => []AInv
<1>1. FileInit => AInv
  BY InitFits
<1>2. AInv /\ [FileNext]_fileVars => AInv'
  BY NextFits
<1> QED BY <1>1, <1>2, PTL DEF FileSpec

\* No object of the store is forgotten (ObjectsAreKnown): a row names it, its
\* upload is at work, or the upload met a crash or a storage error; and every
\* artifact has its attachment.
THEOREM ObjectsAreAlwaysKnown == FileSpec => []ObjectsAreKnown
<1>1. AInv => ObjectsAreKnown
  <2> SUFFICES ASSUME AInv PROVE ObjectsAreKnown
    OBVIOUS
  <2>1. ASSUME NEW f \in Files
        PROVE  /\ Stored(f) \ Named(f) # {} =>
                    upload[f].at \notin {"idle", "done"} \/ f \in spoiled
               /\ Derivatives(f) # {} => artifact[f] # Null /\ artifact[f].c # "complete"
               /\ artifact[f] # Null => Exists(f)
    BY DEF AInv, FileFits, UploadFits, ArtifactFits
  <2>2. NoObjectIsLost
    BY <2>1 DEF NoObjectIsLost, Stored, Derivatives
  <2>3. ArtifactHasItsParent
    BY <2>1 DEF ArtifactHasItsParent
  <2> QED BY <2>2, <2>3 DEF ObjectsAreKnown, AInv
<1> QED BY <1>1, AttachmentInvariance, PTL

\* What a transcript refers to is kept (NeededFilesAreKept): a file that is
\* ready or released has its object, whoever deletes, and a linked one leaves
\* "released" only when the deletion of its session is due.
THEOREM NeededFilesStay == FileSpec => []NeededFilesAreKept
<1>1. AInv => NeededFilesAreKept
  BY DEF AInv, FileFits, RowFits, NeededFilesAreKept, ReleasedHasItsObject, LinkedIsKept
<1> QED BY <1>1, AttachmentInvariance, PTL

=============================================================================
