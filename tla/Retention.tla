------------------------------ MODULE Retention ------------------------------
(***************************************************************************)
(* Session retention (orm_session_retention.rs): what the host's retention *)
(* workers remove from one session, in which order, while the services     *)
(* that write to the session go on.  A pass is one candidate read and two  *)
(* or three transactions; anything may happen between them.                *)
(*                                                                         *)
(* The tables are kept as far as retention reads them.  A run is live,     *)
(* stopped for an operator (recovery) or ended; RunLease, Supervised and   *)
(* ReadOnlyAgent have its life.  Attachments has the life of a file.       *)
(***************************************************************************)
EXTENDS Integers, Sequences, FiniteSets, FiniteSetsExt

CONSTANTS
  Workers,        \* retention workers of the hosts
  Runs,           \* runs of the session
  Media,          \* attachments of the session
  MaxMessages,    \* bound: messages the session gets
  MaxGeneration,  \* bound: attempts of a run
  MaxEvents,      \* bound: events and inbox payloads are counted up to this
  Policies,       \* retention policies the scope is given
  Hosts,          \* deployments: who is there and which services are used
  Limit,          \* AiSessionRetentionLimits: table |-> rows per transaction
  None

Tables == {"event", "inbox", "context", "message", "proposal", "call",
           "attachment", "run", "checkpoint", "history"}

ASSUME LimitAssumption == Limit \in [Tables -> Nat \ {0}]
ASSUME RunsAssumption == IsFiniteSet(Runs) /\ IsFiniteSet(Media)
ASSUME BoundAssumption ==
  {MaxMessages, MaxGeneration, MaxEvents} \subseteq Nat \ {0}

\* What a host may use of the runtime.
Services == {"tools", "proposals", "attachments", "compaction", "deltas", "recovery"}
ASSUME HostsAssumption ==
  Hosts \subseteq [workers : SUBSET Workers, runs : SUBSET Runs, uses : SUBSET Services]

VARIABLES
  host,     \* the deployment; it does not change
  session,  \* state of the session row; due: the deletion cutoff has passed
  policy,   \* the retention policy of the scope
  event,    \* number of live deltas and of other events; old: deltas expired
  inbox,    \* number of inbox payloads of the session not yet purged
  message,  \* the messages, in order
  context,  \* through_sequence of each context checkpoint
  run,      \* the runs
  ckpt,     \* the coordinator checkpoints
  call,     \* the tool call of each run, with its approval
  proposal, \* the proposal of each run
  file,     \* the attachments, each with its artifact
  prepared, \* a compaction between prepare and persist
  outcome,  \* runs for whose proposal an outcome is being recorded
  pass      \* where each worker is

tables == <<event, inbox, message, context, run, ckpt, call, proposal, file>>
vars == <<host, session, policy, tables, prepared, outcome, pass>>

SessionState == {"active", "archived", "deleting", "deleted"}
Policy == {"missing", "keep", "expire"}
ASSUME PoliciesAssumption == Policies \subseteq Policy
\* A provider turn that asks for a tool, the batch of its results, a provider
\* turn that answers, the persisted output.
CkptKind == {"turn", "batch", "answer", "final"}
\* PROTECTED_RUN_CHECKPOINT_KINDS
ProtectedKind == CkptKind \ {"final"}
ProposalState ==
  {"none", "pending", "accepted", "rejected", "applied", "expired"}
FileState == {"none", "live", "requested", "clean"}

Checkpoint ==
  [run : Runs, gen : 1 .. MaxGeneration, kind : CkptKind, old : BOOLEAN]

TypeOK ==
  /\ host \in Hosts
  /\ session \in [state : SessionState, due : BOOLEAN]
  /\ policy \in Policy
  /\ event \in [delta : 0 .. MaxEvents, other : 0 .. MaxEvents, old : BOOLEAN]
  /\ inbox \in 0 .. MaxEvents
  /\ message \in Seq([run : Runs, purged : BOOLEAN, old : BOOLEAN])
  /\ context \subseteq 1 .. Len(message)
  /\ run \in [Runs -> [state : {"none", "live", "recovery", "ended"},
                       gen : 0 .. MaxGeneration, latest : CkptKind \cup {None},
                       at : 0 .. MaxGeneration]]
  /\ ckpt \subseteq Checkpoint
  /\ call \in [Runs -> [state : {"none", "open", "closed"}, gen : 0 .. MaxGeneration,
                        purged : BOOLEAN, old : BOOLEAN]]
  /\ proposal \in [Runs -> [state : ProposalState, due : BOOLEAN, purged : BOOLEAN]]
  /\ file \in [Media -> [state : FileState, artifact : FileState, message : Nat]]
  /\ prepared \in [through : Nat, parent : Nat] \cup {None}
  /\ outcome \subseteq Runs
  /\ pass \in [Workers -> [at : {"idle", "scanned", "purge", "expire", "finalize"},
                           fresh : BOOLEAN]]

NoRun == [state |-> "none", gen |-> 0, latest |-> None, at |-> 0]
NoCall == [state |-> "none", gen |-> 0, purged |-> FALSE, old |-> FALSE]
NoProposal == [state |-> "none", due |-> FALSE, purged |-> FALSE]
NoFile == [state |-> "none", artifact |-> "none", message |-> 0]

Init ==
  /\ host \in Hosts
  /\ session = [state |-> "active", due |-> FALSE]
  /\ policy \in Policies
  /\ event = [delta |-> 0, other |-> 0, old |-> FALSE]
  /\ inbox = 1
  /\ message = <<>>
  /\ context = {}
  /\ run = [r \in Runs |-> NoRun]
  /\ ckpt = {}
  /\ call = [r \in Runs |-> NoCall]
  /\ proposal = [r \in Runs |-> NoProposal]
  /\ file = [f \in Media |-> NoFile]
  /\ prepared = None
  /\ outcome = {}
  /\ pass = [w \in Workers |-> [at |-> "idle", fresh |-> FALSE]]

-----------------------------------------------------------------------------
(* The session and the services that fill it. *)

\* A write of the session row: a candidate read before is out of date.
Touch == pass' = [w \in Workers |-> [pass[w] EXCEPT !.fresh = FALSE]]

MessageHead == Len(message)
Unpurged == {m \in 1 .. MessageHead : ~message[m].purged}
Existing == {r \in Runs : run[r].state # "none"}
Terminal(r) == run[r].state = "ended"
\* The checkpoint latest_checkpoint_id names: its kind and its attempt.
Latest(r) == {c \in ckpt : c.run = r /\ c.kind = run[r].latest /\ c.gen = run[r].at}

Counted(n) == IF n <= MaxEvents THEN n ELSE MaxEvents
AddEvents(delta, other) ==
  event' = [event EXCEPT !.delta = Counted(@ + delta), !.other = Counted(@ + other),
                         !.old = @ /\ delta = 0]
AddInbox == inbox' = Counted(inbox + 1)

\* send_message: a message, its run, an event and an inbox event; a released
\* attachment (and what the host derived from it) may come with it.
SendMessage(r) ==
  /\ session.state = "active" /\ run[r].state = "none"
  /\ MessageHead < MaxMessages
  /\ AddEvents(0, 1) /\ AddInbox
  /\ message' = Append(message, [run |-> r, purged |-> FALSE, old |-> FALSE])
  /\ run' = [run EXCEPT ![r] = [@ EXCEPT !.state = "live", !.gen = 1]]
  /\ \/ UNCHANGED file
     \/ \E f \in Media, a \in {"none", "live"} :
          /\ "attachments" \in host.uses /\ file[f].state = "none"
          /\ file' = [file EXCEPT ![f] =
               [state |-> "live", artifact |-> a, message |-> MessageHead + 1]]
  /\ Touch
  /\ UNCHANGED <<session, policy, context, ckpt, call, proposal, prepared, outcome>>

\* transition_session and delete_session.
Transition ==
  /\ \/ session.state = "active" /\ session' = [session EXCEPT !.state = "archived"]
     \/ session.state = "archived" /\ session' = [session EXCEPT !.state = "active"]
     \/ /\ session.state \in {"active", "archived"}
        /\ session' = [session EXCEPT !.state = "deleting"]
  /\ AddInbox
  /\ Touch
  /\ UNCHANGED <<policy, event, message, context, run, ckpt, call, proposal, file,
                 prepared, outcome>>

\* A live delta of a run (append_live_delta).
LiveDelta(r) ==
  /\ "deltas" \in host.uses
  /\ session.state = "active" /\ run[r].state = "live"
  /\ AddEvents(1, 0) /\ Touch
  /\ UNCHANGED <<session, policy, inbox, message, context, run, ckpt, call, proposal,
                 file, prepared, outcome>>

\* append_coordinator_checkpoint: the checkpoint becomes the run's latest one.
\* It looks at the lease of the run, not at the session.
PersistCheckpoint(r, kind) ==
  /\ run[r].state = "live"
  /\ kind = "turn" => "tools" \in host.uses
  /\ kind \in {"turn", "answer"} => run[r].latest = None
  /\ kind = "batch" => /\ run[r].latest = "turn"
                       /\ call[r].state = "closed" /\ call[r].gen = run[r].gen
  /\ \A c \in ckpt : ~(c.run = r /\ c.gen = run[r].gen /\ c.kind = kind)
  /\ ckpt' = ckpt \cup
       {[run |-> r, gen |-> run[r].gen, kind |-> kind, old |-> FALSE]}
  /\ run' = [run EXCEPT ![r] = [@ EXCEPT !.latest = kind, !.at = run[r].gen]]
  /\ UNCHANGED <<session, policy, event, inbox, message, context, call, proposal,
                 file, prepared, outcome, pass>>

\* begin_tool_call, and the transaction that records its terminal state (with
\* its approval, if it needed one: Supervised).
ToolCall(r) ==
  /\ run[r].state = "live"
  /\ \/ /\ run[r].latest = "turn" /\ call[r].state = "none"
        /\ call' = [call EXCEPT ![r] = [@ EXCEPT !.state = "open", !.gen = run[r].gen]]
     \/ /\ call[r].state = "open"
        /\ call' = [call EXCEPT ![r] = [@ EXCEPT !.state = "closed", !.old = FALSE]]
  /\ UNCHANGED <<session, policy, event, inbox, message, context, run, ckpt, proposal,
                 file, prepared, outcome, pass>>

\* consume_adoption_checkpoint: before its next turn the run lets its batch go.
ConsumeBatch(r) ==
  /\ run[r].state = "live" /\ run[r].latest = "batch"
  /\ run' = [run EXCEPT ![r] = [@ EXCEPT !.latest = None, !.at = 0]]
  /\ UNCHANGED <<session, policy, event, inbox, message, context, ckpt, call, proposal,
                 file, prepared, outcome, pass>>

\* persist_assistant_output: message, final checkpoint and events, in one
\* transaction that wants the session active; then the run is completed.
PersistOutput(r) ==
  /\ session.state = "active" /\ run[r].state = "live" /\ run[r].latest = "answer"
  /\ MessageHead < MaxMessages
  /\ AddEvents(0, 1) /\ AddInbox
  /\ message' = Append(message, [run |-> r, purged |-> FALSE, old |-> FALSE])
  /\ ckpt' = ckpt \cup
       {[run |-> r, gen |-> run[r].gen, kind |-> "final", old |-> FALSE]}
  /\ run' = [run EXCEPT ![r] =
       [@ EXCEPT !.state = "ended", !.latest = "final", !.at = run[r].gen]]
  /\ Touch
  /\ UNCHANGED <<session, policy, context, call, proposal, file, prepared, outcome>>

\* The attempt is lost and recover_expired_leases takes the run: only a run
\* with no checkpoint, or with a completed batch, is claimed again.
Reclaim(r) ==
  /\ "recovery" \in host.uses
  /\ run[r].state = "live"
  /\ \/ /\ run[r].latest \in {None, "batch"} /\ call[r].state # "open"
        /\ run[r].gen < MaxGeneration /\ run[r].at \in {0, run[r].gen}
        /\ run' = [run EXCEPT ![r].gen = @ + 1]
     \/ /\ run[r].latest \in {"turn", "answer"} \/ call[r].state = "open"
        /\ run' = [run EXCEPT ![r].state = "recovery"]
  /\ UNCHANGED <<session, policy, event, inbox, message, context, ckpt, call, proposal,
                 file, prepared, outcome, pass>>

\* finish, reconcile_waits, the retry ceiling: the run ends, with no call open
\* (ReadOnlyAgent!EndedInNoDoubt) and whatever its latest checkpoint is.
EndRun(r) ==
  /\ run[r].state = "live" /\ call[r].state # "open"
  /\ run' = [run EXCEPT ![r] = [@ EXCEPT !.state = "ended"]]
  /\ UNCHANGED <<session, policy, event, inbox, message, context, ckpt, call, proposal,
                 file, prepared, outcome, pass>>

\* persist_validated, review_proposal: of an active (undeleted) session.
Propose(r) ==
  /\ \/ /\ session.state = "active" /\ run[r].state = "live"
        /\ "proposals" \in host.uses /\ proposal[r].state = "none"
        /\ proposal' = [proposal EXCEPT ![r].state = "pending"]
     \/ /\ session.state \in {"active", "archived"}
        /\ proposal[r].state = "pending" /\ ~proposal[r].due
        /\ \E decision \in {"accepted", "rejected"} :
             proposal' = [proposal EXCEPT ![r].state = decision]
  /\ AddEvents(0, 1) /\ Touch
  /\ UNCHANGED <<session, policy, inbox, message, context, run, ckpt, call, file,
                 prepared, outcome>>

\* record_applied_outcome looks at the session first ...
CheckOutcome(r) ==
  /\ session.state \in {"active", "archived"}
  /\ proposal[r].state = "accepted" /\ r \notin outcome
  /\ outcome' = outcome \cup {r}
  /\ UNCHANGED <<session, policy, tables, prepared, pass>>

\* ... and not again in the transaction that records the outcome and an event.
RecordOutcome(r) ==
  /\ r \in outcome
  /\ outcome' = outcome \ {r}
  /\ IF proposal[r].state = "accepted"
     THEN /\ proposal' = [proposal EXCEPT ![r].state = "applied"]
          /\ AddEvents(0, 1) /\ Touch
     ELSE UNCHANGED <<proposal, event, pass>>
  /\ UNCHANGED <<session, policy, inbox, message, context, run, ckpt, call, file, prepared>>

\* The latest context checkpoint: the parent of the next one.
Parent == Max(context \cup {0})
CoveredFrom(parent, through) == (parent + 1) .. through

\* prepare: read the messages after the parent, all of them unpurged.
PrepareCompaction ==
  /\ "compaction" \in host.uses
  /\ session.state = "active" /\ \E r \in Runs : run[r].state = "live"
  /\ prepared = None
  /\ \E through \in 1 .. MessageHead :
       /\ Parent < through
       /\ CoveredFrom(Parent, through) \subseteq Unpurged
       /\ prepared' = [through |-> through, parent |-> Parent]
  /\ UNCHANGED <<session, policy, tables, outcome, pass>>

\* Mutant: the sources are not read again.
SourcesNotReread(p) == Parent = p.parent

\* Persist needs the parent and the sources prepare saw.
SourcesUnchanged(p) ==
  /\ Parent = p.parent
  /\ CoveredFrom(p.parent, p.through) \subseteq Unpurged

\* persist, append_context_checkpoint: or the summary is thrown away.
PersistCompaction ==
  /\ prepared # None
  /\ prepared' = None
  /\ IF /\ session.state = "active" /\ \E r \in Runs : run[r].state = "live"
        /\ Cardinality(context) <= Limit["context"]
        /\ SourcesUnchanged(prepared)
     THEN context' = context \cup {prepared.through}
     ELSE UNCHANGED context
  /\ UNCHANGED <<session, policy, event, inbox, message, run, ckpt, call, proposal, file,
                 outcome, pass>>

\* Time: what was written becomes old, a pending proposal that has an
\* expiry runs out, the cutoff of a deleting session is reached.
Age ==
  /\ event' = [event EXCEPT !.old = TRUE]
  /\ message' = [m \in 1 .. MessageHead |-> [message[m] EXCEPT !.old = TRUE]]
  /\ ckpt' = {[c EXCEPT !.old = TRUE] : c \in ckpt}
  /\ call' = [r \in Runs |->
       IF call[r].state = "closed" THEN [call[r] EXCEPT !.old = TRUE] ELSE call[r]]
  /\ \E expiring \in SUBSET {r \in Runs : proposal[r].state = "pending"} :
       proposal' = [r \in Runs |->
         IF r \in expiring THEN [proposal[r] EXCEPT !.due = TRUE] ELSE proposal[r]]
  /\ session' = [session EXCEPT !.due = session.state = "deleting"]
  /\ UNCHANGED <<policy, inbox, context, run, file, prepared, outcome, pass>>

\* set_retention_policy: a scope gets its policy, or another one; with longer
\* periods nothing is old any more and the cutoff is put off.
ChangePolicy ==
  /\ policy' \in Policies \ {policy, "missing"}
  /\ \/ UNCHANGED <<session, event, message, ckpt, call>>
     \/ /\ session' = [session EXCEPT !.due = FALSE]
        /\ event' = [event EXCEPT !.old = FALSE]
        /\ message' = [m \in 1 .. MessageHead |-> [message[m] EXCEPT !.old = FALSE]]
        /\ ckpt' = {[c EXCEPT !.old = FALSE] : c \in ckpt}
        /\ call' = [r \in Runs |-> [call[r] EXCEPT !.old = FALSE]]
  /\ UNCHANGED <<inbox, context, run, proposal, file, prepared, outcome, pass>>

\* cleanup_once for a file retention has asked to clean (Attachments): the
\* artifact before its attachment.
CleanUp(f) ==
  /\ session.state = "deleting" /\ session.due /\ policy # "missing"
  /\ \/ /\ file[f].artifact = "requested"
        /\ file' = [file EXCEPT ![f].artifact = "clean"]
     \/ /\ file[f].state = "requested"
        /\ file' = [file EXCEPT ![f].state = "clean"]
  /\ UNCHANGED <<session, policy, event, inbox, message, context, run, ckpt, call,
                 proposal, prepared, outcome, pass>>

-----------------------------------------------------------------------------
(* prune_session: one transaction.  The operators below are its phases, in   *)
(* their order; each says what the phase takes in the current state.         *)

\* valid_policy, and the cutoff of a deleting session.
PolicyIsValid == policy # "missing"
CutoffReached == session.state = "deleting" /\ session.due

Bounded(n, table) == IF n <= Limit[table] THEN n ELSE Limit[table]

\* Events: any kind after the cutoff, otherwise expired live deltas.
DeltaPage ==
  IF CutoffReached \/ event.old THEN Bounded(event.delta, "event") ELSE 0
OtherPage ==
  IF CutoffReached THEN Bounded(event.delta + event.other, "event") - DeltaPage ELSE 0

InboxPage == IF CutoffReached THEN Bounded(inbox, "inbox") ELSE 0

\* Context checkpoints by descending through_sequence.
ContextPage ==
  IF CutoffReached
  THEN {c \in context : Cardinality({d \in context : d > c}) < Limit["context"]}
  ELSE {}

\* Proposals: all or none.
Proposed == {r \in Runs : proposal[r].state # "none"}
ProposalIsTerminal(r) ==
  \/ proposal[r].state \in {"rejected", "applied", "expired"}
  \/ proposal[r].state = "pending" /\ proposal[r].due
ProposalPhase == CutoffReached /\ InboxPage = 0 /\ ContextPage = {}
ProposalBlocked ==
  /\ ProposalPhase
  /\ \/ Cardinality(Proposed) > Limit["proposal"]
     \/ \E r \in Proposed :
          \/ ~Terminal(r)
          \/ ~proposal[r].purged /\ ~ProposalIsTerminal(r)
ProposalPage ==
  IF ProposalPhase /\ ~ProposalBlocked
  THEN {r \in Proposed : ~proposal[r].purged} ELSE {}

\* Tool calls with their approvals: of a deleting session all or none, else the
\* old ones of ended runs.
Called == {r \in Runs : call[r].state # "none"}
ToolMode ==
  CASE ~CutoffReached -> "expired"
    [] CutoffReached /\ ContextPage = {} /\ ProposalPage = {} /\ ~ProposalBlocked -> "deleting"
    [] OTHER -> "none"

\* Mutant: calls of live runs are taken too.
ExpiredOfAnyRun == {r \in Called : call[r].state = "closed" /\ call[r].old}

ExpiredCalls ==
  {r \in Called : call[r].state = "closed" /\ call[r].old /\ Terminal(r)}
ToolBlocked ==
  /\ ToolMode # "none"
  /\ \/ Cardinality(Existing) > Limit["run"]
     \/ Cardinality(Called) > Limit["call"]
     \/ /\ ToolMode = "deleting"
        /\ \/ \E r \in Existing : ~Terminal(r)
           \/ \E r \in Called : call[r].state # "closed"
ToolPage ==
  {r \in CASE ToolMode = "deleting" -> Called
           [] ToolMode = "expired" -> ExpiredCalls
           [] OTHER -> {} : ~ToolBlocked /\ ~call[r].purged}
PurgedForDeletion == IF ToolMode = "deleting" THEN ToolPage ELSE {}

\* Attachments: a row goes once its file is gone; its artifact goes first.
FilePhase ==
  /\ CutoffReached /\ ContextPage = {}
  /\ ProposalPage = {} /\ ~ProposalBlocked
  /\ PurgedForDeletion = {} /\ ~(ToolMode = "deleting" /\ ToolBlocked)
Attached == {f \in Media : file[f].state # "none"}
TooManyFiles == Cardinality(Attached) > Limit["attachment"]
NextFile(f) ==
  LET artifact == CASE file[f].artifact = "clean" -> "none"
                    [] file[f].artifact = "live"  -> "requested"
                    [] OTHER                      -> file[f].artifact
  IN IF artifact # "none" THEN [file[f] EXCEPT !.artifact = artifact]
     ELSE CASE file[f].state = "clean" -> NoFile
            [] file[f].state = "live"  -> [file[f] EXCEPT !.artifact = artifact,
                                                          !.state = "requested"]
            [] OTHER                   -> [file[f] EXCEPT !.artifact = artifact]
FilesAfter ==
  IF FilePhase /\ ~TooManyFiles THEN [f \in Media |-> NextFile(f)] ELSE file
FileBlocked ==
  FilePhase /\ (TooManyFiles \/ \E f \in Media : FilesAfter[f].state # "none")

\* Messages: the first ones not yet purged, each alone.
MessageCutoff ==
  CASE CutoffReached ->
         IF \/ InboxPage > 0 \/ ContextPage # {} \/ ProposalPage # {} \/ ProposalBlocked
            \/ PurgedForDeletion # {} \/ (ToolMode = "deleting" /\ ToolBlocked)
         THEN "none" ELSE "all"
    [] policy = "expire" -> "old"
    [] OTHER -> "none"
MessageWindow ==
  {m \in Unpurged : Cardinality({n \in Unpurged : n < m}) < Limit["message"]}
MessageDue ==
  {m \in MessageWindow : \/ MessageCutoff = "all"
                         \/ MessageCutoff = "old" /\ message[m].old}

\* A message goes when its run has ended, no file is attached to it, and all
\* context checkpoints can be seen.
Detachable(m) ==
  /\ Terminal(message[m].run)
  /\ \A f \in Media : FilesAfter[f].state # "none" => FilesAfter[f].message # m
  /\ Cardinality(context) <= Limit["context"]
MessagePage == {m \in MessageDue : Detachable(m)}
MessageBlocked == MessageDue # MessagePage

\* Every context checkpoint that covers a purged message goes with it.
Invalidated == {c \in context : \E m \in MessagePage : c >= m}

\* Pointers of runs to their checkpoints: only when nothing else is left.
NothingTaken ==
  /\ CutoffReached
  /\ DeltaPage + OtherPage = 0 /\ InboxPage = 0 /\ ContextPage = {}
  /\ ProposalPage = {} /\ ~ProposalBlocked /\ ToolPage = {} /\ ~ToolBlocked
  /\ \A f \in Media : FilesAfter[f].state = file[f].state
  /\ ~FileBlocked /\ MessagePage = {} /\ ~MessageBlocked
NothingLeft ==
  /\ event.delta + event.other = 0 /\ inbox = 0 /\ context = {}
  /\ \A r \in Proposed : proposal[r].purged /\ ProposalIsTerminal(r)
  /\ Unpurged = {} /\ Attached = {}
RunsAreClosed ==
  /\ Cardinality(Existing) <= Limit["run"]
  /\ \A r \in Existing : Terminal(r)
PointersAreReady == NothingTaken /\ NothingLeft /\ RunsAreClosed

\* A pointer must name a checkpoint of the run's present attempt; if not, the
\* transaction fails, and with it the whole pass over all sessions.
PointerFails(r) ==
  run[r].latest # None /\ \A c \in Latest(r) : c.gen # run[r].gen

-----------------------------------------------------------------------------
(* A pass of a worker. *)

At(w, where) == pass[w].at = where
Go(w, where) == pass' = [pass EXCEPT ![w] = [at |-> where, fresh |-> FALSE]]

\* candidates: sessions that are not yet deleted.
Scan(w) ==
  /\ At(w, "idle") /\ session.state # "deleted"
  /\ pass' = [pass EXCEPT ![w] = [at |-> "scanned", fresh |-> TRUE]]
  /\ UNCHANGED <<session, policy, tables, prepared, outcome>>

\* The candidate has changed, there is no policy, or a pointer is wrong: nothing
\* is written, the session is left to a later pass.
PruneNothing(w) ==
  /\ At(w, "scanned")
  /\ \/ ~pass[w].fresh \/ ~PolicyIsValid
     \/ PointersAreReady /\ \E r \in Existing : PointerFails(r)
  /\ Go(w, "idle")
  /\ UNCHANGED <<session, policy, tables, prepared, outcome>>

PruneSession(w) ==
  /\ At(w, "scanned") /\ pass[w].fresh /\ PolicyIsValid
  /\ PointersAreReady => \A r \in Existing : ~PointerFails(r)
  /\ event' = [event EXCEPT !.delta = @ - DeltaPage, !.other = @ - OtherPage]
  /\ inbox' = inbox - InboxPage
  /\ context' = context \ (ContextPage \cup Invalidated)
  /\ proposal' = [r \in Runs |->
       IF r \notin ProposalPage THEN proposal[r]
       ELSE [proposal[r] EXCEPT !.purged = TRUE,
               !.state = IF @ = "pending" THEN "expired" ELSE @]]
  /\ call' = [r \in Runs |->
       IF r \in ToolPage THEN [call[r] EXCEPT !.purged = TRUE] ELSE call[r]]
  /\ file' = FilesAfter
  /\ message' = [m \in 1 .. MessageHead |->
       IF m \in MessagePage THEN [message[m] EXCEPT !.purged = TRUE] ELSE message[m]]
  /\ run' = [r \in Runs |->
       IF PointersAreReady THEN [run[r] EXCEPT !.latest = None, !.at = 0] ELSE run[r]]
  /\ Go(w, IF PointersAreReady THEN "purge" ELSE "expire")
  /\ UNCHANGED <<session, policy, ckpt, prepared, outcome>>

\* Creation order of the checkpoints of one run.
Rank(kind) == CHOOSE i \in 1 .. 4 : <<"turn", "batch", "answer", "final">>[i] = kind
Precedes(c, d) ==
  c.run = d.run /\ (c.gen < d.gen \/ (c.gen = d.gen /\ Rank(c.kind) < Rank(d.kind)))
\* The first rows of a set in creation order (open between two runs).
Pages(rows) ==
  {page \in SUBSET rows :
     /\ Cardinality(page) = Bounded(Cardinality(rows), "checkpoint")
     /\ \A c \in page, d \in rows : Precedes(d, c) => d \in page}

\* Of the runs and calls purge_run_checkpoints wants: ended, no pointer, purged.
CallsAreTombstoned ==
  /\ RunsAreClosed /\ \A r \in Existing : run[r].latest = None
  /\ Cardinality(Called) <= Limit["call"]
  /\ \A r \in Called : call[r].state = "closed" /\ call[r].purged

\* What it proves again, in its own transaction; it does not look at the inbox.
SourcesAreExhausted ==
  /\ CutoffReached /\ PolicyIsValid
  /\ event.delta + event.other = 0 /\ context = {}
  /\ Cardinality(Proposed) <= Limit["proposal"]
  /\ \A r \in Proposed : proposal[r].purged /\ ProposalIsTerminal(r) /\ Terminal(r)
  /\ Unpurged = {} /\ Attached = {}
  /\ CallsAreTombstoned

\* Every checkpoint of the page must be of its run's present attempt.
PageIsFenced(page) == \A c \in page : c.gen = run[c.run].gen

PurgeRunCheckpoints(w) ==
  /\ At(w, "purge")
  /\ \/ /\ SourcesAreExhausted
        /\ \E page \in Pages(ckpt) :
             /\ PageIsFenced(page)
             /\ ckpt' = ckpt \ page
        /\ Go(w, "finalize")
     \/ /\ \/ ~SourcesAreExhausted
           \/ \E page \in Pages(ckpt) : ~PageIsFenced(page)
        /\ Go(w, "idle")
        /\ UNCHANGED ckpt
  /\ UNCHANGED <<session, policy, event, inbox, message, context, run, call, proposal,
                 file, prepared, outcome>>

\* The orphaned protected checkpoints of ended runs, old enough to go.
ExpiredCkpts ==
  {c \in ckpt : /\ Terminal(c.run) /\ c.kind \in ProtectedKind /\ c.old
                /\ c \notin Latest(c.run)}
\* An answer has its output persisted, by the attempt that got it.
OutputIsPersisted(c) == run[c.run].latest = "final" /\ run[c.run].at = c.gen
\* The call of the turn has ended, is old and purged.
CallIsSettled(c) ==
  LET k == call[c.run]
  IN k.state = "closed" /\ k.gen = c.gen /\ k.old /\ k.purged
CkptIsSettled(c) == IF c.kind = "answer" THEN OutputIsPersisted(c) ELSE CallIsSettled(c)

\* purge_expired_run_checkpoints: a page of them, all or none.
ExpiryApplies ==
  /\ PolicyIsValid /\ ~CutoffReached
  /\ Cardinality(Existing) <= Limit["run"]
  /\ \A r \in Existing : run[r].latest # None =>
       Latest(r) # {} /\ run[r].at = run[r].gen
  /\ Cardinality(Called) <= Limit["call"]
PurgeExpired(w) ==
  /\ At(w, "expire")
  /\ \/ /\ ExpiryApplies
        /\ \E page \in Pages(ExpiredCkpts) :
             /\ \A c \in page : CkptIsSettled(c)
             /\ ckpt' = ckpt \ page
     \/ /\ \/ ~ExpiryApplies
           \/ \E page \in Pages(ExpiredCkpts) : \E c \in page : ~CkptIsSettled(c)
        /\ UNCHANGED ckpt
  /\ Go(w, "idle")
  /\ UNCHANGED <<session, policy, event, inbox, message, context, run, call, proposal,
                 file, prepared, outcome>>

\* Mutant: the checkpoints are not looked for.
RunsHaveNoPointer == RunsAreClosed /\ \A r \in Existing : run[r].latest = None

\* What finalize_deleted_session proves once more; not the proposals and calls.
RunsAreDetached ==
  RunsAreClosed /\ ckpt = {} /\ \A r \in Existing : run[r].latest = None
ShellIsEmpty ==
  /\ CutoffReached /\ PolicyIsValid
  /\ event.delta + event.other = 0 /\ inbox = 0 /\ context = {}
  /\ Unpurged = {} /\ MessageHead <= Limit["history"] /\ Attached = {}
  /\ RunsAreDetached

Finalize(w) ==
  /\ At(w, "finalize")
  /\ session' = IF ShellIsEmpty THEN [session EXCEPT !.state = "deleted"] ELSE session
  /\ IF ShellIsEmpty
     THEN pass' = [v \in Workers |->
            [at |-> IF v = w THEN "idle" ELSE pass[v].at, fresh |-> FALSE]]
     ELSE Go(w, "idle")
  /\ UNCHANGED <<policy, tables, prepared, outcome>>

\* The host stops a pass anywhere; the next one starts over.
Crash(w) ==
  /\ pass[w].at \notin {"idle", "scanned"}
  /\ Go(w, "idle")
  /\ UNCHANGED <<session, policy, tables, prepared, outcome>>

-----------------------------------------------------------------------------
RunStep(r) ==
  \/ SendMessage(r) \/ LiveDelta(r) \/ ToolCall(r) \/ ConsumeBatch(r) \/ PersistOutput(r)
  \/ Reclaim(r) \/ EndRun(r) \/ Propose(r) \/ CheckOutcome(r) \/ RecordOutcome(r)
  \/ \E kind \in ProtectedKind : PersistCheckpoint(r, kind)

Pass(w) ==
  \/ Scan(w) \/ PruneNothing(w) \/ PruneSession(w)
  \/ PurgeRunCheckpoints(w) \/ PurgeExpired(w) \/ Finalize(w)

Next ==
  /\ \/ \E r \in host.runs : RunStep(r)
     \/ Transition \/ PrepareCompaction \/ PersistCompaction \/ Age \/ ChangePolicy
     \/ \E f \in Media : CleanUp(f)
     \/ \E w \in host.workers : Pass(w) \/ Crash(w)
  /\ UNCHANGED host

Spec == Init /\ [][Next]_vars

-----------------------------------------------------------------------------
(* Properties. *)

\* No summary outlives content it could cover: not even one that was being
\* written while a message under it was purged.
SummaryCoversNoPurged == \A c \in context : 1 .. c \subseteq Unpurged

\* "it cannot leave a run pointing at a deleted row": whatever passes do
\* between clearing the pointers and deleting the checkpoints.
PointerNamesACheckpoint == \A r \in Runs : run[r].latest # None => Latest(r) # {}

\* A deleted session is an empty shell: nothing protected is left, though the
\* last transaction does not look at proposals and tool calls again, and none
\* of the runs can write any more.
DeletedIsEmpty ==
  session.state = "deleted" =>
    /\ event.delta + event.other = 0 /\ inbox = 0 /\ context = {} /\ ckpt = {}
    /\ Unpurged = {} /\ Attached = {}
    /\ \A r \in Existing : Terminal(r)
    /\ \A r \in Proposed : proposal[r].purged
    /\ \A r \in Called : call[r].purged

\* Nothing is purged under a run that can still go on (live, or stopped for an
\* operator).
LiveRunKeepsItsContent ==
  \A r \in Existing : ~Terminal(r) =>
    /\ ~call[r].purged /\ ~proposal[r].purged
    /\ \A m \in 1 .. MessageHead : message[m].run = r => ~message[m].purged

\* A purged message has no attachment left that names it.
PurgedMessageIsDetached ==
  \A f \in Attached : file[f].message > 0 => ~message[file[f].message].purged

\* Nothing that is left names what is gone: no summary a purged message, no run
\* a deleted checkpoint, no attachment a purged message.
ReferencesHold ==
  TypeOK /\ SummaryCoversNoPurged /\ PointerNamesACheckpoint /\ PurgedMessageIsDetached
=============================================================================
