----------------------------- MODULE Conversation -----------------------------
(***************************************************************************)
(* The provider turns of one run as the provider sees them: a turn's       *)
(* answer asks for calls, their results are matched to it                  *)
(* (AiAgentLoopGuard), the next request continues from the retained        *)
(* response or replays the conversation (next_continuation,                *)
(* AiAgentContinuation), is validated (ModelRequest::validate,             *)
(* ProviderRequestContext::validate_request) and mapped onto the           *)
(* provider's messages (request_body of the adapters).  Between two turns  *)
(* the process may die and another attempt adopt the checkpoint.           *)
(*                                                                         *)
(* The output of a tool is named by the row that holds it.  All results    *)
(* belong to one tool, whose definition the host may change.               *)
(***************************************************************************)
EXTENDS ProviderCall

CONSTANTS MaxMessages,   \* messages of a replayed conversation (256)
          MaxResults,    \* tool results of a replayed conversation (256)
          MaxCrashes     \* crashes between turns, a bound of the model

ASSUME ConversationAssumption == {MaxMessages, MaxResults, MaxCrashes} \subseteq Nat

VARIABLES guard,       \* AiAgentLoopGuard
          cont,        \* the AiAgentContinuation in hand
          request,     \* the request of the turn: its continuation and transfers
          sent,        \* the messages the adapter put on the wire
          rows,        \* AiToolCallRecord of the run, in the order of completion
          checkpoint,  \* the linked tool_batch_persisted checkpoint
          definition,  \* fingerprint of the tool's current definition
          asked,       \* the accepted turns that asked for calls (for the properties)
          crashes

convVars == <<guard, cont, request, sent, rows, checkpoint, definition, asked, crashes>>
vars == <<callVars, convVars>>

Stateless == conf.kind \in {"anthropic", "ollama"}

(* ModelConversationMessage *)
Message(role) == [role |-> role, text |-> <<>>, calls |-> <<>>, tool |-> 0, call |-> 0, output |-> 0]
UserMessage == Message("user")
AssistantMessage(text, calls, tool) ==
    [Message("assistant") EXCEPT !.text = text, !.calls = calls, !.tool = tool]
ToolMessage(r) == [Message("tool") EXCEPT !.call = r.call, !.output = r.output]

(* AiAgentContinuation *)
NoContinuation == [id |-> 0, messages |-> <<>>, input |-> <<>>, transfers |-> <<>>, replay |-> <<>>]
NoCheckpoint == [cont |-> NoContinuation, turns |-> 0, total |-> 0, gen |-> 0]

NewGuard == [turns |-> 0, total |-> 0, expected |-> NoContinuation, order |-> <<>>,
             outputs |-> {}, cont |-> NoContinuation, replay |-> <<>>, terminal |-> FALSE, gen |-> 1]

(* chain_reference: the response id, or a digest of messages and input *)
ChainReference(c) == [NoContinuation EXCEPT !.id = c.id, !.messages = c.messages, !.input = c.input]

Init ==
    /\ \E c \in Deployment : CallInit(c)
    /\ guard = NewGuard
    /\ cont = NoContinuation
    /\ request = [cont |-> NoContinuation, transfers |-> <<>>, tool |-> 1]
    /\ sent = <<>>
    /\ rows = <<>>
    /\ checkpoint = NoCheckpoint
    /\ definition = 1
    /\ asked = <<>>
    /\ crashes = 0

UsedCalls == UNION {Range(asked[t].calls) : t \in DOMAIN asked}
-----------------------------------------------------------------------------
(* The request: stateless messages *)

(* one message of validate_stateless_messages and stateless_evidence: the   *)
(* user's, then in turns an answer with calls and a result for each call,   *)
(* in the order of the calls; a call id occurs once in the conversation     *)
WalkMessage(a, m) ==
    CASE m.role = "user" /\ a.index = 0 -> [a EXCEPT !.index = 1, !.expecting = TRUE]
      [] /\ m.role = "assistant" /\ a.expecting
         /\ m.calls # <<>>
         /\ Range(m.calls) \cap a.ids = {}
         /\ IsInjective(m.calls) ->
           [a EXCEPT !.index = @ + 1, !.expecting = FALSE, !.pending = m.calls,
                     !.ids = @ \cup Range(m.calls), !.turns = @ + 1, !.tools = @ \cup {m.tool}]
      [] /\ m.role = "tool" /\ ~a.expecting
         /\ a.pending # <<>>
         /\ m.call = Head(a.pending) ->
           [a EXCEPT !.index = @ + 1, !.pending = Tail(@), !.expecting = Len(a.pending) = 1,
                     !.evidence = Append(@, [turn |-> a.turns, call |-> m.call, output |-> m.output])]
      [] OTHER -> [a EXCEPT !.ok = FALSE]

Walk(messages) ==
    FoldLeft(WalkMessage,
             [ok |-> TRUE, index |-> 0, expecting |-> FALSE, pending |-> <<>>, ids |-> {},
              turns |-> 0, tools |-> {}, evidence |-> <<>>],
             messages)

WalkIsWhole(w, input) ==
    /\ w.ok
    /\ ~w.expecting
    /\ w.pending # <<>>
    /\ w.pending = [i \in 1..Len(input) |-> input[i].call]

(* validate_stateless_messages: the calls are of the tool as offered now *)
ValidMessages(c, tool) ==
    LET w == Walk(c.messages)
    IN /\ Len(c.messages) \in 2..MaxMessages
       /\ WalkIsWhole(w, c.input)
       /\ w.tools \subseteq {tool}
       /\ Len(w.evidence) + Len(c.input) <= MaxResults

(* ModelRequest::validate: the mode decides the kind of continuation; tool  *)
(* results come with a continuation, each call answered once                *)
ValidRequest(r) ==
    \/ r.cont = NoContinuation
    \/ /\ IsInjective([i \in 1..Len(r.cont.input) |-> r.cont.input[i].call])
       /\ IF Stateless THEN ValidMessages(r.cont, r.tool) ELSE r.cont.id # 0

(* tool_result_egress_bytes: the results the request discloses *)
Disclosed(c) ==
    FlattenSeq([i \in 1..Len(c.messages) |->
                  IF c.messages[i].role = "tool" THEN <<c.messages[i].output>> ELSE <<>>])
    \o [i \in 1..Len(c.input) |-> c.input[i].output]

(* the plan of a call (new_internal): a valid request, no transfer twice *)
PlanIsBound(r) == ValidRequest(r) /\ IsInjective(r.transfers)

(* validate_request: as many transfers as results *)
TransfersCover(r) == Len(r.transfers) = Len(Disclosed(r.cont))
-----------------------------------------------------------------------------
(* The adapters' messages: a wire message carries answers to calls in its   *)
(* results; Ollama's messages have no call ids                              *)

Wire(role, text, calls, results) == [role |-> role, text |-> text, calls |-> calls, results |-> results]
WireUser == Wire("user", <<>>, <<>>, <<>>)
WireAnswer(m) == Wire("assistant", m.text, m.calls, <<>>)
WireResult(m) == [call |-> m.call, output |-> m.output]

(* request_body, openai.rs: previous_response_id stands for what came before *)
OpenAiBody(r) ==
    IF r.cont = NoContinuation THEN <<WireUser>>
    ELSE [i \in 1..Len(r.cont.input) |-> Wire("output", <<>>, <<>>, <<WireResult(r.cont.input[i])>>)]

(* anthropic_history: results that follow each other are one user message *)
AnthropicMessage(acc, m) ==
    CASE m.role = "user" -> Append(acc, WireUser)
      [] m.role = "assistant" -> Append(acc, WireAnswer(m))
      [] OTHER -> IF Last(acc).results # <<>>
                  THEN [acc EXCEPT ![Len(acc)].results = Append(@, WireResult(m))]
                  ELSE Append(acc, Wire("user", <<>>, <<>>, <<WireResult(m)>>))

AnthropicHistory(messages) == FoldLeft(AnthropicMessage, <<>>, messages)

(* anthropic_current_tool_results *)
AnthropicBody(r) ==
    IF r.cont = NoContinuation THEN <<WireUser>>
    ELSE Append(AnthropicHistory(r.cont.messages),
                Wire("user", <<>>, <<>>, [i \in 1..Len(r.cont.input) |-> WireResult(r.cont.input[i])]))

(* conversation_message: names of tools, no ids *)
OllamaMessage(m) ==
    CASE m.role = "user" -> WireUser
      [] m.role = "assistant" -> Wire("assistant", m.text, [i \in 1..Len(m.calls) |-> 0], <<>>)
      [] OTHER -> Wire("tool", <<>>, <<>>, <<[call |-> 0, output |-> m.output]>>)

(* Mutant: the results go before the calls. *)
OllamaBodyResultsFirst(r) ==
    IF r.cont = NoContinuation THEN <<WireUser>>
    ELSE LET all == [i \in 1..Len(r.cont.input) |-> ToolMessage(r.cont.input[i])] \o r.cont.messages
         IN [i \in 1..Len(all) |-> OllamaMessage(all[i])]

OllamaBody(r) ==
    IF r.cont = NoContinuation THEN <<WireUser>>
    ELSE LET all == r.cont.messages \o [i \in 1..Len(r.cont.input) |-> ToolMessage(r.cont.input[i])]
         IN [i \in 1..Len(all) |-> OllamaMessage(all[i])]

Body(r) == CASE ~Stateless -> OpenAiBody(r)
             [] conf.kind = "anthropic" -> AnthropicBody(r)
             [] conf.kind = "ollama" -> OllamaBody(r)

(* request_body refuses to continue a response that was not stored *)
CanContinue(r) == ~Stateless /\ r.cont # NoContinuation => conf.store
-----------------------------------------------------------------------------
(* can_begin_provider_turn *)
CanBegin == /\ ~guard.terminal
            /\ guard.order = <<>>
            /\ guard.turns < conf.turns

(* apply_with_transfers: the transfers of the replayed results come first *)
Applied(c) == [cont |-> [c EXCEPT !.transfers = <<>>, !.replay = <<>>],
               transfers |-> c.replay \o c.transfers,
               tool |-> definition]

(* plan, validate, authorise, map and send; a refusal ends the run *)
BeginTurn ==
    LET r == Applied(cont)
        fine == PlanIsBound(r) /\ TransfersCover(r) /\ CanContinue(r)
    IN /\ phase = "idle"
       /\ CanBegin
       /\ request' = r
       /\ sent' = IF fine THEN Body(r) ELSE <<>>
       /\ IF fine THEN OpenStream
          ELSE /\ phase' = "refused"
               /\ UNCHANGED <<conf, norm, queue, exec, pend, timer, live, said, message>>
       /\ UNCHANGED <<guard, cont, rows, checkpoint, definition, asked, crashes>>

Streaming == CallNext(UsedCalls) /\ UNCHANGED convVars

(* next_continuation *)
NextContinuation(r, x) ==
    IF ~Stateless THEN [NoContinuation EXCEPT !.id = x.id]
    ELSE LET before == IF r.cont = NoContinuation THEN <<UserMessage>>
                       ELSE r.cont.messages
                            \o [i \in 1..Len(r.cont.input) |-> ToolMessage(r.cont.input[i])]
         IN [NoContinuation EXCEPT
               !.messages = Append(before, AssistantMessage(TextOf(x.text, "text"), x.order, r.tool))]

WithinLimits(x) ==
    /\ guard.turns < conf.turns
    /\ guard.total + Len(x.order) <= conf.total

(* replay_tool_transfers: those of the results the request replayed or carried *)
ReplayTransfers(r) == IF Stateless THEN r.transfers ELSE <<>>

(* observe_provider_turn for an answer with calls.  A turn beyond a limit   *)
(* is a conflict after the provider was paid.                               *)
ObserveTurn ==
    LET fine == /\ WithinLimits(exec)
                /\ ChainReference(request.cont) = guard.expected
    IN /\ phase = "accepted"
       /\ exec.order # <<>>
       /\ phase' = IF fine THEN "tools" ELSE "failed"
       /\ guard' = IF ~fine THEN guard
                   ELSE [guard EXCEPT !.turns = @ + 1, !.total = @ + Len(exec.order),
                                      !.order = exec.order,
                                      !.cont = NextContinuation(request, exec),
                                      !.replay = ReplayTransfers(request)]
       /\ asked' = IF ~fine THEN asked
                   ELSE Append(asked, [id |-> exec.id, text |-> TextOf(exec.text, "text"),
                                       calls |-> exec.order])
       /\ cont' = NoContinuation
       /\ exec' = NewCall
       /\ said' = Silence
       /\ live' = <<>>
       /\ UNCHANGED <<conf, norm, queue, pend, timer, message>>
       /\ UNCHANGED <<request, sent, rows, checkpoint, definition, crashes>>

(* a tool runs, its row is durable and its result observed                  *)
(* (observe_tool_result); the key of a row is its run and its call id, so   *)
(* a call id of an earlier turn is a conflict before the tool runs          *)
RunTool(i) ==
    LET call == guard.order[i]
        known == \E j \in DOMAIN rows : rows[j].call = call
        row == [turn |-> guard.turns, index |-> i, call |-> call, gen |-> guard.gen,
                output |-> Len(rows) + 1]
    IN /\ phase = "tools"
       /\ \A o \in guard.outputs : o.call # call
       /\ IF known
          THEN /\ phase' = "failed"
               /\ UNCHANGED <<rows, guard>>
          ELSE /\ rows' = Append(rows, row)
               /\ guard' = [guard EXCEPT !.outputs = @ \cup {[call |-> call, output |-> row.output]}]
               /\ UNCHANGED phase
       /\ UNCHANGED <<conf, norm, queue, exec, pend, timer, live, said, message>>
       /\ UNCHANGED <<cont, request, sent, checkpoint, definition, asked, crashes>>

(* the results in the order of the calls *)
ResultsInOrder ==
    [i \in 1..Len(guard.order) |-> CHOOSE o \in guard.outputs : o.call = guard.order[i]]

(* continuation, and the checkpoint of the batch *)
CloseBatch ==
    LET results == ResultsInOrder
        next == [guard.cont EXCEPT !.input = results,
                                   !.transfers = [i \in 1..Len(results) |-> results[i].output],
                                   !.replay = guard.replay]
    IN /\ phase = "tools"
       /\ Cardinality(guard.outputs) = Len(guard.order)
       /\ cont' = next
       /\ guard' = [guard EXCEPT !.order = <<>>, !.outputs = {}, !.cont = NoContinuation,
                                 !.replay = <<>>, !.expected = ChainReference(next)]
       /\ checkpoint' = [cont |-> next, turns |-> guard.turns, total |-> guard.total,
                         gen |-> guard.gen]
       /\ phase' = "idle"
       /\ UNCHANGED <<conf, norm, queue, exec, pend, timer, live, said, message>>
       /\ UNCHANGED <<request, sent, rows, definition, asked, crashes>>

(* the process dies between two turns; its memory is gone *)
Crash ==
    /\ phase = "idle"
    /\ checkpoint # NoCheckpoint
    /\ crashes < MaxCrashes
    /\ crashes' = crashes + 1
    /\ phase' = "crashed"
    /\ guard' = NewGuard
    /\ cont' = NoContinuation
    /\ UNCHANGED <<conf, norm, queue, exec, pend, timer, live, said, message>>
    /\ UNCHANGED <<request, sent, rows, checkpoint, definition, asked>>

(* stateless_evidence: every result with its turn, from the messages and   *)
(* the input                                                               *)
Evidence(c) ==
    LET w == Walk(c.messages)
    IN w.evidence \o [i \in 1..Len(c.input) |->
                        [turn |-> w.turns, call |-> c.input[i].call, output |-> c.input[i].output]]

RowOf(output) == rows[output]

(* adopt: the evidence is that of the durable rows, all of the generation   *)
(* of the checkpoint                                                        *)
EvidenceIsDurable(cp) ==
    LET ev == Evidence(cp.cont)
    IN /\ Len(ev) = cp.total
       /\ Walk(cp.cont.messages).turns = cp.turns
       /\ \A i \in DOMAIN ev :
             /\ ev[i].output \in DOMAIN rows
             /\ RowOf(ev[i].output).call = ev[i].call
             /\ RowOf(ev[i].output).turn = ev[i].turn

OneGeneration(cp) ==
    \A i \in DOMAIN Disclosed(cp.cont) : RowOf(Disclosed(cp.cont)[i]).gen = cp.gen

(* from_checkpoint_value *)
CheckpointIsValid(cp) ==
    LET c == cp.cont
    IN /\ c.input # <<>>
       /\ Len(c.transfers) = Len(c.input)
       /\ IF Stateless
          THEN /\ WalkIsWhole(Walk(c.messages), c.input)
               /\ Len(c.messages) \in 2..MaxMessages
               /\ Len(c.replay) + Len(c.transfers) = Len(Disclosed(c))
               /\ Len(Disclosed(c)) <= MaxResults
               /\ EvidenceIsDurable(cp)
          ELSE c.id # 0 /\ c.replay = <<>>

(* Mutant: the counts start again. *)
ResumedFresh(cp) == [NewGuard EXCEPT !.expected = ChainReference(cp.cont), !.gen = crashes + 1]

(* resume_after_tool_batch *)
Resumed(cp) == [NewGuard EXCEPT !.turns = cp.turns, !.total = cp.total,
                                !.expected = ChainReference(cp.cont), !.gen = crashes + 1]

(* another attempt adopts the checkpoint (adopt, resume_after_tool_batch), *)
(* or refuses it                                                           *)
Adopt ==
    LET cp == checkpoint
        fine == CheckpointIsValid(cp) /\ OneGeneration(cp)
    IN /\ phase = "crashed"
       /\ phase' = IF fine THEN "idle" ELSE "not_adopted"
       /\ cont' = IF fine THEN cp.cont ELSE cont
       /\ guard' = IF fine THEN Resumed(cp) ELSE guard
       /\ UNCHANGED <<conf, norm, queue, exec, pend, timer, live, said, message>>
       /\ UNCHANGED <<request, sent, rows, checkpoint, definition, asked, crashes>>

(* the host changes the tool's definition between two turns *)
ChangeDefinition ==
    /\ phase = "idle"
    /\ definition = 1
    /\ conf.turns > 1
    /\ definition' = 2
    /\ UNCHANGED callVars
    /\ UNCHANGED <<guard, cont, request, sent, rows, checkpoint, asked, crashes>>

(* observe_provider_turn for an answer without calls, then its message *)
Finish ==
    /\ \E failed \in BOOLEAN : PersistOutput(failed)
    /\ guard' = [guard EXCEPT !.terminal = TRUE, !.turns = @ + 1]
    /\ UNCHANGED <<cont, request, sent, rows, checkpoint, definition, asked, crashes>>

(* a background answer is no turn of a loop: its run ends with it *)
FinishBackground ==
    /\ \E failed \in BOOLEAN : PersistBackgroundOutput(failed)
    /\ UNCHANGED convVars

Next ==
    \/ BeginTurn
    \/ Streaming
    \/ ObserveTurn
    \/ \E i \in DOMAIN guard.order : RunTool(i)
    \/ CloseBatch
    \/ Crash
    \/ Adopt
    \/ ChangeDefinition
    \/ Finish
    \/ FinishBackground

Spec == Init /\ [][Next]_vars
-----------------------------------------------------------------------------
TypeOK ==
    /\ conf \in Deployment
    /\ phase \in {"idle", "streaming", "accepted", "finished", "failed", "tools", "refused",
                  "crashed", "not_adopted"}
    /\ norm.wire \in 0..conf.frames
    /\ norm.visible <= conf.visible
    /\ timer \in 0..DeltaDelay
    /\ exec.count \in 0..MaxEvents
    /\ guard.turns \in 0..conf.turns
    /\ guard.total \in 0..conf.total

ResultsOf(t) ==
    LET row(i) == CHOOSE j \in DOMAIN rows : rows[j].turn = t /\ rows[j].index = i
    IN [i \in 1..Len(asked[t].calls) |-> [call |-> asked[t].calls[i], output |-> rows[row(i)].output]]

NoIds(results) == [i \in 1..Len(results) |-> [results[i] EXCEPT !.call = 0]]

(* What goes on the wire is the conversation: every answer with its text    *)
(* and its calls, and right after it the result each call really had, in    *)
(* the order of the calls (Ollama has only the order to tell them apart);   *)
(* with a retained response, the results of exactly the calls that response *)
(* asked for (request_body of the adapters, next_continuation).             *)
SentIsTheConversation ==
    phase = "streaming" =>
        LET t == Len(asked)
        IN CASE ~Stateless ->
                  /\ t > 0 => request.cont.id = asked[t].id
                  /\ t > 0 => [i \in 1..Len(sent) |-> sent[i].results[1]] = ResultsOf(t)
             [] conf.kind = "anthropic" ->
                  /\ Len(sent) = 2 * t + 1
                  /\ \A j \in 1..t :
                        /\ sent[2 * j] = Wire("assistant", asked[j].text, asked[j].calls, <<>>)
                        /\ sent[2 * j + 1] = Wire("user", <<>>, <<>>, ResultsOf(j))
             [] conf.kind = "ollama" ->
                  sent = <<WireUser>> \o FlattenSeq([j \in 1..t |->
                           <<Wire("assistant", asked[j].text, [i \in 1..Len(asked[j].calls) |-> 0], <<>>)>>
                           \o [i \in 1..Len(asked[j].calls) |->
                                 Wire("tool", <<>>, <<>>, NoIds(<<ResultsOf(j)[i]>>))]])

OnTheWire == FlattenSeq([i \in 1..Len(sent) |->
                [k \in 1..Len(sent[i].results) |-> sent[i].results[k].output]])

(* Every result that goes on the wire, replayed ones included, is covered   *)
(* by a transfer of its own, and no transfer is authorised for a result     *)
(* that is not sent (apply_with_transfers, replay_tool_transfers,           *)
(* validate_request).                                                       *)
EveryResultIsCovered ==
    phase = "streaming" =>
        /\ Len(OnTheWire) = Len(request.transfers)
        /\ Range(OnTheWire) = Range(request.transfers)

(* A batch whose results are durable can be sent to the provider: the next  *)
(* request is refused only when the tool's definition changed under a       *)
(* replayed conversation, the conversation reached its limits, or the       *)
(* responses are not stored (observe_provider_turn, next_continuation,      *)
(* validate_stateless_messages, request_body).                              *)
RefusedForAReason ==
    phase = "refused" =>
        \/ ~Stateless /\ ~conf.store
        \/ Stateless /\ \/ \E i \in DOMAIN request.cont.messages :
                              /\ request.cont.messages[i].role = "assistant"
                              /\ request.cont.messages[i].tool # request.tool
                        \/ Len(request.cont.messages) > MaxMessages
                        \/ Len(request.transfers) > MaxResults

(* An adopted run goes on where it stopped: the guard of the new attempt    *)
(* counts every accepted turn and every durable call and expects the        *)
(* continuation in hand; a checkpoint is refused only for rows of an        *)
(* earlier generation or a conversation at its limits (adopt,               *)
(* from_checkpoint_value, resume_after_tool_batch).                         *)
AdoptedWhereItStopped ==
    /\ phase = "idle" /\ cont # NoContinuation =>
          /\ guard.turns = Len(asked)
          /\ guard.total = Len(rows)
          /\ guard.expected = ChainReference(cont)
    /\ phase = "not_adopted" =>
          Stateless /\ \/ \E i \in DOMAIN rows : rows[i].gen # checkpoint.gen
                       \/ Len(checkpoint.cont.messages) > MaxMessages
                       \/ checkpoint.total > MaxResults

(* A request tells the provider what happened, and every result in it has   *)
(* its authorised transfer.                                                 *)
RequestsAreTrue == SentIsTheConversation /\ EveryResultIsCovered

(* A conversation goes on: over a crash where it stopped, and to the next   *)
(* turn unless a stated limit forbids it.                                   *)
ConversationGoesOn == TypeOK /\ RefusedForAReason /\ AdoptedWhereItStopped
=============================================================================
