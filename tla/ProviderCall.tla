----------------------------- MODULE ProviderCall -----------------------------
(***************************************************************************)
(* One streamed provider call (AiProviderCallExecutor::execute, from the   *)
(* open stream on): the frames a provider sends go through the adapter's   *)
(* normaliser, the executor takes its events one by one, checks them,      *)
(* coalesces the visible ones into live deltas and persists those; at the  *)
(* end of the stream it accepts the answer as a whole or fails the call.   *)
(* The accepted answer of a last turn becomes an assistant message.        *)
(*                                                                         *)
(* Time passes while the executor waits for the provider; a step of the    *)
(* executor itself takes none.                                             *)
(***************************************************************************)
EXTENDS Adapters

CONSTANTS Deployment,    \* what the deployment chose: a set of records
                         \*   kind     the adapter,
                         \*   live     is a live delta sink configured,
                         \*   store    OpenAI: store_responses,
                         \*   frames   frames of a stream (100 000 in the code),
                         \*   builtins are built-in tools allowed,
                         \*   visible  bytes of visible text the adapter takes,
                         \*   calls    maximum_tool_calls of the executor, for
                         \*            application and for built-in tools,
                         \*   turns    maximum_provider_turns of the loop,
                         \*   total    maximum_total_tool_calls of the loop
          MaxEvents,     \* maximum_events of the executor
          BlockBytes,    \* maximum_block_bytes of the message
          MaxBlocks      \* maximum_blocks of the message

(* A block holds a character: the constructor of the limits accepts less,    *)
(* but append_text_blocks would then take the empty prefix for ever.         *)
ASSUME ProviderCallAssumption ==
    /\ Deployment \subseteq [kind : {"openai", "anthropic", "ollama", "background"},
                             live : BOOLEAN, store : BOOLEAN, builtins : BOOLEAN, frames : Nat,
                             visible : Nat, calls : Nat, turns : Nat, total : Nat]
    /\ {MaxEvents, BlockBytes, MaxBlocks} \subseteq Nat
    /\ \A text \in Fragment : \A i \in DOMAIN text : text[i] <= BlockBytes

VARIABLES conf,      \* the deployment
          phase,     \* where the call is
          norm,      \* the adapter's normaliser
          queue,     \* events of the last frame the executor has not taken
          exec,      \* the locals of execute
          pend,      \* the coalescer's buffers
          timer,     \* ticks since the sleep of select! was created
          live,      \* the live delta batches persisted in this call
          said,      \* what the provider said in this call (for the properties)
          message    \* blocks of the assistant message

callVars == <<conf, phase, norm, queue, exec, pend, timer, live, said, message>>

(* the locals of execute *)
NewCall == [id |-> 0, usage |-> FALSE, completed |-> FALSE, count |-> 0, order |-> <<>>,
            done |-> {}, builtin |-> {}, builtinDone |-> {}, text |-> <<>>]

Silence == [visible |-> <<>>, calls |-> 0, ended |-> FALSE, after |-> FALSE]

(* what a frame says, whatever the adapter makes of it *)
Heard(s, w) ==
    [visible |-> s.visible \o Tag(IF w.type = "delta" THEN w.kind ELSE "text", w.text),
     calls   |-> s.calls + w.calls + (IF w.kind = "function" THEN 1 ELSE 0),
     ended   |-> s.ended \/ w.done \/ w.type \in {"completed", "message_stop"},
     after   |-> s.after \/ s.ended]

CallInit(c) ==
    /\ conf = c
    /\ phase = "idle"
    /\ norm = NewNormalizer
    /\ queue = <<>>
    /\ exec = NewCall
    /\ pend = EmptyBuffers
    /\ timer = 0
    /\ live = <<>>
    /\ said = Silence
    /\ message = <<>>

(* the stream is open; the executor and the coalescer are new for each call *)
OpenStream ==
    /\ phase' = "streaming"
    /\ norm' = NewNormalizer
    /\ queue' = <<>>
    /\ exec' = NewCall
    /\ pend' = EmptyBuffers
    /\ timer' = 0
    /\ live' = <<>>
    /\ said' = Silence
    /\ UNCHANGED <<conf, message>>

Waiting == phase = "streaming" /\ queue = <<>>

(* the call returns: the stream, the coalescer and the timer end with it *)
StreamEnds ==
    /\ norm' = NewNormalizer
    /\ queue' = <<>>
    /\ pend' = EmptyBuffers
    /\ timer' = 0

(* an error: so do the events taken so far *)
CallFails == StreamEnds /\ phase' = "failed" /\ exec' = NewCall

(* a frame arrives and is normalised; used: call ids of earlier turns *)
Receive(w, used) ==
    LET r == Normalize(conf.kind, norm, w, conf, used)
    IN /\ Waiting
       /\ said' = Heard(said, w)
       /\ \/ /\ r.ok
             /\ norm' = r.n
             /\ queue' = r.out
             /\ UNCHANGED <<phase, exec, pend, timer>>
          \/ ~r.ok /\ CallFails
       /\ UNCHANGED <<conf, live, message>>

(* a frame that does not parse, another model, an error, a dead connection, *)
(* a stream that ends before its end                                        *)
BrokenStream ==
    /\ Waiting
    /\ CallFails
    /\ UNCHANGED <<conf, live, said, message>>

(* persist_live_batches: the batches in order.  It fails at any of them; a  *)
(* batch whose answer is lost is durable and still fails the call.          *)
PersistBatches(batches) == live' = live \o batches

PersistFails(batches) ==
    /\ batches # <<>>
    /\ \E k \in 0..Len(batches) : PersistBatches(SubSeq(batches, 1, k))
    /\ CallFails

(* what the executor remembers of an event *)
Recorded(x, e) ==
    CASE e.type \in {"started", "completed"} ->
           [x EXCEPT !.id = IF e.id = 0 THEN @ ELSE e.id, !.completed = @ \/ e.type = "completed"]
      [] e.type = "usage" -> [x EXCEPT !.usage = TRUE]
      [] e.type = "call" -> [x EXCEPT !.order = Append(@, e.call)]
      [] e.type = "call_done" -> [x EXCEPT !.done = @ \cup {e.call}]
      [] e.type = "builtin" -> [x EXCEPT !.builtin = @ \cup {e.call}]
      [] e.type = "builtin_done" -> [x EXCEPT !.builtinDone = @ \cup {e.call}]
      [] e.type = "delta" -> [x EXCEPT !.text = @ \o Tag(e.kind, e.text)]
      [] OTHER -> x

(* the match on the event: a call is announced once, within the limit, and  *)
(* completed once after that; its arguments fit the tool's schema           *)
Acceptable(x, e) ==
    /\ x.count < MaxEvents
    /\ e.type = "call" => /\ e.call \notin Range(x.order) \cup x.builtin
                          /\ Len(x.order) < conf.calls
    /\ e.type = "arguments" => e.call \in Range(x.order)
    /\ e.type = "call_done" => /\ e.call \in Range(x.order) \ x.done
                               /\ e.args = WholeArgs
    /\ e.type = "builtin" => /\ e.call \notin Range(x.order) \cup x.builtin
                             /\ Cardinality(x.builtin) < conf.calls
    /\ e.type = "builtin_done" => e.call \in x.builtin \ x.builtinDone

(* push_event, where a sink is configured *)
Pushed(e) == IF ~conf.live THEN [p |-> pend, out |-> <<>>]
             ELSE IF e.type = "delta" THEN PushEvent(pend, e.kind, e.text)
             ELSE FlushDue(pend)

(* one turn of the loop with an event *)
Consume ==
    LET e == Head(queue)
        push == Pushed(e)
    IN /\ phase = "streaming"
       /\ queue # <<>>
       /\ Acceptable(exec, e)
       /\ \/ /\ PersistBatches(push.out)
             /\ exec' = [Recorded(exec, e) EXCEPT !.count = @ + 1]
             /\ pend' = push.p
             /\ queue' = Tail(queue)
             /\ timer' = 0
             /\ UNCHANGED <<phase, norm>>
          \/ PersistFails(push.out)
       /\ UNCHANGED <<conf, said, message>>

RefuseEvent ==
    /\ phase = "streaming"
    /\ queue # <<>>
    /\ ~Acceptable(exec, Head(queue))
    /\ CallFails
    /\ UNCHANGED <<conf, live, said, message>>

(* time passes until the sleep ends *)
Tick ==
    /\ Waiting
    /\ conf.live
    /\ timer < DeltaDelay
    /\ timer' = timer + 1
    /\ pend' = Aged(pend)
    /\ UNCHANGED <<conf, phase, norm, queue, exec, live, said, message>>

(* the sleep ended first: what is due is persisted, a new sleep begins *)
TimerFires ==
    LET due == FlushDue(pend)
    IN /\ Waiting
       /\ conf.live
       /\ timer = DeltaDelay
       /\ \/ /\ PersistBatches(due.out)
             /\ pend' = due.p
             /\ timer' = 0
             /\ UNCHANGED <<phase, norm, queue, exec>>
          \/ PersistFails(due.out)
       /\ UNCHANGED <<conf, said, message>>

(* after the loop: usage, the end, every call completed, an id where the    *)
(* mode has one                                                             *)
AnswerIsComplete(x) ==
    /\ x.usage
    /\ x.completed
    /\ x.done = Range(x.order)
    /\ x.builtinDone = x.builtin
    /\ conf.kind # "openai" => x.id = 0
    /\ conf.kind = "openai" /\ x.order # <<>> => x.id # 0

(* the provider closes the stream: the rest of the buffers is persisted,    *)
(* the answer checked, its usage settled and the reservation committed      *)
Rest == IF conf.live THEN FlushAll(pend).out ELSE <<>>

EndOfStream ==
    /\ Waiting
    /\ Finished(conf.kind, norm)
    /\ \/ /\ AnswerIsComplete(exec)
          /\ PersistBatches(Rest)
          /\ StreamEnds
          /\ phase' = "accepted"
          /\ UNCHANGED exec
       \/ PersistFails(Rest)
       \/ PersistBatches(Rest) /\ CallFails
    /\ UNCHANGED <<conf, said, message>>

(* A background response is retrieved as a whole: a completed one is the    *)
(* answer, another end or a document that is not fine ends without one      *)
Retrieve(d) ==
    /\ phase = "streaming"
    /\ conf.kind = "background"
    /\ said' = [said EXCEPT !.visible = BackgroundText(d.output), !.ended = TRUE]
    /\ IF BackgroundFine(d, conf.visible) /\ d.status = "completed"
       THEN /\ phase' = "accepted"
            /\ exec' = FoldLeft(Recorded, exec, BackgroundEvents(d))
            /\ StreamEnds
       ELSE CallFails
    /\ UNCHANGED <<conf, live, message>>

(* append_text_blocks: cut at the block ceiling, between characters *)
AppendCharacter(blocks, c) ==
    IF blocks # <<>> /\ Bytes(Last(blocks)) + c <= BlockBytes
    THEN [blocks EXCEPT ![Len(blocks)] = Append(@, c)] ELSE Append(blocks, <<c>>)

TextBlocks(text) == FoldLeft(AppendCharacter, <<>>, text)

TextOf(tagged, kind) ==
    FlattenSeq([i \in 1..Len(tagged) |-> IF tagged[i][1] = kind THEN <<tagged[i][2]>> ELSE <<>>])

(* normalize_blocks: the text, then the summaries, then what is structured;  *)
(* an answer with none of these has one block of metadata                   *)
NormalizeBlocks(x) ==
    LET of(kind) == LET b == TextBlocks(TextOf(x.text, kind))
                    IN [i \in 1..Len(b) |-> [kind |-> kind, text |-> b[i]]]
        all == of("text") \o of("reasoning")
               \o [i \in 1..Cardinality(x.builtinDone) |-> [kind |-> "builtin", text |-> <<>>]]
    IN IF all = <<>> THEN <<[kind |-> "metadata", text |-> <<>>]>> ELSE all

(* persist: the answer of a turn without calls becomes a message, unless it *)
(* has too many blocks, the principal or its access changed or a write fails *)
PersistOutput(failed) ==
    /\ phase = "accepted"
    /\ conf.kind # "background"
    /\ exec.order = <<>>
    /\ failed \/ Len(NormalizeBlocks(exec)) <= MaxBlocks
    /\ message' = IF failed THEN message ELSE NormalizeBlocks(exec)
    /\ phase' = IF failed THEN "failed" ELSE "finished"
    /\ UNCHANGED <<conf, norm, queue, exec, pend, timer, live, said>>

(* prepare_background_provider_output, then the terminal commit: a failure  *)
(* writes nothing, and the answer may be retrieved again                    *)
PersistBackgroundOutput(failed) ==
    /\ phase = "accepted"
    /\ conf.kind = "background"
    /\ failed \/ Len(NormalizeBlocks(exec)) <= MaxBlocks
    /\ message' = IF failed THEN message ELSE NormalizeBlocks(exec)
    /\ phase' = IF failed THEN "streaming" ELSE "finished"
    /\ exec' = IF failed THEN NewCall ELSE exec
    /\ said' = IF failed THEN Silence ELSE said
    /\ UNCHANGED <<conf, norm, queue, pend, timer, live>>

CallNext(used) ==
    \/ \E w \in FramesOf(conf.kind) : Receive(w, used)
    \/ BrokenStream
    \/ Consume
    \/ RefuseEvent
    \/ Tick
    \/ TimerFires
    \/ EndOfStream
    \/ \E d \in BackgroundDocuments : Retrieve(d)
-----------------------------------------------------------------------------
(* An accepted answer is all of what the provider said and nothing else:    *)
(* the visible text in its order, every call it asked for, one end with     *)
(* nothing after it (the normalisers and the loop of execute).              *)
AnswerIsWhole ==
    phase \in {"accepted", "finished"} =>
        /\ exec.text = said.visible
        /\ Len(exec.order) = said.calls
        /\ said.ended /\ ~said.after

(* A subscriber that puts the live deltas together has a prefix of what the *)
(* provider said, whatever failed, in the order of the provider, and all of *)
(* it once the answer is accepted (push_event, persist_live_batches).       *)
LiveIsTheAnswer ==
    /\ IsPrefix(Flatten(live), said.visible)
    /\ phase = "accepted" /\ conf.live /\ conf.kind # "background" => Flatten(live) = exec.text
    /\ \A i \in DOMAIN live : Bytes(live[i].text) \in 1..DeltaBytes

(* A fragment waits less than twice the delay: the sleep of the loop starts *)
(* again at every event, so the delay alone is not the bound (the select!   *)
(* of execute and flush_due).                                               *)
BufferedAtMostTwice ==
    \A k \in Kinds : pend[k].age < 2 * DeltaDelay

TextIn(blocks, kind) ==
    FlattenSeq([i \in 1..Len(blocks) |-> IF blocks[i].kind = kind THEN blocks[i].text ELSE <<>>])

(* The message holds the answer: its text blocks put together are the       *)
(* visible text of their kind (normalize_blocks, append_text_blocks).       *)
MessageIsTheAnswer ==
    phase = "finished" =>
        \A kind \in Kinds :
            /\ TextIn(message, kind) = TextOf(said.visible, kind)
            /\ \A i \in DOMAIN message :
                  message[i].kind = kind => Bytes(message[i].text) \in 1..BlockBytes

(* What is accepted is what was said, and what is stored is what was        *)
(* accepted.                                                                *)
AnswerIsKept == AnswerIsWhole /\ MessageIsTheAnswer

(* A reader of the live deltas sees the answer, in order and in time.       *)
ReadersSeeTheAnswer == LiveIsTheAnswer /\ BufferedAtMostTwice
=============================================================================
