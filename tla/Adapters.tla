------------------------------- MODULE Adapters -------------------------------
(***************************************************************************)
(* The stream normalisers of the provider adapters (providers/openai.rs,   *)
(* anthropic.rs, ollama.rs): each turns the frames of its provider into    *)
(* the events the executor reads, or refuses the stream.  A frame is a     *)
(* record with well-formed fields in any order; a frame that does not      *)
(* parse, names another model or comes with a transport error is the       *)
(* broken stream of ProviderCall.  The text of a call's arguments is the   *)
(* number of its fragments; WholeArgs of them are a JSON object.           *)
(***************************************************************************)
EXTENDS LiveDelta, FiniteSets

CONSTANTS MaxItem,       \* output items or content blocks a provider numbers
          CallId         \* call ids a provider may choose

ASSUME AdaptersAssumption == MaxItem \in Nat \ {0} /\ IsFiniteSet(CallId)

WholeArgs == 2
MaxTokens == 1           \* maximum_output_tokens of the request
Item == 1..MaxItem
ResponseId == 1..2       \* ids a provider may give its response

NoItem == [kind |-> "none", call |-> 0, args |-> 0]

(* the state of a normaliser: OpenAiEventNormalizer, AnthropicEventNormalizer *)
(* and the locals of Ollama's normalized_stream                               *)
NewNormalizer == [started |-> FALSE, completed |-> FALSE, stop |-> FALSE, id |-> 0,
                  items |-> [i \in Item |-> NoItem], seen |-> {}, done |-> {},
                  visible |-> 0, wire |-> 0]

(* ProviderEvent *)
Event(type) == [type |-> type, id |-> 0, call |-> 0, kind |-> "text", text |-> <<>>, args |-> 0]
Started(id) == [Event("started") EXCEPT !.id = id]
Completed(id) == [Event("completed") EXCEPT !.id = id]
Delta(kind, text) == [Event("delta") EXCEPT !.kind = kind, !.text = text]
CallEvent(type, call, args) == [Event(type) EXCEPT !.call = call, !.args = args]

Rejected(n) == [ok |-> FALSE, n |-> n, out |-> <<>>]
Emit(n, out) == [ok |-> TRUE, n |-> n, out |-> out]

(* what a provider may put in a frame *)
Frame(type) == [type |-> type, id |-> 0, item |-> 1, kind |-> "text", call |-> 0,
                text |-> <<>>, args |-> 0, tokens |-> 0, calls |-> 0, done |-> FALSE]
-----------------------------------------------------------------------------
(* OpenAI, xAI and compatible Responses streams *)

CreatedFrame(i) == [Frame("created") EXCEPT !.id = i]
DeltaFrame(k, t) == [Frame("delta") EXCEPT !.kind = k, !.text = t]
AddedFrame(i, k, c) == [Frame("added") EXCEPT !.item = i, !.kind = k, !.call = c]
ArgumentsFrame(i) == [Frame("arguments") EXCEPT !.item = i, !.args = 1]
ItemDoneFrame(i, a) == [Frame("item_done") EXCEPT !.item = i, !.args = a]
BuiltinDoneFrame(i) == [Frame("builtin_done") EXCEPT !.item = i]
CompletedFrame(i, t) == [Frame("completed") EXCEPT !.id = i, !.tokens = t]

OpenAiFrames ==
    {CreatedFrame(i) : i \in ResponseId}
    \cup {DeltaFrame(k, t) : k \in Kinds, t \in Fragment}
    \cup {AddedFrame(i, k, c) : i \in Item, k \in {"function", "builtin"}, c \in CallId}
    \cup {AddedFrame(i, "message", 0) : i \in Item}
    \cup {ArgumentsFrame(i) : i \in Item}
    \cup {ItemDoneFrame(i, a) : i \in Item, a \in 1..WholeArgs}
    \cup {BuiltinDoneFrame(i) : i \in Item}
    \cup {CompletedFrame(i, t) : i \in ResponseId, t \in 1..2}
    \cup {Frame("other")}

(* record_visible_bytes *)
RecordVisible(n, w, maximum) ==
    LET m == [n EXCEPT !.visible = @ + Bytes(w.text)]
    IN IF m.visible > maximum THEN Rejected(n)
       ELSE Emit(m, <<Delta(w.kind, w.text)>>)

(* response_created *)
ResponseCreated(n, w) ==
    IF n.started \/ n.completed THEN Rejected(n)
    ELSE Emit([n EXCEPT !.started = TRUE, !.id = w.id], <<Started(w.id)>>)

(* output_item_added: a call has an id of its own, whatever its kind; a     *)
(* built-in tool is one the request allowed                                 *)
OutputItemAdded(n, w, builtins) ==
    IF n.items[w.item].kind # "none" THEN Rejected(n)
    ELSE IF w.kind = "message" THEN Emit(n, <<>>)
    ELSE IF (w.kind = "builtin" /\ ~builtins) \/ w.call \in n.seen THEN Rejected(n)
    ELSE Emit([n EXCEPT !.items[w.item] = [kind |-> w.kind, call |-> w.call, args |-> w.args],
                        !.seen = @ \cup {w.call}],
              <<CallEvent(IF w.kind = "function" THEN "call" ELSE "builtin", w.call, 0)>>)

ArgumentsDelta(n, w) ==
    IF n.items[w.item].kind # "function" THEN Rejected(n)
    ELSE Emit([n EXCEPT !.items[w.item].args = @ + w.args],
              <<CallEvent("arguments", n.items[w.item].call, w.args)>>)

(* complete_function: the final arguments are the streamed ones, an object; *)
(* the second of the two frames that complete a call says nothing           *)
CompleteFunction(n, w) ==
    LET it == n.items[w.item]
    IN IF it.kind # "function" \/ it.args \notin {0, w.args} \/ w.args # WholeArgs THEN Rejected(n)
       ELSE IF it.call \in n.done THEN Emit(n, <<>>)
       ELSE Emit([n EXCEPT !.done = @ \cup {it.call}], <<CallEvent("call_done", it.call, w.args)>>)

(* complete_builtin, complete_builtin_item, emit_builtin_completion *)
CompleteBuiltin(n, w) ==
    LET it == n.items[w.item]
    IN IF it.kind # "builtin" THEN Rejected(n)
       ELSE IF it.call \in n.done THEN Emit(n, <<>>)
       ELSE Emit([n EXCEPT !.done = @ \cup {it.call}], <<CallEvent("builtin_done", it.call, 0)>>)

(* response_completed *)
ResponseCompleted(n, w) ==
    IF w.id # n.id \/ n.seen # n.done \/ w.tokens > MaxTokens THEN Rejected(n)
    ELSE Emit([n EXCEPT !.completed = TRUE], <<Event("usage"), Completed(w.id)>>)

OpenAiNormalize(n, w, limits) ==
    IF w.type = "created" THEN ResponseCreated(n, w)
    ELSE IF ~n.started \/ n.completed THEN Rejected(n)
    ELSE CASE w.type = "delta" -> RecordVisible(n, w, limits.visible)
           [] w.type = "added" -> OutputItemAdded(n, w, limits.builtins)
           [] w.type = "arguments" -> ArgumentsDelta(n, w)
           [] w.type = "item_done" -> CompleteFunction(n, w)
           [] w.type = "builtin_done" -> CompleteBuiltin(n, w)
           [] w.type = "completed" -> ResponseCompleted(n, w)
           [] w.type = "other" -> Emit(n, <<Event("unknown")>>)

OpenAiFinish(n) == n.started /\ n.completed
-----------------------------------------------------------------------------
(* Anthropic Messages streams *)

FunctionBlockFrame(i, c) == [Frame("block_start") EXCEPT !.item = i, !.kind = "function", !.call = c]
TextBlockFrame(i, t) == [Frame("block_start") EXCEPT !.item = i, !.text = t]
TextDeltaFrame(i, t) == [Frame("block_delta") EXCEPT !.item = i, !.text = t]
InputDeltaFrame(i, a) == [Frame("block_delta") EXCEPT !.item = i, !.args = a]
BlockStopFrame(i) == [Frame("block_stop") EXCEPT !.item = i]
MessageDeltaFrame(k, t) == [Frame("message_delta") EXCEPT !.kind = k, !.tokens = t]

AnthropicFrames ==
    {Frame("message_start"), Frame("message_stop"), Frame("other")}
    \cup {FunctionBlockFrame(i, c) : i \in Item, c \in CallId}
    \cup {TextBlockFrame(i, t) : i \in Item, t \in Fragment \cup {<<>>}}
    \cup {TextDeltaFrame(i, t) : i \in Item, t \in Fragment}
    \cup {InputDeltaFrame(i, a) : i \in Item, a \in 1..WholeArgs}
    \cup {BlockStopFrame(i) : i \in Item}
    \cup {MessageDeltaFrame(k, t) : k \in {"end_turn", "tool_use"}, t \in 1..2}

Open(n) == {i \in Item : n.items[i].kind \in {"text", "function"}}

(* message_start: a second one is refused only while the first is open *)
MessageStart(n) ==
    IF n.started THEN Rejected(n)
    ELSE Emit([n EXCEPT !.started = TRUE], <<Started(0)>>)

ContentStart(n, w, maximum) ==
    LET m == [n EXCEPT !.items[w.item].kind = "text"]
    IN IF ~n.started \/ n.stop \/ n.items[w.item].kind # "none" THEN Rejected(n)
       ELSE IF w.kind = "text" /\ w.text = <<>> THEN Emit(m, <<>>)
       ELSE IF w.kind = "text" THEN RecordVisible(m, w, maximum)
       ELSE IF w.call \in n.seen THEN Rejected(n)
       ELSE Emit([n EXCEPT !.items[w.item] = [kind |-> "function", call |-> w.call, args |-> 0],
                           !.seen = @ \cup {w.call}],
                 <<CallEvent("call", w.call, 0)>>)

ContentDelta(n, w, maximum) ==
    IF ~n.started \/ n.stop THEN Rejected(n)
    ELSE CASE n.items[w.item].kind = "text" /\ w.args = 0 -> RecordVisible(n, w, maximum)
           [] n.items[w.item].kind = "function" /\ w.args > 0 -> ArgumentsDelta(n, w)
           [] OTHER -> Rejected(n)

(* content_stop: the block is closed for good, its arguments must be whole *)
ContentStop(n, w) ==
    LET it == n.items[w.item]
        m == [n EXCEPT !.items[w.item].kind = "closed"]
    IN IF ~n.started \/ n.stop \/ w.item \notin Open(n) THEN Rejected(n)
       ELSE IF it.kind = "text" THEN Emit(m, <<>>)
       ELSE IF it.args # WholeArgs THEN Rejected(n)
       ELSE Emit(m, <<CallEvent("call_done", it.call, it.args)>>)

(* message_delta: the reason to stop agrees with the calls *)
MessageDelta(n, w) ==
    IF \/ ~n.started \/ n.stop \/ Open(n) # {}
       \/ (w.kind = "tool_use") # (n.seen # {})
       \/ w.tokens > MaxTokens
    THEN Rejected(n)
    ELSE Emit([n EXCEPT !.stop = TRUE], <<>>)

(* message_stop takes the counts, so that a second one is refused; wire    *)
(* order makes them present whenever the stop reason is                    *)
MessageStop(n) ==
    IF ~n.started \/ Open(n) # {} \/ ~n.stop \/ n.completed THEN Rejected(n)
    ELSE Emit([n EXCEPT !.started = FALSE, !.completed = TRUE],
              <<Event("usage"), Completed(0)>>)

AnthropicNormalize(n, w, maximum) ==
    CASE w.type = "message_start" -> MessageStart(n)
      [] w.type = "block_start" -> ContentStart(n, w, maximum)
      [] w.type = "block_delta" -> ContentDelta(n, w, maximum)
      [] w.type = "block_stop" -> ContentStop(n, w)
      [] w.type = "message_delta" -> MessageDelta(n, w)
      [] w.type = "message_stop" -> MessageStop(n)
      [] w.type = "other" -> IF n.started /\ ~n.stop THEN Emit(n, <<Event("unknown")>>)
                             ELSE Rejected(n)

(* Mutant: a stop reason counts as the end of the message. *)
AnthropicFinishStopped(n) == n.stop /\ Open(n) = {}

AnthropicFinish(n) == ~n.started /\ n.stop /\ Open(n) = {}
-----------------------------------------------------------------------------
(* Ollama chat streams: a line carries text, whole calls and the end; the  *)
(* adapter names the calls itself, with fresh ids                          *)

LineFrame(t, k, d) == [Frame("line") EXCEPT !.text = t, !.calls = k, !.done = d]

OllamaFrames ==
    {LineFrame(t, k, d) : t \in Fragment \cup {<<>>}, k \in 0..Cardinality(CallId), d \in BOOLEAN}

FreshCalls(n, k, used) ==
    [i \in 1..k |-> 1 + i + Cardinality(n.seen) + Cardinality(used) + Cardinality(CallId)]

(* normalize_chunk, with the check of normalized_stream for a line after the end *)
OllamaNormalize(n, w, used) ==
    LET ids == FreshCalls(n, w.calls, used)
        m == [n EXCEPT !.started = TRUE, !.completed = w.done, !.seen = @ \cup Range(ids)]
    IN IF n.completed THEN Rejected(n)
       ELSE Emit(m, (IF n.started THEN <<>> ELSE <<Started(0)>>)
                    \o (IF w.text = <<>> THEN <<>> ELSE <<Delta("text", w.text)>>)
                    \o FlattenSeq([i \in 1..w.calls |->
                          <<CallEvent("call", ids[i], 0), CallEvent("call_done", ids[i], WholeArgs)>>])
                    \o (IF w.done THEN <<Event("usage"), Completed(0)>> ELSE <<>>))

OllamaFinish(n) == n.completed
-----------------------------------------------------------------------------
(* OpenAI background responses: one document instead of a stream *)

BackgroundItems == [kind : Kinds, text : Fragment, whole : BOOLEAN]
BackgroundStatus == {"queued", "in_progress", "completed", "failed", "incomplete", "cancelled"}

(* bound: the document names this submission; tokens 0: it has no usage *)
BackgroundDocuments ==
    [status : BackgroundStatus, bound : BOOLEAN, tokens : 0..MaxTokens + 1,
     output : {<<>>} \cup {<<i>> : i \in BackgroundItems}
              \cup {<<i, j>> : i, j \in {b \in BackgroundItems : b.whole}}]

BackgroundText(output) == Flatten(output)

(* normalize_background_output, normalize_background_content_item *)
BackgroundOutputFine(d, maximum) ==
    /\ FoldLeft(LAMBDA n, i : n + Bytes(i.text), 0, d.output) <= maximum
    /\ d.status = "completed" => \A i \in DOMAIN d.output : d.output[i].whole

(* normalize_background_usage *)
BackgroundUsageFine(d) == d.tokens \in 1..MaxTokens

(* normalize_background_response: a document that is not final says nothing *)
(* yet, a final one has its usage; only a completed one has events          *)
BackgroundFine(d, maximum) ==
    /\ d.bound
    /\ IF d.status \in {"queued", "in_progress"} THEN d.output = <<>> /\ d.tokens = 0
       ELSE BackgroundOutputFine(d, maximum) /\ BackgroundUsageFine(d)

BackgroundEvents(d) ==
    <<Started(1)>> \o [i \in 1..Len(d.output) |-> Delta(d.output[i].kind, d.output[i].text)]
    \o <<Event("usage"), Completed(1)>>
-----------------------------------------------------------------------------
FramesOf(kind) == CASE kind = "openai" -> OpenAiFrames
                    [] kind = "anthropic" -> AnthropicFrames
                    [] kind = "ollama" -> OllamaFrames
                    [] OTHER -> {}

(* normalize: the count of frames comes first (Ollama counts none, its     *)
(* streams are bounded by the executor's count of events)                  *)
Normalize(kind, n, w, limits, used) ==
    LET m == [n EXCEPT !.wire = @ + 1]
    IN IF n.wire >= limits.frames THEN Rejected(n)
       ELSE CASE kind = "openai" -> OpenAiNormalize(m, w, limits)
              [] kind = "anthropic" -> AnthropicNormalize(m, w, limits.visible)
              [] kind = "ollama" -> OllamaNormalize(m, w, used)

Finished(kind, n) == CASE kind = "openai" -> OpenAiFinish(n)
                       [] kind = "anthropic" -> AnthropicFinish(n)
                       [] kind = "ollama" -> OllamaFinish(n)
                       [] OTHER -> FALSE
=============================================================================
