---------------------------- MODULE MCConversation ----------------------------
EXTENDS Conversation

(* a deployment with live deltas and one turn, for the stream of one answer, *)
(* and one without, for conversations of several turns                       *)
OneTurn(kind, frames) ==
    [kind |-> kind, live |-> TRUE, store |-> TRUE, builtins |-> TRUE, visible |-> 5, frames |-> frames,
     calls |-> 1, turns |-> 1, total |-> 1]
Turns(kind, store, turns, frames, visible) ==
    [kind |-> kind, live |-> FALSE, store |-> store, builtins |-> FALSE,
     visible |-> visible, frames |-> frames, calls |-> 2, turns |-> turns, total |-> 3]
MCDeployment ==
    {OneTurn("openai", 5), OneTurn("anthropic", 6), OneTurn("ollama", 3), OneTurn("background", 0),
     Turns("openai", TRUE, 2, 6, 0), Turns("openai", FALSE, 2, 4, 0),
     Turns("anthropic", TRUE, 2, 9, 0), Turns("anthropic", TRUE, 3, 6, 1),
     Turns("ollama", TRUE, 4, 1, 1)}
MCFragment == {<<1>>, <<2, 2>>}
=============================================================================
