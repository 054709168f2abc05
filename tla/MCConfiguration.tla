--------------------------- MODULE MCConfiguration ---------------------------
EXTENDS Configuration, TLC

CONSTANTS k1, k2, p1, p2

Symmetry == Permutations(Key) \cup Permutations(Policy)

(* constraints: unlimited, and narrower ones that overlap in part; the last *)
(* is left over from a deployment with a wider ceiling                      *)
MCCeiling == [enabled |-> TRUE, tools |-> {"t1", "t2"}, limit |-> 2]
MCInputs == {[enabled |-> TRUE, tools |-> EveryTool, limit |-> Unlimited],
             [enabled |-> TRUE, tools |-> {"t1"}, limit |-> Unlimited],
             [enabled |-> TRUE, tools |-> {"t2"}, limit |-> 1],
             [enabled |-> FALSE, tools |-> {}, limit |-> 0],
             [enabled |-> TRUE, tools |-> {"t1", "t3"}, limit |-> 3]}

(* the last is refused: its cached input is dearer than its input *)
MCRates == {[fixed |-> 1, input |-> 3, cached |-> 1, output |-> 5, web |-> 1, file |-> 2],
            [fixed |-> 0, input |-> 1, cached |-> 1, output |-> 0, web |-> 2, file |-> 0],
            [fixed |-> 0, input |-> 1, cached |-> 5, output |-> 0, web |-> 0, file |-> 0]}
=============================================================================
