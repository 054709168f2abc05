-------------------------- MODULE MCReadOnlyAgent --------------------------
(* Instances of ReadOnlyAgent for TLC. *)
EXTENDS ReadOnlyAgent, TLC

CONSTANTS t1, t2

Symmetry == Permutations(Task)
============================================================================
