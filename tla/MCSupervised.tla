--------------------------- MODULE MCSupervised ---------------------------
(* Instances of Supervised for TLC. *)
EXTENDS Supervised, TLC

CONSTANTS t1, t2

Symmetry == Permutations(Task)
===========================================================================
