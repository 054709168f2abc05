--------------------------- MODULE MCBackground ---------------------------
(* Instances of Background for TLC. *)
EXTENDS Background, TLC

CONSTANTS t1, t2, p1, p2

Symmetry == Permutations(Reconciler)
===========================================================================
