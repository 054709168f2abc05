---------------------------- MODULE MCRunLease ----------------------------
(* Instances of RunLease for TLC. *)
EXTENDS RunLease, TLC

CONSTANTS t1, t2

Symmetry == Permutations(Task)
===========================================================================
