--------------------------- MODULE MCAttachments ---------------------------
(* Small instances of Attachments. *)
EXTENDS Attachments, TLC
CONSTANTS w1, w2
Symmetry == Permutations(Callers)
=============================================================================
