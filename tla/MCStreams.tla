----------------------------- MODULE MCStreams -----------------------------
(***************************************************************************)
(* Streams on a small instance: three events, pages of one, a channel of   *)
(* one wakeup.                                                             *)
(***************************************************************************)
EXTENDS Streams
=============================================================================
