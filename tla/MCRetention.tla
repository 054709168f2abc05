---------------------------- MODULE MCRetention ----------------------------
(* Small instances of Retention for TLC. *)
EXTENDS Retention
CONSTANTS w1, w2, r1, r2, f1
\* A run with tools, proposals and attachments; two workers over a run with
\* tools and live deltas; a run whose summary is written while the messages of
\* another are purged.
SmallHosts ==
  {[workers |-> {w1}, runs |-> {r1},
    uses |-> {"tools", "proposals", "attachments", "recovery"}],
   [workers |-> {w1, w2}, runs |-> {r1}, uses |-> {"tools", "deltas", "recovery"}],
   [workers |-> {w1}, runs |-> {r1, r2}, uses |-> {"compaction"}]}
\* One row per transaction where that makes a phase take several passes.
SmallLimit ==
  [t \in Tables |-> IF t \in {"event", "inbox", "context", "message", "checkpoint"}
                     THEN 1 ELSE 3]
=============================================================================
