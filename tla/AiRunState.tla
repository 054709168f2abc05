---------------------------- MODULE AiRunState ----------------------------
(***************************************************************************)
(* The durable run states and the worker transition table of               *)
(* src/run_state.rs.  The table is the pure half of the run state machine: *)
(* RunLease uses it where the run service consults it, and checks the      *)
(* service's own transitions against it.                                   *)
(***************************************************************************)

\* The twelve durable states of AiRunState, by their stored value.
AiRunStates ==
  {"queued", "leased", "running", "waiting_approval", "waiting_tool",
   "waiting_reauth", "waiting_provider", "retry_scheduled",
   "recovery_required", "completed", "failed", "cancelled"}

\* AiRunState::is_terminal.
Terminal == {"completed", "failed", "cancelled"}

\* AiRunState::can_transition_to: the states a worker may move a run to.
WorkerTargets ==
  [s \in AiRunStates |->
    CASE s \in {"queued", "retry_scheduled"} -> {"leased", "cancelled"}
      [] s = "leased"  -> {"running", "cancelled", "failed"}
      [] s = "running" -> {"waiting_approval", "waiting_tool",
                           "waiting_reauth", "waiting_provider",
                           "retry_scheduled", "recovery_required"} \cup Terminal
      [] s = "waiting_approval" -> {"running", "waiting_tool", "waiting_reauth",
                                    "cancelled", "failed", "recovery_required"}
      [] s = "waiting_tool" -> {"running", "retry_scheduled", "cancelled",
                                "failed", "recovery_required"}
      [] s = "waiting_reauth" -> {"queued", "cancelled", "failed",
                                  "recovery_required"}
      [] OTHER -> {}]

CanTransitionTo(from, to) == to \in WorkerTargets[from]

\* The states AiRunCompletion::new accepts as the end of an attempt.
CompletionStates == Terminal \cup {"recovery_required"}
===========================================================================
