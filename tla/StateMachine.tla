---------------------------- MODULE StateMachine ----------------------------
(***************************************************************************)
(* The run and task state machines of domain/state_machine.py: two tables  *)
(* of allowed edges and the transition function that validates a change of *)
(* state against them.  Raising InvalidTransitionError is modelled by the  *)
(* predicate being FALSE; the caller decides what the exception does.      *)
(***************************************************************************)

RunState == {"CREATED", "PLANNING", "RUNNING", "PAUSE_REQUESTED", "PAUSED",
             "RECOVERING", "COMPLETED", "FAILED", "CANCELLED"}

TaskState == {"PENDING", "READY", "RUNNING", "WAITING", "PAUSE_REQUESTED",
              "PAUSED", "SUCCEEDED", "FAILED_RETRYABLE", "FAILED_TERMINAL",
              "CANCELLED", "SKIPPED"}

RunTerminal == {"COMPLETED", "FAILED", "CANCELLED"}
TaskTerminal == {"SUCCEEDED", "FAILED_TERMINAL", "CANCELLED", "SKIPPED"}

\* RUN_TRANSITIONS: the states a run may be moved to from state s.
RunTransitions(s) ==
    CASE s = "CREATED"         -> {"PLANNING", "CANCELLED", "FAILED"}
      [] s = "PLANNING"        -> {"RUNNING", "PAUSE_REQUESTED", "CANCELLED", "FAILED"}
      [] s = "RUNNING"         -> {"PAUSE_REQUESTED", "COMPLETED", "FAILED",
                                   "CANCELLED", "RECOVERING"}
      [] s = "PAUSE_REQUESTED" -> {"PAUSED", "CANCELLED", "FAILED", "COMPLETED"}
      [] s = "PAUSED"          -> {"RECOVERING", "CANCELLED", "FAILED"}
      [] s = "RECOVERING"      -> {"RUNNING", "PAUSED", "CANCELLED", "FAILED"}
      [] OTHER                 -> {}

\* TASK_TRANSITIONS: the states a task may be moved to from state s.
TaskTransitions(s) ==
    CASE s = "PENDING"          -> {"READY", "WAITING", "CANCELLED", "SKIPPED"}
      [] s = "READY"            -> {"RUNNING", "PAUSE_REQUESTED", "CANCELLED", "SKIPPED"}
      [] s = "RUNNING"          -> {"SUCCEEDED", "FAILED_RETRYABLE", "FAILED_TERMINAL",
                                    "WAITING", "PAUSE_REQUESTED", "CANCELLED"}
      [] s = "WAITING"          -> {"READY", "CANCELLED", "SKIPPED", "FAILED_TERMINAL"}
      [] s = "PAUSE_REQUESTED"  -> {"PAUSED", "SUCCEEDED", "CANCELLED", "FAILED_TERMINAL"}
      [] s = "PAUSED"           -> {"READY", "CANCELLED"}
      [] s = "FAILED_RETRYABLE" -> {"READY", "FAILED_TERMINAL", "CANCELLED"}
      [] OTHER                  -> {}

\* transition_run / transition_task: a self-transition is always accepted.
CanTransitionRun(s, target) == target = s \/ target \in RunTransitions(s)
CanTransitionTask(s, target) == target = s \/ target \in TaskTransitions(s)
=============================================================================
