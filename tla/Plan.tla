-------------------------------- MODULE Plan --------------------------------
(***************************************************************************)
(* The task graph of a run and the scheduling decisions derived from it:   *)
(* domain/plan.py (ready_tasks) and the batch selection and dependent      *)
(* skipping of orchestration/orchestrator.py.  A task is identified by its *)
(* position in task_id order, the order in which get_tasks returns rows.   *)
(***************************************************************************)
EXTENDS Integers, FiniteSets, StateMachine

CONSTANTS
    Task,                \* the tasks of the active plan, in task_id order
    Dependencies,        \* TaskSpec.dependencies
    Priority,            \* TaskSpec.priority; a lower number is scheduled first
    Parallelizable,      \* TaskSpec.parallelizable
    MaximumAttempts,     \* TaskSpec.maximum_attempts
    Policy,              \* TaskSpec.failure_policy
    MaximumConcurrency,  \* Settings.maximum_concurrency
    RetryMaximumAttempts \* Settings.retry.maximum_attempts

FailurePolicy == {"FAIL_RUN", "SKIP_DEPENDENTS", "RETRY", "MANUAL_REVIEW"}

ASSUME PlanAssumption ==
    /\ Task \in SUBSET Nat
    /\ Dependencies \in [Task -> SUBSET Task]
    /\ Priority \in [Task -> Nat]
    /\ Parallelizable \in [Task -> BOOLEAN]
    /\ MaximumAttempts \in [Task -> Nat \ {0}]
    /\ Policy \in [Task -> FailurePolicy]
    /\ MaximumConcurrency \in Nat \ {0}
    /\ RetryMaximumAttempts \in Nat \ {0}

TaskRow == [state : TaskState, attempt : Nat]

\* The order in which a loop over the list of tasks meets them.
FirstById(S, t) == t \in S /\ \A u \in S : t <= u

\* Sort key of ready_tasks: (priority, task_id).
Precedes(t, u) ==
    \/ Priority[t] < Priority[u]
    \/ Priority[t] = Priority[u] /\ t < u

FirstByPriority(S, t) == t \in S /\ \A u \in S \ {t} : Precedes(t, u)

\* Mutant: a dependency that ended, however it ended, is good enough.
ReadyTasksAfterAnyEnd(rows) ==
    {t \in Task : /\ rows[t].state \in {"PENDING", "READY", "FAILED_RETRYABLE"}
                  /\ \A d \in Dependencies[t] : rows[d].state \in TaskTerminal}

\* ready_tasks over the task records rows.
ReadyTasks(rows) ==
    {t \in Task : /\ rows[t].state \in {"PENDING", "READY", "FAILED_RETRYABLE"}
                  /\ \A d \in Dependencies[t] : rows[d].state = "SUCCEEDED"}

\* _select_batch: the longest parallelizable prefix of the candidates within
\* the limit, or the first candidate alone when it is a serial one.
SelectBatch(candidates, limit) ==
    LET before(t) == {u \in candidates : Precedes(u, t)}
        first == {t \in candidates : before(t) = {}}
    IN IF limit <= 1 \/ \E t \in first : ~Parallelizable[t]
       THEN first
       ELSE {t \in candidates : /\ Cardinality(before(t)) < limit
                                /\ \A u \in before(t) \cup {t} : Parallelizable[u]}

\* The blocked set of _skip_transitive_dependents: everything that depends on
\* t through any chain of dependencies, t excluded.
Descendants(t) ==
    LET closed(B) == \A u \in Task : Dependencies[u] \cap B # {} => u \in B
    IN {u \in Task \ {t} : \A B \in SUBSET Task : t \in B /\ closed(B) => u \in B}

\* The disposition of a failed attempt in _handle_batch_failures.  An outcome is
\* "retryable" or "permanent" (a DurableAgentError, by its retryable flag) or
\* "unexpected" (any other exception, or no outcome: force_terminal).
RequiresReview(t, outcome) == Policy[t] = "MANUAL_REVIEW" /\ outcome # "unexpected"

ShouldRetry(t, attempt, outcome) ==
    /\ outcome = "retryable"
    /\ Policy[t] = "RETRY"
    /\ attempt >= 1 /\ attempt < RetryMaximumAttempts
    /\ attempt < MaximumAttempts[t]

FailureTarget(t, attempt, outcome) ==
    CASE RequiresReview(t, outcome)       -> "WAITING"
      [] ShouldRetry(t, attempt, outcome) -> "FAILED_RETRYABLE"
      [] OTHER                            -> "FAILED_TERMINAL"

SkipsDependents(t, outcome) == Policy[t] = "SKIP_DEPENDENTS" /\ outcome # "unexpected"

FailsRun(t, attempt, outcome) ==
    /\ FailureTarget(t, attempt, outcome) = "FAILED_TERMINAL"
    /\ ~SkipsDependents(t, outcome)
=============================================================================
