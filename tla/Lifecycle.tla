------------------------------ MODULE Lifecycle ------------------------------
(***************************************************************************)
(* What the persisted rows of a run promise to whoever reads them, with no *)
(* worker, copy, version or lease in sight: one row moves at a time, along *)
(* an edge of its state machine, and the moves that mean something for the *)
(* rest of the graph happen only when the rest of the graph allows it.     *)
(***************************************************************************)
EXTENDS Plan

VARIABLES run, task

Settled == \A t \in Task : task[t].state \in TaskTerminal
Done == \A t \in Task : task[t].state \in {"SUCCEEDED", "SKIPPED"}
DependenciesSucceeded(t) == \A d \in Dependencies[t] : task[d].state = "SUCCEEDED"

Init ==
    /\ run = "RUNNING"
    /\ task = [t \in Task |-> [state |-> "PENDING", attempt |-> 0]]

\* RUNNING reaches PAUSED in one write that takes two edges.
MoveRun(state) ==
    /\ state \in RunTransitions(run) \/ (run = "RUNNING" /\ state = "PAUSED")
    /\ state = "COMPLETED" => Done
    /\ state = "CANCELLED" => Settled
    /\ run' = state
    /\ UNCHANGED task

\* Only starting a task counts an attempt.
Start(t) ==
    /\ task[t].state = "READY" /\ DependenciesSucceeded(t)
    /\ task' = [task EXCEPT ![t] = [state |-> "RUNNING", attempt |-> @.attempt + 1]]
    /\ UNCHANGED run

MoveTask(t, state) ==
    /\ state \in TaskTransitions(task[t].state) \ {"RUNNING"}
    /\ state = "READY" => DependenciesSucceeded(t)
    /\ task' = [task EXCEPT ![t].state = state]
    /\ UNCHANGED run

Next ==
    \/ \E state \in RunState : MoveRun(state)
    \/ \E t \in Task : Start(t) \/ \E state \in TaskState : MoveTask(t, state)

Spec == Init /\ [][Next]_<<run, task>>
=============================================================================
