------------------------------ MODULE Recovery ------------------------------
(***************************************************************************)
(* RecoveryManager.resume (recovery/manager.py) and the hand-over to       *)
(* advance in AgentService.resume: a worker takes the lease of a           *)
(* paused or abandoned run, marks it RECOVERING, closes what a dead worker *)
(* left behind and sets the run RUNNING again.                             *)
(*                                                                         *)
(* Selecting the checkpoint, comparing fingerprints and reconciling tool   *)
(* calls change none of these rows and either succeed or raise: raising is *)
(* the Abort action of DurableAgent.                                       *)
(***************************************************************************)
EXTENDS Orchestrator

\* Labels inside resume's try block.
ResumeSteps == {"res_read", "res_mark", "res_repo", "res_tasks", "res_task",
                "res_close", "res_fail", "res_ready", "res_run", "reacquire"}

ResumeAcquire(w) ==
    /\ At(w, "idle") /\ lease.owner # w
    /\ AcquireLease(w)
    /\ \E b \in Budget : budget' = [budget EXCEPT ![w] = b]
    /\ Goto(w, "res_read")
    /\ UNCHANGED <<run, task, open, finished, requests, copyVars, todo, outcome, request>>

\* Mutant: a paused run is not resumable.
ReadResumableNotPaused(w) ==
    /\ At(w, "res_read")
    /\ \/ /\ run \notin {"RUNNING", "RECOVERING"}
          /\ Raise(w)
       \/ /\ run \in {"RUNNING", "RECOVERING"}
          /\ GetRun(w)
          /\ Goto(w, IF run = "RECOVERING" THEN "res_repo" ELSE "res_mark")
          /\ UNCHANGED <<storeVars, cache, fresh, todo, outcome, budget, request>>

\* A run that is already RECOVERING is not written again.
ReadResumable(w) ==
    /\ At(w, "res_read")
    /\ \/ /\ run \notin {"PAUSED", "RUNNING", "RECOVERING"}
          /\ Raise(w)
       \/ /\ run \in {"PAUSED", "RUNNING", "RECOVERING"}
          /\ GetRun(w)
          /\ Goto(w, IF run = "RECOVERING" THEN "res_repo" ELSE "res_mark")
          /\ UNCHANGED <<storeVars, cache, fresh, todo, outcome, budget, request>>

MarkRecovering(w) ==
    /\ At(w, "res_mark")
    /\ \/ RunConflict(w) /\ Raise(w)
       \/ /\ UpdateRun(w, "RECOVERING", TRUE)
          /\ Goto(w, "res_repo")
          /\ UNCHANGED <<task, open, finished, requests, lease, cache, fresh,
                         todo, outcome, budget, request>>

\* No drift leaves the run alone; a drift that policy tolerates stores the new
\* snapshot id in it.
ValidateRepository(w) ==
    /\ At(w, "res_repo")
    /\ \/ /\ Goto(w, "res_tasks")
          /\ UNCHANGED <<storeVars, copyVars, todo, outcome, budget, request>>
       \/ RunConflict(w) /\ Raise(w)
       \/ /\ UpdateRun(w, runCache[w], TRUE)
          /\ Goto(w, "res_tasks")
          /\ UNCHANGED <<task, open, finished, requests, lease, cache, fresh,
                         todo, outcome, budget, request>>

Interrupted(rows) == {t \in Task : rows[t].state \in {"PAUSED", "WAITING", "RUNNING"}}

LoadInterrupted(w) ==
    /\ At(w, "res_tasks")
    /\ \/ ~Readable /\ Raise(w)
       \/ /\ GetTasks(w)
          /\ SetTodo(w, Interrupted(task))
          /\ Goto(w, IF Interrupted(task) = {} THEN "res_run" ELSE "res_task")
          /\ UNCHANGED <<storeVars, runCache, runFresh, outcome, budget, request>>

\* The next task of the loop is done.
NextInterrupted(w, t) ==
    /\ SetTodo(w, todo[w] \ {t})
    /\ Goto(w, IF todo[w] = {t} THEN "res_run" ELSE "res_task")

\* A waiting task becomes READY; a RUNNING one is abandoned (_recover_abandoned_task).
ResumeTask(w) ==
    /\ At(w, "res_task")
    /\ \E t \in todo[w] :
          /\ FirstById(todo[w], t)
          /\ \/ /\ cache[w][t].state = "RUNNING"
                /\ Goto(w, "res_close")
                /\ UNCHANGED <<storeVars, copyVars, todo, outcome, budget, request>>
             \/ /\ cache[w][t].state # "RUNNING"
                /\ \/ TaskConflict(w, t) /\ Raise(w)
                   \/ /\ UpdateTask(w, t, Moved(w, t, "READY"))
                      /\ NextInterrupted(w, t)
                      /\ UNCHANGED <<run, open, finished, requests, lease, runCache,
                                     runFresh, outcome, budget, request>>

\* Mutant: the run state FAILED instead of a task state.
AbandonTargetFailed(w, t) ==
    IF cache[w][t].attempt < MaximumAttempts[t] THEN "FAILED_RETRYABLE" ELSE "FAILED"

AbandonTarget(w, t) ==
    IF cache[w][t].attempt < MaximumAttempts[t] THEN "FAILED_RETRYABLE" ELSE "FAILED_TERMINAL"

\* finish_open_task_attempts: all open attempts of the task, whoever opened them.
CloseAbandonedAttempts(w) ==
    /\ At(w, "res_close")
    /\ \E t \in todo[w] :
          /\ FirstById(todo[w], t)
          /\ CloseAttempts(OpenAttempts(t), AbandonTarget(w, t))
    /\ Goto(w, "res_fail")
    /\ UNCHANGED <<run, task, requests, lease, copyVars, todo, outcome, budget, request>>

FailAbandonedTask(w) ==
    /\ At(w, "res_fail")
    /\ \E t \in todo[w] :
          /\ FirstById(todo[w], t)
          /\ \/ TaskConflict(w, t) /\ Raise(w)
             \/ /\ UpdateTask(w, t, Moved(w, t, AbandonTarget(w, t)))
                /\ IF AbandonTarget(w, t) = "FAILED_RETRYABLE"
                   THEN Goto(w, "res_ready") /\ UNCHANGED todo
                   ELSE NextInterrupted(w, t)
                /\ UNCHANGED <<run, open, finished, requests, lease, runCache, runFresh,
                               outcome, budget, request>>

\* Mutant: the abandoned task starts afresh.
ReadyAbandonedTaskAfresh(w) ==
    /\ At(w, "res_ready")
    /\ \E t \in todo[w] :
          /\ FirstById(todo[w], t)
          /\ \/ TaskConflict(w, t) /\ Raise(w)
             \/ /\ UpdateTask(w, t, [state |-> "READY", attempt |-> 0])
                /\ NextInterrupted(w, t)
                /\ UNCHANGED <<run, open, finished, requests, lease, runCache, runFresh,
                               outcome, budget, request>>

ReadyAbandonedTask(w) ==
    /\ At(w, "res_ready")
    /\ \E t \in todo[w] :
          /\ FirstById(todo[w], t)
          /\ \/ TaskConflict(w, t) /\ Raise(w)
             \/ /\ UpdateTask(w, t, Moved(w, t, "READY"))
                /\ NextInterrupted(w, t)
                /\ UNCHANGED <<run, open, finished, requests, lease, runCache, runFresh,
                               outcome, budget, request>>

\* The last update is based on the record of the first one (or of the drift's).
ResumeRun(w) ==
    /\ At(w, "res_run")
    /\ \/ RunConflict(w) /\ Raise(w)
       \/ /\ UpdateRun(w, "RUNNING", FALSE)
          /\ Goto(w, "reacquire")
          /\ ForgetTasks(w)
          /\ UNCHANGED <<task, open, finished, requests, lease, todo, outcome, budget, request>>

\* advance acquires again under the same worker id; a lease lost meanwhile raises
\* without a release.
ReacquireLease(w) ==
    /\ At(w, "reacquire")
    /\ \/ /\ AcquireLease(w)
          /\ Goto(w, "adv_run")
          /\ UNCHANGED <<todo, outcome, budget, request>>
       \/ /\ lease.owner \notin {NoOwner, w} /\ lease.live
          /\ Finish(w, "idle")
          /\ UNCHANGED lease
    /\ UNCHANGED <<run, task, open, finished, requests, copyVars>>

Resume(w) ==
    \/ ReadResumable(w) \/ MarkRecovering(w) \/ ValidateRepository(w) \/ LoadInterrupted(w)
    \/ ResumeTask(w) \/ CloseAbandonedAttempts(w) \/ FailAbandonedTask(w)
    \/ ReadyAbandonedTask(w) \/ ResumeRun(w) \/ ReacquireLease(w)
=============================================================================
