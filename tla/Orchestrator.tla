---------------------------- MODULE Orchestrator ----------------------------
(***************************************************************************)
(* AgentOrchestrator.advance (orchestration/orchestrator.py): one worker   *)
(* operation that owns the run lease, loops over the task graph in batches *)
(* and leaves the run terminal, paused, cancelled or at the caller's bound.*)
(* Every awaited store call is a step of its own: between two steps any    *)
(* other worker, service call, lease expiry or fault may happen.           *)
(*                                                                         *)
(* Checkpoints, context snapshots, events, metrics and the report touch    *)
(* none of the rows modelled here; that any of them can fail is covered by *)
(* the Abort action of DurableAgent.                                       *)
(***************************************************************************)
EXTENDS Store

CONSTANT Budget  \* values of maximum_tasks; one above |Task| stands for None

ASSUME BudgetAssumption == Budget \in SUBSET Nat

VARIABLES
    pc,       \* the store call worker w is about to make
    todo,     \* the tasks the current loop of w has not reached yet
    outcome,  \* outcome[w][t]: what worker.execute returned; "none" outside a batch
    budget,   \* maximum_tasks minus executed
    request   \* the lifecycle request w is applying, 0 for none

workerVars == <<pc, todo, outcome, budget, request>>

Failure == {"retryable", "permanent", "unexpected"}
Outcome == {"none", "started", "ok"} \cup Failure
NoOutcome == [t \in Task |-> "none"]

\* Labels of advance before its try block, and inside it.
AdvanceSetup == {"adv_run", "adv_paused", "adv_load"}
AdvanceLoop ==
    {"loop", "promote", "start", "attempt", "mark_read", "mark_write", "execute",
     "renew", "commit", "commit_read", "commit_write", "fail", "skip", "fail_read",
     "fail_write", "drained", "end_read", "end_write", "pause_read", "pause_write",
     "cancel", "cancel_read", "cancel_write", "apply"}

WorkerInit ==
    /\ pc = [w \in Worker |-> "idle"]
    /\ todo = [w \in Worker |-> {}]
    /\ outcome = [w \in Worker |-> NoOutcome]
    /\ budget = [w \in Worker |-> 0]
    /\ request = [w \in Worker |-> 0]

At(w, label) == pc[w] = label
Goto(w, label) == pc' = [pc EXCEPT ![w] = label]
SetTodo(w, S) == todo' = [todo EXCEPT ![w] = S]

ForgetTasks(w) ==
    /\ cache' = [cache EXCEPT ![w] = NoCache]
    /\ fresh' = [fresh EXCEPT ![w] = {}]

\* The locals of an operation that returns or raises.
Finish(w, label) ==
    /\ Goto(w, label)
    /\ SetTodo(w, {})
    /\ outcome' = [outcome EXCEPT ![w] = NoOutcome]
    /\ budget' = [budget EXCEPT ![w] = 0]
    /\ request' = [request EXCEPT ![w] = 0]

\* An exception inside the try block: only the finally clause is left to run.
Raise(w) ==
    /\ Finish(w, "release")
    /\ ForgetTasks(w) /\ ForgetRun(w)
    /\ UNCHANGED storeVars

-----------------------------------------------------------------------------
\* advance, up to the loop.

AdvanceAcquire(w) ==
    /\ At(w, "idle") /\ lease.owner # w
    /\ AcquireLease(w)
    /\ \E b \in Budget : budget' = [budget EXCEPT ![w] = b]
    /\ Goto(w, "adv_run")
    /\ UNCHANGED <<run, task, open, finished, requests, copyVars, todo, outcome, request>>

\* Mutant: a PAUSED run is entered like a RUNNING one.
CheckRunOrPaused(w) ==
    /\ At(w, "adv_run")
    /\ Goto(w, IF run \in {"RUNNING", "PAUSE_REQUESTED", "PAUSED"} THEN "adv_load" ELSE "release")
    /\ UNCHANGED <<storeVars, copyVars, todo, outcome, budget, request>>

\* Mutant: PAUSE_REQUESTED is left to somebody else.
CheckRunRunningOnly(w) ==
    /\ At(w, "adv_run")
    /\ CASE run = "RUNNING" -> Goto(w, "adv_load")
         [] run = "PAUSED" -> Goto(w, "adv_paused")
         [] OTHER -> Goto(w, "release")
    /\ UNCHANGED <<storeVars, copyVars, todo, outcome, budget, request>>

CheckRun(w) ==
    /\ At(w, "adv_run")
    /\ CASE run \in {"RUNNING", "PAUSE_REQUESTED"} -> Goto(w, "adv_load")
         [] run = "PAUSED" -> Goto(w, "adv_paused")
         [] OTHER -> Goto(w, "release")
    /\ UNCHANGED <<storeVars, copyVars, todo, outcome, budget, request>>

\* Mutant: a paused run is never entered.
CheckPausedNever(w) ==
    /\ At(w, "adv_paused")
    /\ Goto(w, "release")
    /\ UNCHANGED <<storeVars, copyVars, todo, outcome, budget, request>>

\* A paused run is only entered to cancel it.
CheckPaused(w) ==
    /\ At(w, "adv_paused")
    /\ IF \E i \in PendingRequests : Pending(i, "cancel")
       THEN Goto(w, "adv_load")
       ELSE Goto(w, "release")
    /\ UNCHANGED <<storeVars, copyVars, todo, outcome, budget, request>>

\* A row that fails validation raises before the try block: the lease stays.
LoadTasks(w) ==
    /\ At(w, "adv_load")
    /\ \/ /\ GetTasks(w)
          /\ Goto(w, "loop")
          /\ UNCHANGED <<todo, outcome, budget, request>>
       \/ /\ ~Readable
          /\ Finish(w, "idle")
          /\ UNCHANGED <<cache, fresh>>
    /\ UNCHANGED <<storeVars, runCache, runFresh>>

-----------------------------------------------------------------------------
\* The top of the loop: lifecycle requests, the caller's bound, promotion.

\* Mutant: a RUNNING task is left to its worker.
UnfinishedNotRunning(w) ==
    {t \in Task : cache[w][t].state \notin TaskTerminal \cup {"RUNNING"}}

Unfinished(w) == {t \in Task : cache[w][t].state \notin TaskTerminal}

CheckRequests(w) ==
    /\ At(w, "loop")
    /\ \/ \E i \in DOMAIN requests :
             /\ IsNextRequest(i)
             /\ request' = [request EXCEPT ![w] = i]
             /\ IF requests[i].kind = "pause"
                THEN Goto(w, "pause_read") /\ UNCHANGED todo
                ELSE /\ SetTodo(w, Unfinished(w))
                     /\ Goto(w, IF Unfinished(w) = {} THEN "cancel_read" ELSE "cancel")
       \/ /\ PendingRequests = {}
          /\ UNCHANGED request
          /\ IF budget[w] = 0
             THEN Goto(w, "release") /\ UNCHANGED todo
             ELSE /\ SetTodo(w, ReadyTasks(cache[w]))
                  /\ Goto(w, IF ReadyTasks(cache[w]) = {} THEN "drained" ELSE "promote")
    /\ UNCHANGED <<storeVars, copyVars, outcome, budget>>

\* _promote_ready, one update per candidate; after the last one the batch is chosen.
PromoteReady(w) ==
    /\ At(w, "promote")
    /\ \E t \in todo[w] :
          /\ FirstById(todo[w], t)
          /\ \/ TaskConflict(w, t) /\ Raise(w)
             \/ /\ UpdateTask(w, t, Moved(w, t, "READY"))
                /\ IF todo[w] = {t}
                   THEN LET batch == SelectBatch(ReadyTasks(cache'[w]),
                                        IF budget[w] < MaximumConcurrency
                                        THEN budget[w] ELSE MaximumConcurrency)
                        IN /\ SetTodo(w, batch)
                           /\ Goto(w, "start")
                   ELSE SetTodo(w, todo[w] \ {t}) /\ UNCHANGED pc
                /\ UNCHANGED <<run, open, finished, requests, lease, runCache, runFresh,
                               outcome, budget, request>>

-----------------------------------------------------------------------------
\* _start_batch: per task the RUNNING update and then the attempt row.

StartTask(w) ==
    /\ At(w, "start")
    /\ \E t \in todo[w] :
          /\ FirstByPriority(todo[w], t)
          /\ \/ TaskConflict(w, t) /\ Raise(w)
             \/ /\ UpdateTask(w, t, [state |-> "RUNNING",
                                     attempt |-> cache[w][t].attempt + 1])
                /\ Goto(w, "attempt")
                /\ UNCHANGED <<run, open, finished, requests, lease, runCache, runFresh,
                               todo, outcome, budget, request>>

StartAttempt(w) ==
    /\ At(w, "attempt")
    /\ \E t \in todo[w] :
          /\ FirstByPriority(todo[w], t)
          /\ \/ AttemptExists(t, cache[w][t].attempt) /\ Raise(w)
             \/ /\ StartTaskAttempt(t, cache[w][t].attempt)
                /\ SetTodo(w, todo[w] \ {t})
                /\ outcome' = [outcome EXCEPT ![w][t] = "started"]
                /\ Goto(w, IF todo[w] = {t} THEN "mark_read" ELSE "start")
                /\ UNCHANGED <<run, task, requests, lease, copyVars, budget, request>>

Batch(w) == {t \in Task : outcome[w][t] # "none"}

\* Every get_run of the loop whose record the following update_run is based on.
ReadRun(w) ==
    /\ \E step \in {<<"mark_read", "mark_write">>, <<"commit_read", "commit_write">>,
                    <<"fail_read", "fail_write">>, <<"end_read", "end_write">>,
                    <<"pause_read", "pause_write">>, <<"cancel_read", "cancel_write">>} :
          At(w, step[1]) /\ Goto(w, step[2])
    /\ GetRun(w)
    /\ UNCHANGED <<storeVars, cache, fresh, todo, outcome, budget, request>>

\* The update of run.active_task_id, which leaves the state alone.
MarkActive(w) ==
    /\ At(w, "mark_write")
    /\ \/ RunConflict(w) /\ Raise(w)
       \/ /\ UpdateRun(w, runCache[w], FALSE)
          /\ Goto(w, "execute")
          /\ UNCHANGED <<task, open, finished, requests, lease, cache, fresh,
                         todo, outcome, budget, request>>

-----------------------------------------------------------------------------
\* _execute_batch_with_heartbeat: the task workers return, then the final fence.

Execute(w) ==
    /\ At(w, "execute")
    /\ \E result \in [Batch(w) -> {"ok"} \cup Failure] :
          outcome' = [outcome EXCEPT ![w] =
              [t \in Task |-> IF t \in Batch(w) THEN result[t] ELSE "none"]]
    /\ Goto(w, "renew")
    /\ UNCHANGED <<storeVars, copyVars, todo, budget, request>>

Successes(w) == {t \in Task : outcome[w][t] = "ok"}
Failures(w) == {t \in Task : outcome[w][t] \in Failure}

RenewFence(w) ==
    /\ At(w, "renew")
    /\ \/ ~Leased(w) /\ Raise(w)
       \/ /\ Leased(w)
          /\ IF Successes(w) # {}
             THEN SetTodo(w, Successes(w)) /\ Goto(w, "commit")
             ELSE SetTodo(w, Failures(w)) /\ Goto(w, "fail")
          /\ UNCHANGED <<storeVars, copyVars, outcome, budget, request>>

-----------------------------------------------------------------------------
\* Committing the batch: successes in start order, then failures.

CommitSuccess(w) ==
    /\ At(w, "commit")
    /\ \E t \in todo[w] :
          /\ FirstByPriority(todo[w], t)
          /\ \/ OutcomeConflict(w, t) /\ Raise(w)
             \/ /\ UpdateTaskAndFinishAttempt(w, t, "SUCCEEDED")
                /\ SetTodo(w, todo[w] \ {t})
                /\ Goto(w, "commit_read")
                /\ UNCHANGED <<run, requests, lease, runCache, runFresh,
                               outcome, budget, request>>

UpdateRunAfterSuccess(w) ==
    /\ At(w, "commit_write")
    /\ \/ RunConflict(w) /\ Raise(w)
       \/ /\ UpdateRun(w, runCache[w], FALSE)
          /\ budget' = [budget EXCEPT ![w] = @ - 1]
          /\ \/ /\ todo[w] # {}
                /\ Goto(w, "commit")
                /\ UNCHANGED <<todo, outcome>>
             \/ /\ todo[w] = {} /\ Failures(w) # {}
                /\ SetTodo(w, Failures(w))
                /\ Goto(w, "fail")
                /\ UNCHANGED outcome
             \/ /\ todo[w] = {} /\ Failures(w) = {}
                /\ outcome' = [outcome EXCEPT ![w] = NoOutcome]
                /\ Goto(w, "loop")
                /\ UNCHANGED todo
          /\ UNCHANGED <<task, open, finished, requests, lease, cache, fresh, request>>

\* The descendants _skip_transitive_dependents marks once all failures are committed.
ToSkip(w, rows) ==
    {u \in UNION {Descendants(t) : t \in {f \in Failures(w) : SkipsDependents(f, outcome[w][f])}} :
        rows[u].state \in {"PENDING", "READY", "WAITING"}}

CommitFailure(w) ==
    /\ At(w, "fail")
    /\ \E t \in todo[w] :
          /\ FirstByPriority(todo[w], t)
          /\ \/ OutcomeConflict(w, t) /\ Raise(w)
             \/ /\ UpdateTaskAndFinishAttempt(w, t,
                       FailureTarget(t, cache[w][t].attempt, outcome[w][t]))
                /\ IF todo[w] # {t}
                   THEN SetTodo(w, todo[w] \ {t}) /\ UNCHANGED pc
                   ELSE /\ SetTodo(w, ToSkip(w, cache'[w]))
                        /\ Goto(w, IF ToSkip(w, cache'[w]) = {} THEN "fail_read" ELSE "skip")
                /\ UNCHANGED <<run, requests, lease, runCache, runFresh,
                               outcome, budget, request>>

\* Any order: the code goes by failed task and then by task id.
SkipDependents(w) ==
    /\ At(w, "skip")
    /\ \E t \in todo[w] :
          \/ TaskConflict(w, t) /\ Raise(w)
          \/ /\ UpdateTask(w, t, Moved(w, t, "SKIPPED"))
             /\ SetTodo(w, todo[w] \ {t})
             /\ Goto(w, IF todo[w] = {t} THEN "fail_read" ELSE "skip")
             /\ UNCHANGED <<run, open, finished, requests, lease, runCache, runFresh,
                            outcome, budget, request>>

\* RUNNING reaches PAUSED through PAUSE_REQUESTED.
CanPause(state) ==
    CanTransitionRun(IF state = "RUNNING" THEN "PAUSE_REQUESTED" ELSE state, "PAUSED")

\* One run disposition for the whole batch: fail, pause for review, or carry on.
DisposeFailures(w) ==
    LET failRun == \E t \in Failures(w) : FailsRun(t, cache[w][t].attempt, outcome[w][t])
        review == \E t \in Failures(w) : RequiresReview(t, outcome[w][t])
        target == IF failRun THEN "FAILED" ELSE IF review THEN "PAUSED" ELSE runCache[w]
        legal == CASE failRun -> CanTransitionRun(runCache[w], "FAILED")
                   [] review /\ ~failRun -> CanPause(runCache[w])
                   [] OTHER -> TRUE
    IN /\ At(w, "fail_write")
       /\ \/ (~legal \/ RunConflict(w)) /\ Raise(w)
          \/ /\ legal
             /\ UpdateRun(w, target, FALSE)
             /\ IF failRun \/ review
                THEN Finish(w, "release") /\ ForgetTasks(w)
                ELSE /\ Goto(w, "loop")
                     /\ outcome' = [outcome EXCEPT ![w] = NoOutcome]
                     /\ UNCHANGED <<cache, fresh, todo, budget, request>>
             /\ UNCHANGED <<task, open, finished, requests, lease>>

-----------------------------------------------------------------------------
\* No candidate is left: complete the run, or fail it as stuck.

\* Mutant: the loop goes round again instead of ending the run.
DrainedContinues(w) ==
    /\ At(w, "drained")
    /\ Goto(w, "loop")
    /\ UNCHANGED <<storeVars, copyVars, todo, outcome, budget, request>>

Drained(w) ==
    /\ At(w, "drained")
    /\ Goto(w, IF PendingRequests # {} THEN "loop" ELSE "end_read")
    /\ UNCHANGED <<storeVars, copyVars, todo, outcome, budget, request>>

\* Mutant: any terminal task will do.
EndTargetAnyEnd(w) == IF Unfinished(w) = {} THEN "COMPLETED" ELSE "FAILED"

EndTarget(w) ==
    IF \A t \in Task : cache[w][t].state \in {"SUCCEEDED", "SKIPPED"}
    THEN "COMPLETED" ELSE "FAILED"

FinishRun(w) ==
    /\ At(w, "end_write")
    /\ \/ (~CanTransitionRun(runCache[w], EndTarget(w)) \/ RunConflict(w)) /\ Raise(w)
       \/ /\ CanTransitionRun(runCache[w], EndTarget(w))
          /\ UpdateRun(w, EndTarget(w), FALSE)
          /\ Finish(w, "release") /\ ForgetTasks(w)
          /\ UNCHANGED <<task, open, finished, requests, lease>>

-----------------------------------------------------------------------------
\* _pause and _cancel.

PauseRun(w) ==
    /\ At(w, "pause_write")
    /\ \/ (~CanPause(runCache[w]) \/ RunConflict(w)) /\ Raise(w)
       \/ /\ CanPause(runCache[w])
          /\ UpdateRun(w, "PAUSED", FALSE)
          /\ Goto(w, "apply")
          /\ ForgetTasks(w)
          /\ UNCHANGED <<task, open, finished, requests, lease, todo, outcome, budget, request>>

CancelTask(w) ==
    /\ At(w, "cancel")
    /\ \E t \in todo[w] :
          /\ FirstById(todo[w], t)
          /\ \/ TaskConflict(w, t) /\ Raise(w)
             \/ /\ CancelTaskAndOpenAttempts(w, t)
                /\ SetTodo(w, todo[w] \ {t})
                /\ Goto(w, IF todo[w] = {t} THEN "cancel_read" ELSE "cancel")
                /\ UNCHANGED <<run, requests, lease, runCache, runFresh,
                               outcome, budget, request>>

CancelRun(w) ==
    /\ At(w, "cancel_write")
    /\ \/ (~CanTransitionRun(runCache[w], "CANCELLED") \/ RunConflict(w)) /\ Raise(w)
       \/ /\ CanTransitionRun(runCache[w], "CANCELLED")
          /\ UpdateRun(w, "CANCELLED", FALSE)
          /\ Goto(w, "apply")
          /\ ForgetTasks(w)
          /\ UNCHANGED <<task, open, finished, requests, lease, todo, outcome, budget, request>>

\* A request another worker applied meanwhile raises; either way the loop is left.
ApplyLifecycleRequest(w) ==
    /\ At(w, "apply")
    /\ \/ request[w] \notin PendingRequests /\ Raise(w)
       \/ /\ ApplyRequest(request[w])
          /\ Finish(w, "release")
          /\ UNCHANGED <<run, task, open, finished, lease, copyVars>>

-----------------------------------------------------------------------------
\* finally: release_lease.
ReleaseRun(w) ==
    /\ At(w, "release")
    /\ ReleaseLease(w)
    /\ Finish(w, "idle")
    /\ ForgetTasks(w) /\ ForgetRun(w)
    /\ UNCHANGED <<run, task, open, finished, requests>>

Advance(w) ==
    \/ CheckRun(w) \/ CheckPaused(w) \/ LoadTasks(w) \/ CheckRequests(w)
    \/ PromoteReady(w) \/ StartTask(w) \/ StartAttempt(w) \/ ReadRun(w) \/ MarkActive(w)
    \/ Execute(w) \/ RenewFence(w) \/ CommitSuccess(w) \/ UpdateRunAfterSuccess(w)
    \/ CommitFailure(w) \/ SkipDependents(w) \/ DisposeFailures(w)
    \/ Drained(w) \/ FinishRun(w) \/ PauseRun(w) \/ CancelTask(w) \/ CancelRun(w)
    \/ ApplyLifecycleRequest(w) \/ ReleaseRun(w)
=============================================================================
