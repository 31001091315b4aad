---------------------------- MODULE DurableAgent ----------------------------
(***************************************************************************)
(* One run of the agent under everything that can touch it: workers that   *)
(* advance and resume it, service calls that pause and cancel it, lease    *)
(* expiry, exceptions and process death.                                   *)
(***************************************************************************)
EXTENDS Recovery, Service

vars == <<storeVars, copyVars, workerVars, clientPc>>

Init == StoreInit /\ WorkerInit /\ ClientInit

-----------------------------------------------------------------------------
\* An exception or a cancelled coroutine at any await of a try block.
Abort(w) ==
    /\ pc[w] \in AdvanceLoop \cup ResumeSteps
    /\ Raise(w)

\* The process dies, or advance raises before its try block: the lease row stays
\* behind until it expires.
Crash(w) ==
    /\ pc[w] # "idle"
    /\ Finish(w, "idle")
    /\ ForgetTasks(w) /\ ForgetRun(w)
    /\ UNCHANGED storeVars

ClientCrash(c) ==
    /\ clientPc[c] # "idle"
    /\ ClientGoto(c, "idle")
    /\ ForgetRun(c)
    /\ UNCHANGED <<storeVars, cache, fresh>>

\* The lease of a worker that is gone runs out.
AbandonedLeaseExpires ==
    /\ lease.owner # NoOwner => pc[lease.owner] = "idle"
    /\ LeaseExpires
    /\ UNCHANGED <<run, task, open, finished, requests, copyVars>>

\* A live worker stalls past its expiry: no heartbeat runs outside
\* _execute_batch_with_heartbeat, and one that is late fails.
HeldLeaseExpires ==
    /\ lease.owner # NoOwner /\ pc[lease.owner] # "idle"
    /\ LeaseExpires
    /\ UNCHANGED <<run, task, open, finished, requests, copyVars>>

-----------------------------------------------------------------------------
WorkerStep(w) == (Advance(w) \/ Resume(w)) /\ UNCHANGED clientPc
WorkerStart(w) == (AdvanceAcquire(w) \/ ResumeAcquire(w)) /\ UNCHANGED clientPc
ClientStep(c) == ServiceCall(c) /\ UNCHANGED workerVars
WorkerFault(w) == (Abort(w) \/ Crash(w)) /\ UNCHANGED clientPc
ClientFault(c) == ClientCrash(c) /\ UNCHANGED workerVars

\* Workers and clients that meet their deadlines and do not fail.
ReliableNext ==
    \/ \E w \in Worker : WorkerStep(w) \/ WorkerStart(w)
    \/ \E c \in Client : ClientStep(c)
    \/ AbandonedLeaseExpires /\ UNCHANGED <<workerVars, clientPc>>

\* Plus faults, but no worker outlives its lease.
TimelyNext ==
    \/ ReliableNext
    \/ \E w \in Worker : WorkerFault(w)
    \/ \E c \in Client : ClientFault(c)

\* Plus workers that do.
Next ==
    \/ TimelyNext
    \/ HeldLeaseExpires /\ UNCHANGED <<workerVars, clientPc>>

Spec == Init /\ [][Next]_vars
TimelySpec == Init /\ [][TimelyNext]_vars
ReliableSpec == Init /\ [][ReliableNext]_vars

\* A started operation or service call goes on, and whoever drives the run keeps
\* calling advance and does not lose the race for the lease forever.
Fairness ==
    /\ \A w \in Worker : WF_vars(WorkerStep(w))
    /\ \A c \in Client : WF_vars((PauseCreate(c) \/ PauseMark(c) \/ CancelCreate(c))
                                  /\ UNCHANGED workerVars)
    /\ SF_vars(\E w \in Worker : AdvanceAcquire(w) /\ UNCHANGED clientPc)

FairSpec == ReliableSpec /\ Fairness

-----------------------------------------------------------------------------
Label == {"idle", "release"} \cup AdvanceSetup \cup AdvanceLoop \cup ResumeSteps

TypeOK ==
    /\ run \in RunState
    /\ task \in [Task -> TaskRow]
    /\ open \in SUBSET Attempt
    /\ finished \in SUBSET FinishedAttempt
    /\ requests \in Seq(Request)
    /\ lease \in [owner : Worker \cup {NoOwner}, live : BOOLEAN]
    /\ cache \in [Worker -> [Task -> TaskRow]]
    /\ fresh \in [Worker -> SUBSET Task]
    /\ runCache \in [Actor -> RunState]
    /\ runFresh \in SUBSET Actor
    /\ pc \in [Worker -> Label]
    /\ todo \in [Worker -> SUBSET Task]
    /\ outcome \in [Worker -> [Task -> Outcome]]
    /\ budget \in [Worker -> Int]
    /\ request \in [Worker -> Nat]
    /\ clientPc \in [Client -> {"idle", "pause_create", "pause_mark", "cancel_create"}]

\* Transition safety: whatever workers, callers, crashes and stale copies do, the
\* persisted rows behave as Lifecycle promises, although every writer validates its
\* move against an in-memory copy (transition_run, transition_task, ready_tasks) and
\* only the version in the WHERE clause of update_run and update_task protects it.
L == INSTANCE Lifecycle
RowsFollowLifecycle == L!Spec

\* A COMPLETED run has only SUCCEEDED and SKIPPED tasks, although the decision is
\* taken on the task list the worker loaded when it started.
CompletedMeansDone ==
    run = "COMPLETED" => \A t \in Task : task[t].state \in {"SUCCEEDED", "SKIPPED"}

\* A CANCELLED run has no task left that could be scheduled or resumed.
CancelledMeansSettled ==
    run = "CANCELLED" => \A t \in Task : task[t].state \in TaskTerminal

\* A task was ever attempted only if all its dependencies have SUCCEEDED, and they
\* stay so, even when the attempt was scheduled from a stale task list.
DependenciesFirst ==
    \A t \in Task : task[t].attempt > 0 =>
        \A d \in Dependencies[t] : task[d].state = "SUCCEEDED"

\* A task is SUCCEEDED exactly when one attempt of it, the last, is recorded
\* SUCCEEDED: no outcome is committed twice, none is recorded for a task that
\* recovery or a cancellation has taken away from the worker.
SucceededOnce ==
    \A t \in Task :
        {f.number : f \in {g \in finished : g.task = t /\ g.state = "SUCCEEDED"}}
            = IF task[t].state = "SUCCEEDED" THEN {task[t].attempt} ELSE {}

\* No attempt row has a number the task row has not counted, and no number is used
\* twice: an attempt is never both open and finished, nor finished in two states.
AttemptsAccounted ==
    /\ \A a \in open : a[2] >= 1 /\ a[2] <= task[a[1]].attempt
    /\ \A f \in finished : /\ f.number <= task[f.task].attempt
                           /\ <<f.task, f.number>> \notin open
    /\ \A f, g \in finished : f.task = g.task /\ f.number = g.number => f = g

-----------------------------------------------------------------------------
\* What holds as long as no worker outlives its lease (TimelySpec).

\* An open attempt row belongs to a RUNNING task and is its latest attempt, so
\* there is never a second one: recovery and cancellation leave none behind.
OpenAttemptIsCurrent ==
    \A a \in open : task[a[1]].state = "RUNNING" /\ task[a[1]].attempt = a[2]

\* Task workers only execute while the run is RUNNING or about to be paused: a
\* PAUSED, RECOVERING or terminal run never has one at work.
ExecutesOnlyWhileRunning ==
    \A w \in Worker : pc[w] = "execute" => run \in {"RUNNING", "PAUSE_REQUESTED"}

-----------------------------------------------------------------------------
\* Liveness, under FairSpec.

\* Every advance and resume operation returns: no retry, no lifecycle request and
\* no conflict keeps the loop of advance going forever.
OperationsEnd == \A w \in Worker : pc[w] # "idle" ~> pc[w] = "idle"

\* A cancellation request ends the run, also a paused one.
CancelHonoured ==
    \A i \in 1..MaxRequests :
        (i \in PendingRequests /\ Pending(i, "cancel")) ~> run \in RunTerminal

\* A run that is only advanced comes to rest, again and again: paused or ended.
\* In particular a pause request is honoured or outrun by the end of the run.
RunRests == []<>(run \in RunTerminal \cup {"PAUSED"})

\* If it is resumed as well, again and again, it ends.
RunEnds ==
    SF_vars(\E w \in Worker : ResumeAcquire(w) /\ UNCHANGED clientPc)
        => <>(run \in RunTerminal)
=============================================================================
