-------------------------------- MODULE Store --------------------------------
(***************************************************************************)
(* The rows of one run in persistence/store.py and the transactions on     *)
(* them.  Every operator with a primed variable is one transaction.        *)
(*                                                                         *)
(* Rows carry an integer version and every update is conditional on the    *)
(* version the caller read, which it then increments.  The only thing the  *)
(* code ever does with a version is to ask whether the row was written     *)
(* since it was read, so the model keeps that answer instead of the        *)
(* number: fresh[w] is the set of tasks whose row still has the version in *)
(* w's copy, and runFresh the set of actors whose copy of the run row is   *)
(* current.  A write makes every other copy stale.                         *)
(*                                                                         *)
(* The lease row is the variable lease of RunLease.                        *)
(***************************************************************************)
EXTENDS Plan, RunLease, Sequences

CONSTANT Client  \* service calls that request a pause or a cancellation

ASSUME StoreAssumption == Worker \cap Client = {}

VARIABLES
    run,       \* RunORM.state
    task,      \* TaskORM.state and attempt_count, per task
    open,      \* TaskAttemptORM rows with finished_at NULL: <<task, number>>
    finished,  \* TaskAttemptORM rows that were closed, with their final state
    requests,  \* pause and cancellation requests, in creation order
    cache,     \* cache[w]: the TaskRecords worker w holds in memory
    fresh,     \* fresh[w]: the tasks whose row still has the version in cache[w]
    runCache,  \* runCache[a]: the RunRecord.state actor a read last
    runFresh   \* the actors whose RunRecord still has the version of the row

storeVars == <<run, task, open, finished, requests, lease>>
copyVars == <<cache, fresh, runCache, runFresh>>

Actor == Worker \cup Client
Attempt == Task \X Nat
FinishedAttempt == [task : Task, number : Nat, state : TaskState]
Request == [kind : {"pause", "cancel"}, status : {"PENDING", "APPLIED"}]

NoRun == "CREATED"
NoCache == [t \in Task |-> [state |-> "PENDING", attempt |-> 0]]

\* save_tasks and the final update of create_run: tasks PENDING, the run RUNNING.
StoreInit ==
    /\ run = "RUNNING"
    /\ task = NoCache
    /\ open = {} /\ finished = {} /\ requests = <<>>
    /\ LeaseInit
    /\ cache = [w \in Worker |-> NoCache]
    /\ fresh = [w \in Worker |-> {}]
    /\ runCache = [a \in Actor |-> NoRun]
    /\ runFresh = {}

-----------------------------------------------------------------------------
\* The run row.

GetRun(a) ==
    /\ runCache' = [runCache EXCEPT ![a] = run]
    /\ runFresh' = runFresh \cup {a}

\* update_run, when the version still matches; kept says whether the caller
\* goes on using the returned record as its copy or reads the row again.
UpdateRun(a, state, kept) ==
    /\ a \in runFresh
    /\ run' = state
    /\ runCache' = [runCache EXCEPT ![a] = IF kept THEN state ELSE NoRun]
    /\ runFresh' = IF kept THEN {a} ELSE {}

RunConflict(a) == a \notin runFresh

ForgetRun(a) ==
    /\ runCache' = [runCache EXCEPT ![a] = NoRun]
    /\ runFresh' = runFresh \ {a}

-----------------------------------------------------------------------------
\* The task rows.

\* TaskRecord.attempts_within_bound is validated whenever a row is read.
Readable == \A t \in Task : task[t].attempt <= MaximumAttempts[t]

GetTasks(w) ==
    /\ Readable
    /\ cache' = [cache EXCEPT ![w] = task]
    /\ fresh' = [fresh EXCEPT ![w] = Task]

\* Mutant: the WHERE clause forgets the version.
UpdateTaskUnversioned(w, t, row) ==
    /\ task' = [task EXCEPT ![t] = row]
    /\ cache' = [cache EXCEPT ![w][t] = row]
    /\ fresh' = [v \in Worker |-> IF v = w THEN fresh[v] ELSE fresh[v] \ {t}]

\* update_task, when the version still matches.
UpdateTask(w, t, row) ==
    /\ t \in fresh[w]
    /\ task' = [task EXCEPT ![t] = row]
    /\ cache' = [cache EXCEPT ![w][t] = row]
    /\ fresh' = [v \in Worker |-> IF v = w THEN fresh[v] ELSE fresh[v] \ {t}]

TaskConflict(w, t) == t \notin fresh[w]

\* The task record w holds for t, moved to another state.
Moved(w, t, state) == [cache[w][t] EXCEPT !.state = state]

-----------------------------------------------------------------------------
\* The attempt rows, unique in (task, number).

AttemptExists(t, n) ==
    <<t, n>> \in open \/ \E f \in finished : f.task = t /\ f.number = n

StartTaskAttempt(t, n) ==
    /\ ~AttemptExists(t, n)
    /\ open' = open \cup {<<t, n>>}
    /\ UNCHANGED finished

\* The rows of attempts, all open, get finished_at and their final state.
CloseAttempts(attempts, state) ==
    /\ open' = open \ attempts
    /\ finished' = finished \cup
          {[task |-> a[1], number |-> a[2], state |-> state] : a \in attempts}

OpenAttempts(t) == {a \in open : a[1] = t}

\* update_task_and_finish_attempt: one transaction over both rows.
UpdateTaskAndFinishAttempt(w, t, state) ==
    LET attempt == <<t, cache[w][t].attempt>>
    IN /\ attempt \in open
       /\ UpdateTask(w, t, Moved(w, t, state))
       /\ CloseAttempts({attempt}, state)

OutcomeConflict(w, t) == TaskConflict(w, t) \/ <<t, cache[w][t].attempt>> \notin open

\* Mutant: only the task row is cancelled.
CancelTaskOnly(w, t) ==
    /\ UpdateTask(w, t, Moved(w, t, "CANCELLED"))
    /\ UNCHANGED <<open, finished>>

\* cancel_task_and_open_attempts: one transaction over the task and its attempts.
CancelTaskAndOpenAttempts(w, t) ==
    /\ UpdateTask(w, t, Moved(w, t, "CANCELLED"))
    /\ CloseAttempts(OpenAttempts(t), "CANCELLED")

-----------------------------------------------------------------------------
\* Lifecycle requests.

Pending(i, kind) == requests[i].kind = kind /\ requests[i].status = "PENDING"

\* pending_lifecycle_request: the oldest cancellation, else the oldest pause.
PendingRequests == {i \in DOMAIN requests : requests[i].status = "PENDING"}

IsNextRequest(i) ==
    /\ i \in PendingRequests
    /\ \A j \in PendingRequests :
          \/ Pending(i, "cancel") /\ Pending(j, "pause")
          \/ requests[i].kind = requests[j].kind /\ i <= j

CreateRequest(kind) ==
    requests' = Append(requests, [kind |-> kind, status |-> "PENDING"])

\* apply_lifecycle_request, when the request is still PENDING.
ApplyRequest(i) ==
    /\ i \in PendingRequests
    /\ requests' = [requests EXCEPT ![i].status = "APPLIED"]
=============================================================================
