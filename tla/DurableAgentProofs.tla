------------------------- MODULE DurableAgentProofs -------------------------
(***************************************************************************)
(* Theorems about DurableAgent for every task graph, every set of workers  *)
(* and callers and every bound: type correctness; then safety, that the    *)
(* rows follow Lifecycle, and what that means for a run that ended, for    *)
(* dependencies and for attempts.  The argument for safety has three       *)
(* layers: what a worker knows from its own steps (LocalInv), what a copy  *)
(* says about the row it was read from (RunCopies, TaskCopies) and what    *)
(* the rows promise (PromiseInv, CountInv, AttemptInv).  A fourth one,     *)
(* TimelyInv, holds as long as no worker outlives its lease.               *)
(***************************************************************************)
EXTENDS DurableAgent, TLAPS

USE DEF TaskRow, Attempt, FinishedAttempt, Request, Actor

-----------------------------------------------------------------------------
\* Type correctness.  The parts of TypeOK, by the transactions that write them.

TasksOK ==
    /\ task \in [Task -> TaskRow]
    /\ cache \in [Worker -> [Task -> TaskRow]]
    /\ fresh \in [Worker -> SUBSET Task]

RunOK ==
    /\ run \in RunState
    /\ runCache \in [Actor -> RunState]
    /\ runFresh \in SUBSET Actor

AttemptsOK ==
    /\ open \in SUBSET Attempt
    /\ finished \in SUBSET FinishedAttempt

RequestsOK == requests \in Seq(Request)

LeaseOK == lease \in [owner : Worker \cup {NoOwner}, live : BOOLEAN]

WorkersOK ==
    /\ pc \in [Worker -> Label]
    /\ todo \in [Worker -> SUBSET Task]
    /\ outcome \in [Worker -> [Task -> Outcome]]
    /\ budget \in [Worker -> Int]
    /\ request \in [Worker -> Nat]

ClientsOK == clientPc \in [Client -> {"idle", "pause_create", "pause_mark", "cancel_create"}]

LEMMA TypeParts ==
    /\ TypeOK <=> /\ TasksOK /\ RunOK /\ AttemptsOK /\ RequestsOK /\ LeaseOK
                  /\ WorkersOK /\ ClientsOK
    /\ TypeOK' <=> /\ TasksOK' /\ RunOK' /\ AttemptsOK' /\ RequestsOK' /\ LeaseOK'
                   /\ WorkersOK' /\ ClientsOK'
  BY DEF TypeOK, TasksOK, RunOK, AttemptsOK, RequestsOK, LeaseOK, WorkersOK, ClientsOK

\* A part whose variables a step leaves alone.
LEMMA PartsUnchanged ==
    /\ TasksOK /\ UNCHANGED <<task, cache, fresh>> => TasksOK'
    /\ RunOK /\ UNCHANGED <<run, runCache, runFresh>> => RunOK'
    /\ AttemptsOK /\ UNCHANGED <<open, finished>> => AttemptsOK'
    /\ RequestsOK /\ UNCHANGED requests => RequestsOK'
    /\ LeaseOK /\ UNCHANGED lease => LeaseOK'
    /\ WorkersOK /\ UNCHANGED <<pc, todo, outcome, budget, request>> => WorkersOK'
    /\ ClientsOK /\ UNCHANGED clientPc => ClientsOK'
  BY DEF TasksOK, RunOK, AttemptsOK, RequestsOK, LeaseOK, WorkersOK, ClientsOK

LEMMA InitTypeOK == Init => TypeOK
<1> SUFFICES ASSUME Init PROVE TypeOK
  OBVIOUS
<1>1. TasksOK
  BY DEF Init, StoreInit, TasksOK, TaskState, NoCache
<1>2. RunOK
  BY DEF Init, StoreInit, RunOK, RunState, NoRun
<1>3. AttemptsOK /\ RequestsOK
  BY DEF Init, StoreInit, AttemptsOK, RequestsOK
<1>4. LeaseOK
  BY DEF Init, StoreInit, LeaseInit, NoLease, LeaseOK
<1>5. WorkersOK
  BY DEF Init, WorkerInit, WorkersOK, Label, NoOutcome, Outcome
<1>6. ClientsOK
  BY DEF Init, ClientInit, ClientsOK
<1> QED
  BY <1>1, <1>2, <1>3, <1>4, <1>5, <1>6, TypeParts

-----------------------------------------------------------------------------
\* What the transactions of the store leave behind.

LEMMA LeaseSteps ==
    ASSUME LeaseOK, NEW w \in Worker, AcquireLease(w) \/ ReleaseLease(w) \/ LeaseExpires
    PROVE  LeaseOK'
<1>1. CASE AcquireLease(w)
  BY <1>1 DEF LeaseOK, AcquireLease
<1>2. CASE ReleaseLease(w)
  <2>1. lease' = NoLease \/ lease' = lease
    BY <1>2 DEF ReleaseLease
  <2>2. CASE lease' = NoLease
    BY <2>2 DEF LeaseOK, NoLease
  <2> QED
    BY <2>1, <2>2 DEF LeaseOK
<1>3. CASE LeaseExpires
  <2>1. lease.owner \in Worker \cup {NoOwner}
    BY DEF LeaseOK
  <2> QED
    BY <1>3, <2>1 DEF LeaseOK, LeaseExpires
<1> QED
  BY <1>1, <1>2, <1>3

LEMMA UpdateTaskType ==
    ASSUME TasksOK, NEW w \in Worker, NEW t \in Task, NEW row \in TaskRow,
           UpdateTask(w, t, row)
    PROVE  TasksOK'
  BY DEF TasksOK, UpdateTask

LEMMA MovedType ==
    ASSUME TasksOK, NEW w \in Worker, NEW t \in Task, NEW state \in TaskState
    PROVE  Moved(w, t, state) \in TaskRow
  BY DEF TasksOK, Moved

LEMMA GetTasksType ==
    ASSUME TasksOK, NEW w \in Worker, GetTasks(w), UNCHANGED task
    PROVE  TasksOK'
  BY DEF TasksOK, GetTasks

LEMMA ForgetTasksType ==
    ASSUME TasksOK, NEW w \in Worker, ForgetTasks(w), UNCHANGED task
    PROVE  TasksOK'
  BY DEF TasksOK, ForgetTasks, NoCache, TaskState

LEMMA UpdateRunType ==
    ASSUME RunOK, NEW a \in Actor, NEW state \in RunState, NEW kept \in BOOLEAN,
           UpdateRun(a, state, kept)
    PROVE  RunOK'
  BY DEF RunOK, UpdateRun, NoRun, RunState

LEMMA GetRunType ==
    ASSUME RunOK, NEW a \in Actor, GetRun(a), UNCHANGED run
    PROVE  RunOK'
  BY DEF RunOK, GetRun

LEMMA ForgetRunType ==
    ASSUME RunOK, NEW a \in Actor, ForgetRun(a), UNCHANGED run
    PROVE  RunOK'
  BY DEF RunOK, ForgetRun, NoRun, RunState

LEMMA StartAttemptType ==
    ASSUME AttemptsOK, NEW t \in Task, NEW n \in Nat, StartTaskAttempt(t, n)
    PROVE  AttemptsOK'
  BY DEF AttemptsOK, StartTaskAttempt

LEMMA CloseAttemptsType ==
    ASSUME AttemptsOK, NEW attempts \in SUBSET open, NEW state \in TaskState,
           CloseAttempts(attempts, state)
    PROVE  AttemptsOK'
  BY DEF AttemptsOK, CloseAttempts

-----------------------------------------------------------------------------
\* The locals of a worker.

LEMMA FinishType ==
    ASSUME WorkersOK, NEW w \in Worker, NEW label \in Label, Finish(w, label)
    PROVE  WorkersOK'
  BY DEF WorkersOK, Finish, Goto, SetTodo, NoOutcome, Outcome

LEMMA RaiseType ==
    ASSUME TypeOK, NEW w \in Worker, Raise(w), UNCHANGED clientPc
    PROVE  TypeOK'
<1>1. TasksOK' /\ RunOK'
  BY TypeParts, ForgetTasksType, ForgetRunType DEF Raise, storeVars
<1>2. AttemptsOK' /\ RequestsOK' /\ LeaseOK' /\ ClientsOK'
  BY TypeParts, PartsUnchanged DEF Raise, storeVars
<1>3. WorkersOK'
  BY TypeParts, FinishType DEF Raise, Label
<1> QED
  BY <1>1, <1>2, <1>3, TypeParts

LEMMA BatchType ==
    ASSUME NEW candidates \in SUBSET Task, NEW limit
    PROVE  SelectBatch(candidates, limit) \in SUBSET Task
  BY DEF SelectBatch

LEMMA FailureTargetType ==
    ASSUME NEW t, NEW attempt, NEW result
    PROVE  FailureTarget(t, attempt, result) \in TaskState
  BY DEF FailureTarget, TaskState

-----------------------------------------------------------------------------
\* The steps of a worker, grouped by the rows they write.

\* Steps that only move the worker.
LEMMA LocalStepType ==
    ASSUME TypeOK, NEW w \in Worker, UNCHANGED clientPc,
           CheckRun(w) \/ CheckPaused(w) \/ CheckRequests(w) \/ Execute(w) \/ RenewFence(w)
              \/ Drained(w)
    PROVE  TypeOK'
<1> USE DEF WorkersOK, Label, AdvanceSetup, AdvanceLoop, Goto, SetTodo
<1>1. CASE CheckRun(w) \/ CheckPaused(w) \/ Drained(w)
  <2>1. WorkersOK'
    BY <1>1, TypeParts DEF CheckRun, CheckPaused, Drained
  <2> QED
    BY <1>1, <2>1, TypeParts, PartsUnchanged DEF CheckRun, CheckPaused, Drained, storeVars, copyVars
<1>2. CASE CheckRequests(w)
  <2>1. requests \in Seq(Request)
    BY TypeParts DEF RequestsOK
  <2>2. DOMAIN requests \subseteq Nat
    BY <2>1
  <2>3. Unfinished(w) \in SUBSET Task /\ ReadyTasks(cache[w]) \in SUBSET Task
    BY DEF Unfinished, ReadyTasks
  <2>4. todo' \in [Worker -> SUBSET Task]
    BY <1>2, <2>3, TypeParts DEF CheckRequests
  <2>5. pc' \in [Worker -> Label]
    BY <1>2, TypeParts DEF CheckRequests
  <2>6. request' \in [Worker -> Nat]
    BY <1>2, <2>2, TypeParts DEF CheckRequests
  <2>7. WorkersOK'
    BY <1>2, <2>4, <2>5, <2>6, TypeParts DEF CheckRequests
  <2> QED
    BY <1>2, <2>7, TypeParts, PartsUnchanged DEF CheckRequests, storeVars, copyVars
<1>3. CASE Execute(w)
  <2>1. PICK result \in [Batch(w) -> {"ok"} \cup Failure] :
            outcome' = [outcome EXCEPT ![w] =
                [t \in Task |-> IF t \in Batch(w) THEN result[t] ELSE "none"]]
    BY <1>3 DEF Execute
  <2>2. outcome' \in [Worker -> [Task -> Outcome]]
    BY <2>1, TypeParts DEF Outcome
  <2>3. WorkersOK'
    BY <1>3, <2>2, TypeParts DEF Execute
  <2> QED
    BY <1>3, <2>3, TypeParts, PartsUnchanged DEF Execute, storeVars, copyVars
<1>4. CASE RenewFence(w)
  <2>1. CASE Raise(w)
    BY <2>1, RaiseType
  <2>2. CASE ~Raise(w)
    <3>0. Successes(w) \in SUBSET Task /\ Failures(w) \in SUBSET Task
      BY DEF Successes, Failures
    <3>1. WorkersOK'
      BY <1>4, <2>2, <3>0, TypeParts DEF RenewFence
    <3> QED
      BY <1>4, <2>2, <3>1, TypeParts, PartsUnchanged DEF RenewFence, storeVars, copyVars
  <2> QED
    BY <2>1, <2>2
<1> QED
  BY <1>1, <1>2, <1>3, <1>4

\* Reading the task list.
LEMMA LoadStepType ==
    ASSUME TypeOK, NEW w \in Worker, UNCHANGED clientPc, LoadTasks(w) \/ LoadInterrupted(w)
    PROVE  TypeOK'
<1>1. CASE Raise(w)
  BY <1>1, RaiseType
<1>2. CASE LoadTasks(w)
  <2>1. TasksOK'
    BY <1>2, TypeParts, PartsUnchanged, GetTasksType DEF LoadTasks, storeVars
  <2>2. WorkersOK'
    <3>1. CASE Finish(w, "idle")
      BY <3>1, TypeParts, FinishType DEF Label
    <3>2. CASE ~Finish(w, "idle")
      BY <1>2, <3>2, TypeParts DEF LoadTasks, WorkersOK, Goto, Label, AdvanceLoop
    <3> QED
      BY <3>1, <3>2
  <2> QED
    BY <1>2, <2>1, <2>2, TypeParts, PartsUnchanged DEF LoadTasks, storeVars
<1>3. CASE LoadInterrupted(w) /\ ~Raise(w)
  <2>1. TasksOK'
    BY <1>3, TypeParts, GetTasksType DEF LoadInterrupted, storeVars
  <2>2. WorkersOK'
    BY <1>3, TypeParts
    DEF LoadInterrupted, WorkersOK, Goto, SetTodo, Label, ResumeSteps, Interrupted
  <2> QED
    BY <1>3, <2>1, <2>2, TypeParts, PartsUnchanged DEF LoadInterrupted, storeVars
<1> QED
  BY <1>1, <1>2, <1>3

\* A worker that goes on with another list.
LEMMA MoveType ==
    ASSUME WorkersOK, NEW w \in Worker, NEW label \in Label, NEW S \in SUBSET Task,
           Goto(w, label) \/ UNCHANGED pc, SetTodo(w, S) \/ UNCHANGED todo,
           UNCHANGED <<outcome, budget, request>>
    PROVE  WorkersOK'
  BY DEF WorkersOK, Goto, SetTodo

LEMMA RestType ==
    ASSUME WorkersOK, NEW w \in Worker, NEW t
    PROVE  todo[w] \in SUBSET Task /\ todo[w] \ {t} \in SUBSET Task
  BY DEF WorkersOK

\* Writing one task row.
LEMMA TaskStepType ==
    ASSUME TypeOK, NEW w \in Worker, UNCHANGED clientPc,
           PromoteReady(w) \/ StartTask(w) \/ SkipDependents(w) \/ ResumeTask(w)
              \/ FailAbandonedTask(w) \/ ReadyAbandonedTask(w)
    PROVE  TypeOK'
<1>1. CASE Raise(w)
  BY <1>1, RaiseType
<1>2. ASSUME NEW t \in todo[w], NEW row \in TaskRow, UpdateTask(w, t, row),
             UNCHANGED <<run, open, finished, requests, lease, runCache, runFresh>>, WorkersOK'
      PROVE  TypeOK'
  BY <1>2, TypeParts, PartsUnchanged, UpdateTaskType, RestType
<1>3. ASSUME NEW t \in todo[w], NEW state \in TaskState
      PROVE  Moved(w, t, state) \in TaskRow
  BY <1>3, TypeParts, MovedType, RestType
<1>4. CASE PromoteReady(w) /\ ~Raise(w)
  <2>1. PICK t \in todo[w] :
            /\ UpdateTask(w, t, Moved(w, t, "READY"))
            /\ \/ Goto(w, "start") /\ \E limit : SetTodo(w, SelectBatch(ReadyTasks(cache'[w]), limit))
               \/ SetTodo(w, todo[w] \ {t}) /\ UNCHANGED pc
    BY <1>4 DEF PromoteReady
  <2>2. ReadyTasks(cache'[w]) \in SUBSET Task
    BY DEF ReadyTasks
  <2>3. PICK S \in SUBSET Task : SetTodo(w, S) /\ (Goto(w, "start") \/ UNCHANGED pc)
    BY <2>1, <2>2, TypeParts, BatchType, RestType
  <2>4. WorkersOK'
    BY <1>4, <2>3, TypeParts, MoveType DEF PromoteReady, Label, AdvanceLoop
  <2> QED
    BY <1>2, <1>3, <1>4, <2>1, <2>4 DEF PromoteReady, TaskState
<1>5. CASE StartTask(w) /\ ~Raise(w)
  <2>0. Goto(w, "attempt") /\ UNCHANGED <<todo, outcome, budget, request>>
    BY <1>5 DEF StartTask
  <2>1. WorkersOK'
    BY <2>0, TypeParts DEF WorkersOK, Goto, Label, AdvanceLoop
  <2>2. ASSUME NEW t \in todo[w]
        PROVE  [state |-> "RUNNING", attempt |-> cache[w][t].attempt + 1] \in TaskRow
    <3>0. t \in Task
      BY <2>2, TypeParts, RestType
    <3>1. cache[w][t] \in TaskRow
      BY <3>0, TypeParts DEF TasksOK
    <3>2. cache[w][t].attempt + 1 \in Nat
      BY <3>1
    <3> QED
      BY <3>2 DEF TaskState
  <2>3. PICK t \in todo[w] :
            UpdateTask(w, t, [state |-> "RUNNING", attempt |-> cache[w][t].attempt + 1])
    BY <1>5 DEF StartTask
  <2> QED
    BY <1>2, <1>5, <2>1, <2>2, <2>3 DEF StartTask
<1>6. CASE SkipDependents(w) /\ ~Raise(w)
  <2>1. PICK t \in todo[w] :
            /\ UpdateTask(w, t, Moved(w, t, "SKIPPED"))
            /\ SetTodo(w, todo[w] \ {t})
            /\ Goto(w, "fail_read") \/ Goto(w, "skip")
    BY <1>6 DEF SkipDependents
  <2>2. WorkersOK'
    BY <1>6, <2>1, TypeParts, MoveType, RestType DEF SkipDependents, Label, AdvanceLoop
  <2> QED
    BY <1>2, <1>3, <1>6, <2>1, <2>2 DEF SkipDependents, TaskState
<1>7. ASSUME NEW t \in todo[w], NEW state \in TaskState, UpdateTask(w, t, Moved(w, t, state)),
             \/ NextInterrupted(w, t)
             \/ Goto(w, "res_ready") /\ UNCHANGED todo,
             UNCHANGED <<run, open, finished, requests, lease, runCache, runFresh,
                         outcome, budget, request>>
      PROVE  TypeOK'
  <2>1. \/ SetTodo(w, todo[w] \ {t}) /\ (Goto(w, "res_run") \/ Goto(w, "res_task"))
        \/ Goto(w, "res_ready") /\ UNCHANGED todo
    BY <1>7 DEF NextInterrupted
  <2>2. WorkersOK'
    BY <1>7, <2>1, TypeParts, MoveType, RestType DEF Label, ResumeSteps
  <2> QED
    BY <1>2, <1>3, <1>7, <2>2
<1>8. CASE ResumeTask(w) /\ ~Raise(w)
  <2>1. CASE UNCHANGED <<storeVars, copyVars>> /\ Goto(w, "res_close")
    <3>1. WorkersOK'
      BY <1>8, <2>1, TypeParts, MoveType, RestType
      DEF ResumeTask, NextInterrupted, Label, ResumeSteps
    <3> QED
      BY <2>1, <3>1, TypeParts, PartsUnchanged DEF storeVars, copyVars
  <2>2. CASE ~(UNCHANGED <<storeVars, copyVars>> /\ Goto(w, "res_close"))
    <3>1. PICK t \in todo[w] : UpdateTask(w, t, Moved(w, t, "READY")) /\ NextInterrupted(w, t)
      BY <1>8, <2>2 DEF ResumeTask
    <3> QED
      BY <1>7, <1>8, <2>2, <3>1 DEF ResumeTask, TaskState
  <2> QED
    BY <2>1, <2>2
<1>9. CASE FailAbandonedTask(w) /\ ~Raise(w)
  <2>1. PICK t \in todo[w] :
            /\ UpdateTask(w, t, Moved(w, t, AbandonTarget(w, t)))
            /\ NextInterrupted(w, t) \/ (Goto(w, "res_ready") /\ UNCHANGED todo)
    BY <1>9 DEF FailAbandonedTask
  <2>2. AbandonTarget(w, t) \in TaskState
    BY DEF AbandonTarget, TaskState
  <2> QED
    BY <1>7, <1>9, <2>1, <2>2 DEF FailAbandonedTask
<1>10. CASE ReadyAbandonedTask(w) /\ ~Raise(w)
  <2>1. PICK t \in todo[w] : UpdateTask(w, t, Moved(w, t, "READY")) /\ NextInterrupted(w, t)
    BY <1>10 DEF ReadyAbandonedTask
  <2> QED
    BY <1>7, <1>10, <2>1 DEF ReadyAbandonedTask, TaskState
<1> QED
  BY <1>1, <1>4, <1>5, <1>6, <1>8, <1>9, <1>10

\* Writing a task row together with its attempts, or an attempt alone.
LEMMA AttemptStepType ==
    ASSUME TypeOK, NEW w \in Worker, UNCHANGED clientPc,
           StartAttempt(w) \/ CommitSuccess(w) \/ CommitFailure(w) \/ CancelTask(w)
              \/ CloseAbandonedAttempts(w)
    PROVE  TypeOK'
<1>1. CASE Raise(w)
  BY <1>1, RaiseType
<1>2. ASSUME NEW t \in todo[w], NEW state \in TaskState, NEW attempts \in SUBSET open,
             UpdateTask(w, t, Moved(w, t, state)), CloseAttempts(attempts, state),
             UNCHANGED <<run, requests, lease, runCache, runFresh>>, WorkersOK'
      PROVE  TypeOK'
  <2>1. TasksOK'
    BY <1>2, TypeParts, UpdateTaskType, MovedType, RestType
  <2>2. AttemptsOK'
    BY <1>2, TypeParts, CloseAttemptsType
  <2> QED
    BY <1>2, <2>1, <2>2, TypeParts, PartsUnchanged
<1>3. CASE StartAttempt(w) /\ ~Raise(w)
  <2>1. PICK t \in todo[w] :
            /\ StartTaskAttempt(t, cache[w][t].attempt)
            /\ SetTodo(w, todo[w] \ {t})
            /\ outcome' = [outcome EXCEPT ![w][t] = "started"]
            /\ Goto(w, "mark_read") \/ Goto(w, "start")
            /\ UNCHANGED <<run, task, requests, lease, copyVars, budget, request>>
    BY <1>3 DEF StartAttempt
  <2>2. t \in Task /\ cache[w][t].attempt \in Nat
    BY TypeParts, RestType DEF TasksOK
  <2>3. AttemptsOK'
    BY <2>1, <2>2, TypeParts, StartAttemptType
  <2>4. outcome' \in [Worker -> [Task -> Outcome]]
    BY <2>1, <2>2, TypeParts DEF WorkersOK, Outcome
  <2>5. WorkersOK'
    BY <2>1, <2>4, TypeParts, RestType DEF WorkersOK, SetTodo, Goto, Label, AdvanceLoop
  <2> QED
    BY <2>1, <2>3, <2>5, TypeParts, PartsUnchanged DEF copyVars
<1>4. CASE CommitSuccess(w) /\ ~Raise(w)
  <2>1. PICK t \in todo[w] :
            /\ UpdateTaskAndFinishAttempt(w, t, "SUCCEEDED")
            /\ SetTodo(w, todo[w] \ {t}) /\ Goto(w, "commit_read")
            /\ UNCHANGED <<run, requests, lease, runCache, runFresh, outcome, budget, request>>
    BY <1>4 DEF CommitSuccess
  <2>2. WorkersOK'
    BY <2>1, TypeParts, MoveType, RestType DEF Label, AdvanceLoop
  <2> QED
    BY <1>2, <2>1, <2>2 DEF UpdateTaskAndFinishAttempt, TaskState
<1>5. CASE CommitFailure(w) /\ ~Raise(w)
  <2>1. PICK t \in todo[w] :
            /\ UpdateTaskAndFinishAttempt(w, t,
                   FailureTarget(t, cache[w][t].attempt, outcome[w][t]))
            /\ \/ SetTodo(w, todo[w] \ {t}) /\ UNCHANGED pc
               \/ /\ SetTodo(w, ToSkip(w, cache'[w]))
                  /\ Goto(w, "fail_read") \/ Goto(w, "skip")
            /\ UNCHANGED <<run, requests, lease, runCache, runFresh, outcome, budget, request>>
    BY <1>5 DEF CommitFailure
  <2>2. ToSkip(w, cache'[w]) \in SUBSET Task
    BY DEF ToSkip, Descendants
  <2>3. WorkersOK'
    BY <2>1, <2>2, TypeParts, MoveType, RestType DEF Label, AdvanceLoop
  <2>4. FailureTarget(t, cache[w][t].attempt, outcome[w][t]) \in TaskState
    BY FailureTargetType
  <2> QED
    BY <1>2, <2>1, <2>3, <2>4 DEF UpdateTaskAndFinishAttempt
<1>6. CASE CancelTask(w) /\ ~Raise(w)
  <2>1. PICK t \in todo[w] :
            /\ CancelTaskAndOpenAttempts(w, t)
            /\ SetTodo(w, todo[w] \ {t})
            /\ Goto(w, "cancel_read") \/ Goto(w, "cancel")
            /\ UNCHANGED <<run, requests, lease, runCache, runFresh, outcome, budget, request>>
    BY <1>6 DEF CancelTask
  <2>2. WorkersOK'
    BY <2>1, TypeParts, MoveType, RestType DEF Label, AdvanceLoop
  <2>3. OpenAttempts(t) \in SUBSET open
    BY DEF OpenAttempts
  <2> QED
    BY <1>2, <2>1, <2>2, <2>3 DEF CancelTaskAndOpenAttempts, TaskState
<1>7. CASE CloseAbandonedAttempts(w)
  <2>1. PICK t \in todo[w] : CloseAttempts(OpenAttempts(t), AbandonTarget(w, t))
    BY <1>7 DEF CloseAbandonedAttempts
  <2>2. AbandonTarget(w, t) \in TaskState /\ OpenAttempts(t) \in SUBSET open
    BY DEF AbandonTarget, TaskState, OpenAttempts
  <2>3. AttemptsOK'
    BY <2>1, <2>2, TypeParts, CloseAttemptsType
  <2>4. WorkersOK'
    BY <1>7, TypeParts DEF CloseAbandonedAttempts, WorkersOK, Goto, Label, ResumeSteps
  <2> QED
    BY <1>7, <2>3, <2>4, TypeParts, PartsUnchanged DEF CloseAbandonedAttempts, copyVars
<1> QED
  BY <1>1, <1>3, <1>4, <1>5, <1>6, <1>7

\* Reading or writing the run row.
LEMMA RunStepType ==
    ASSUME TypeOK, NEW w \in Worker, UNCHANGED clientPc,
           ReadRun(w) \/ MarkActive(w) \/ UpdateRunAfterSuccess(w) \/ DisposeFailures(w)
              \/ FinishRun(w) \/ PauseRun(w) \/ CancelRun(w) \/ ReadResumable(w)
              \/ MarkRecovering(w) \/ ValidateRepository(w) \/ ResumeRun(w)
    PROVE  TypeOK'
<1>1. CASE Raise(w)
  BY <1>1, RaiseType
<1>2. w \in Actor /\ runCache[w] \in RunState
  BY TypeParts DEF RunOK
<1>3. ASSUME NEW state \in RunState, NEW kept \in BOOLEAN, UpdateRun(w, state, kept),
             UNCHANGED <<task, open, finished, requests, lease>>,
             UNCHANGED <<cache, fresh>> \/ ForgetTasks(w), WorkersOK'
      PROVE  TypeOK'
  <2>1. TasksOK'
    BY <1>3, TypeParts, PartsUnchanged, ForgetTasksType
  <2> QED
    BY <1>2, <1>3, <2>1, TypeParts, PartsUnchanged, UpdateRunType
<1>4. ASSUME NEW label \in Label, Goto(w, label), UNCHANGED <<todo, outcome, budget, request>>
      PROVE  WorkersOK'
  BY <1>4, TypeParts DEF WorkersOK, Goto
<1>5. ASSUME GetRun(w), UNCHANGED <<storeVars, cache, fresh>>, WorkersOK'
      PROVE  TypeOK'
  BY <1>2, <1>5, TypeParts, PartsUnchanged, GetRunType DEF storeVars
<1>6. CASE ReadRun(w)
  <2>1. \E label \in Label : Goto(w, label)
    BY <1>6 DEF ReadRun, Label, AdvanceLoop
  <2> QED
    BY <1>4, <1>5, <1>6, <2>1 DEF ReadRun
<1>7. CASE MarkActive(w) /\ ~Raise(w)
  <2>1. WorkersOK'
    BY <1>4, <1>7 DEF MarkActive, Label, AdvanceLoop
  <2> QED
    BY <1>2, <1>3, <1>7, <2>1 DEF MarkActive
<1>8. CASE UpdateRunAfterSuccess(w) /\ ~Raise(w)
  <2>1. UpdateRun(w, runCache[w], FALSE)
    BY <1>8 DEF UpdateRunAfterSuccess
  <2>2. WorkersOK'
    <3>1. budget' \in [Worker -> Int]
      <4>1. budget' = [budget EXCEPT ![w] = budget[w] - 1] /\ budget \in [Worker -> Int]
        BY <1>8, TypeParts DEF UpdateRunAfterSuccess, WorkersOK
      <4> QED
        BY <4>1
    <3>2. todo' \in [Worker -> SUBSET Task]
      <4>1. Failures(w) \in SUBSET Task
        BY DEF Failures
      <4> QED
        BY <1>8, <4>1, TypeParts DEF UpdateRunAfterSuccess, WorkersOK, SetTodo
    <3>3. outcome' \in [Worker -> [Task -> Outcome]]
      <4>1. NoOutcome \in [Task -> Outcome]
        BY DEF NoOutcome, Outcome
      <4> QED
        BY <1>8, <4>1, TypeParts DEF UpdateRunAfterSuccess, WorkersOK
    <3>4. PICK label \in Label : Goto(w, label)
      BY <1>8 DEF UpdateRunAfterSuccess, Label, AdvanceLoop
    <3>5. pc' \in [Worker -> Label] /\ request' = request
      BY <1>8, <3>4, TypeParts DEF UpdateRunAfterSuccess, WorkersOK, Goto
    <3> QED
      BY <3>1, <3>2, <3>3, <3>5, TypeParts DEF WorkersOK
  <2> QED
    BY <1>2, <1>3, <1>8, <2>1, <2>2 DEF UpdateRunAfterSuccess
<1>9. CASE DisposeFailures(w) /\ ~Raise(w)
  <2>1. PICK target \in RunState : UpdateRun(w, target, FALSE)
    BY <1>2, <1>9 DEF DisposeFailures, RunState
  <2>2. /\ \/ Finish(w, "release") /\ ForgetTasks(w)
           \/ /\ Goto(w, "loop")
              /\ outcome' = [outcome EXCEPT ![w] = NoOutcome]
              /\ UNCHANGED <<cache, fresh, todo, budget, request>>
        /\ UNCHANGED <<task, open, finished, requests, lease>>
    BY <1>9 DEF DisposeFailures
  <2>3. WorkersOK'
    <3>1. CASE Finish(w, "release")
      BY <3>1, TypeParts, FinishType DEF Label
    <3>2. CASE ~Finish(w, "release")
      <4>1. NoOutcome \in [Task -> Outcome]
        BY DEF NoOutcome, Outcome
      <4> QED
        BY <2>2, <3>2, <4>1, TypeParts DEF WorkersOK, Goto, Label, AdvanceLoop
    <3> QED
      BY <3>1, <3>2
  <2> QED
    BY <1>3, <2>1, <2>2, <2>3
<1>10. CASE FinishRun(w) /\ ~Raise(w)
  <2>1. EndTarget(w) \in RunState
    BY DEF EndTarget, RunState
  <2>2. WorkersOK'
    BY <1>10, TypeParts, FinishType DEF FinishRun, Label
  <2> QED
    BY <1>3, <1>10, <2>1, <2>2 DEF FinishRun
<1>11. CASE PauseRun(w) /\ ~Raise(w)
  <2>1. WorkersOK'
    BY <1>4, <1>11 DEF PauseRun, Label, AdvanceLoop
  <2> QED
    BY <1>3, <1>11, <2>1 DEF PauseRun, RunState
<1>12. CASE CancelRun(w) /\ ~Raise(w)
  <2>1. WorkersOK'
    BY <1>4, <1>12 DEF CancelRun, Label, AdvanceLoop
  <2> QED
    BY <1>3, <1>12, <2>1 DEF CancelRun, RunState
<1>13. CASE ReadResumable(w) /\ ~Raise(w)
  <2>1. WorkersOK'
    BY <1>4, <1>13 DEF ReadResumable, Label, ResumeSteps
  <2> QED
    BY <1>5, <1>13, <2>1 DEF ReadResumable
<1>14. CASE MarkRecovering(w) /\ ~Raise(w)
  <2>1. WorkersOK'
    BY <1>4, <1>14 DEF MarkRecovering, Label, ResumeSteps
  <2> QED
    BY <1>3, <1>14, <2>1 DEF MarkRecovering, RunState
<1>15. CASE ValidateRepository(w) /\ ~Raise(w)
  <2>1. WorkersOK'
    BY <1>4, <1>15 DEF ValidateRepository, Label, ResumeSteps
  <2>2. CASE UNCHANGED <<storeVars, copyVars>>
    BY <2>1, <2>2, TypeParts, PartsUnchanged DEF storeVars, copyVars
  <2> QED
    BY <1>2, <1>3, <1>15, <2>1, <2>2 DEF ValidateRepository
<1>16. CASE ResumeRun(w) /\ ~Raise(w)
  <2>1. WorkersOK'
    BY <1>4, <1>16 DEF ResumeRun, Label, ResumeSteps
  <2> QED
    BY <1>3, <1>16, <2>1 DEF ResumeRun, RunState
<1> QED
  BY <1>1, <1>6, <1>7, <1>8, <1>9, <1>10, <1>11, <1>12, <1>13, <1>14, <1>15, <1>16

\* Taking and giving back the lease, applying a request, exceptions and crashes.
LEMMA OperationStepType ==
    ASSUME TypeOK, NEW w \in Worker, UNCHANGED clientPc,
           AdvanceAcquire(w) \/ ResumeAcquire(w) \/ ReacquireLease(w) \/ ReleaseRun(w)
              \/ ApplyLifecycleRequest(w) \/ Abort(w) \/ Crash(w)
    PROVE  TypeOK'
<1>1. CASE Raise(w)
  BY <1>1, RaiseType
<1>2. CASE AdvanceAcquire(w) \/ ResumeAcquire(w)
  <2>1. LeaseOK'
    BY <1>2, TypeParts, LeaseSteps DEF AdvanceAcquire, ResumeAcquire
  <2>2. PICK b \in Budget : budget' = [budget EXCEPT ![w] = b]
    BY <1>2 DEF AdvanceAcquire, ResumeAcquire
  <2>3. WorkersOK'
    BY <1>2, <2>2, TypeParts, BudgetAssumption
    DEF AdvanceAcquire, ResumeAcquire, WorkersOK, Goto, Label, AdvanceSetup, ResumeSteps
  <2> QED
    BY <1>2, <2>1, <2>3, TypeParts, PartsUnchanged DEF AdvanceAcquire, ResumeAcquire, copyVars
<1>3. CASE ReacquireLease(w)
  <2>1. LeaseOK'
    BY <1>3, TypeParts, LeaseSteps, PartsUnchanged DEF ReacquireLease
  <2>2. CASE Finish(w, "idle")
    <3>1. WorkersOK'
      BY <2>2, TypeParts, FinishType DEF Label
    <3> QED
      BY <1>3, <2>1, <3>1, TypeParts, PartsUnchanged DEF ReacquireLease, copyVars
  <2>3. CASE ~Finish(w, "idle")
    <3>1. WorkersOK'
      BY <1>3, <2>3, TypeParts DEF ReacquireLease, WorkersOK, Goto, Label, AdvanceSetup
    <3> QED
      BY <1>3, <2>1, <3>1, TypeParts, PartsUnchanged DEF ReacquireLease, copyVars
  <2> QED
    BY <2>2, <2>3
<1>4. CASE ReleaseRun(w)
  <2>1. LeaseOK' /\ WorkersOK'
    BY <1>4, TypeParts, LeaseSteps, FinishType DEF ReleaseRun, Label
  <2>2. TasksOK' /\ RunOK'
    BY <1>4, TypeParts, ForgetTasksType, ForgetRunType DEF ReleaseRun
  <2> QED
    BY <1>4, <2>1, <2>2, TypeParts, PartsUnchanged DEF ReleaseRun
<1>5. CASE ApplyLifecycleRequest(w) /\ ~Raise(w)
  <2>1. /\ request[w] \in PendingRequests
        /\ requests' = [requests EXCEPT ![request[w]].status = "APPLIED"]
    BY <1>5 DEF ApplyLifecycleRequest, ApplyRequest
  <2>2. RequestsOK'
    <3>1. requests \in Seq(Request) /\ request[w] \in 1..Len(requests)
      BY <2>1, TypeParts DEF RequestsOK, PendingRequests
    <3> HIDE DEF Request
    <3>2. requests[request[w]] \in Request
      BY <3>1
    <3>3. [requests[request[w]] EXCEPT !.status = "APPLIED"] \in Request
      BY <3>2 DEF Request
    <3>4. requests' = [requests EXCEPT ![request[w]] =
                          [requests[request[w]] EXCEPT !.status = "APPLIED"]]
      BY <2>1
    <3> QED
      BY <3>1, <3>3, <3>4 DEF RequestsOK
  <2>3. WorkersOK'
    BY <1>5, TypeParts, FinishType DEF ApplyLifecycleRequest, Label
  <2> QED
    BY <1>5, <2>2, <2>3, TypeParts, PartsUnchanged DEF ApplyLifecycleRequest, copyVars
<1>6. CASE Crash(w)
  <2>1. TasksOK' /\ RunOK' /\ WorkersOK'
    BY <1>6, TypeParts, ForgetTasksType, ForgetRunType, FinishType DEF Crash, storeVars, Label
  <2> QED
    BY <1>6, <2>1, TypeParts, PartsUnchanged DEF Crash, storeVars
<1> QED
  BY <1>1, <1>2, <1>3, <1>4, <1>5, <1>6 DEF Abort

-----------------------------------------------------------------------------
\* The steps of a client and of the clock.
LEMMA ClientStepType ==
    ASSUME TypeOK, NEW c \in Client, ClientStep(c) \/ ClientFault(c)
    PROVE  TypeOK'
<1> USE DEF ClientStep, ClientFault, ServiceCall
<1>1. WorkersOK' /\ LeaseOK' /\ AttemptsOK' /\ TasksOK'
  BY TypeParts, PartsUnchanged
  DEF PauseCall, PauseCreate, PauseMark, CancelCall, CancelCreate, ClientCrash, storeVars,
      copyVars, workerVars
<1>2. ClientsOK'
  BY TypeParts
  DEF PauseCall, PauseCreate, PauseMark, CancelCall, CancelCreate, ClientCrash, ClientGoto,
      ClientsOK
<1>3. RequestsOK'
  <2>1. ASSUME NEW kind \in {"pause", "cancel"}, CreateRequest(kind) PROVE RequestsOK'
    <3>1. [kind |-> kind, status |-> "PENDING"] \in Request
      OBVIOUS
    <3>2. requests \in Seq(Request)
      BY TypeParts DEF RequestsOK
    <3> QED
      BY <2>1, <3>1, <3>2 DEF CreateRequest, RequestsOK
  <2>2. CASE UNCHANGED requests
    BY <2>2, TypeParts, PartsUnchanged
  <2> QED
    BY <2>1, <2>2
    DEF PauseCall, PauseCreate, PauseMark, CancelCall, CancelCreate, ClientCrash, storeVars
<1>4. RunOK'
  <2>1. \/ UNCHANGED run /\ (GetRun(c) \/ ForgetRun(c) \/ UNCHANGED <<runCache, runFresh>>)
        \/ UpdateRun(c, "PAUSE_REQUESTED", FALSE)
    BY DEF PauseCall, PauseCreate, PauseMark, CancelCall, CancelCreate, ClientCrash, storeVars,
           copyVars
  <2> QED
    BY <2>1, TypeParts, PartsUnchanged, GetRunType, ForgetRunType, UpdateRunType DEF RunState
<1> QED
  BY <1>1, <1>2, <1>3, <1>4, TypeParts

LEMMA ExpiryType ==
    ASSUME TypeOK, AbandonedLeaseExpires \/ HeldLeaseExpires, UNCHANGED <<workerVars, clientPc>>
    PROVE  TypeOK'
<1>1. LeaseOK'
  <2>1. lease.owner \in Worker \cup {NoOwner} /\ LeaseExpires
    BY TypeParts DEF LeaseOK, AbandonedLeaseExpires, HeldLeaseExpires
  <2>2. lease' = [owner |-> lease.owner, live |-> FALSE]
    BY <2>1 DEF LeaseExpires
  <2> QED
    BY <2>1, <2>2 DEF LeaseOK
<1> QED
  BY <1>1, TypeParts, PartsUnchanged
  DEF AbandonedLeaseExpires, HeldLeaseExpires, copyVars, workerVars

-----------------------------------------------------------------------------
LEMMA NextType == TypeOK /\ [Next]_vars => TypeOK'
<1> SUFFICES ASSUME TypeOK, [Next]_vars PROVE TypeOK'
  OBVIOUS
<1>1. ASSUME NEW w \in Worker, WorkerStep(w) PROVE TypeOK'
  BY <1>1, LocalStepType, LoadStepType, TaskStepType, AttemptStepType, RunStepType,
     OperationStepType
  DEF WorkerStep, Advance, Resume
<1>2. ASSUME NEW w \in Worker, WorkerStart(w) \/ WorkerFault(w) PROVE TypeOK'
  BY <1>2, OperationStepType DEF WorkerStart, WorkerFault
<1>3. ASSUME NEW c \in Client, ClientStep(c) \/ ClientFault(c) PROVE TypeOK'
  BY <1>3, ClientStepType
<1>4. CASE (AbandonedLeaseExpires \/ HeldLeaseExpires) /\ UNCHANGED <<workerVars, clientPc>>
  BY <1>4, ExpiryType
<1>5. CASE UNCHANGED vars
  BY <1>5, TypeParts, PartsUnchanged DEF vars, storeVars, copyVars, workerVars
<1> QED
  BY <1>1, <1>2, <1>3, <1>4, <1>5 DEF Next, TimelyNext, ReliableNext

\* Every row, copy and local of the program keeps its type under any interleaving of
\* workers, callers, expiries, exceptions and crashes: every transition target is a
\* state of the machine, every list holds tasks of the plan.
THEOREM TypeCorrect == Spec => []TypeOK
  BY InitTypeOK, NextType, PTL DEF Spec

-----------------------------------------------------------------------------
\* Safety.

HIDE DEF Request

\* What a worker knows at a label about its list S, its records rows, its outcomes out
\* and its copy of the run state.

Startable(rows, t) ==
    /\ rows[t].state = "READY"
    /\ \A d \in Dependencies[t] : rows[d].state = "SUCCEEDED"

\* The first task of a list is being dealt with, the rest waits.
PromotionOK(label, S, rows) ==
    /\ label = "promote" =>
          /\ S \subseteq ReadyTasks(rows)
          /\ \A t \in ReadyTasks(rows) \ S : rows[t].state = "READY"
    /\ label = "start" => \A t \in S : Startable(rows, t)
    /\ label = "attempt" =>
          \E t \in S : /\ FirstByPriority(S, t) /\ rows[t].state = "RUNNING"
                       /\ \A u \in S \ {t} : Startable(rows, u)

Starting == {"start", "attempt", "mark_read", "mark_write", "execute", "renew"}
Committing == {"commit", "commit_read", "commit_write"}
InBatch == Starting \cup Committing \cup {"fail", "skip", "fail_read", "fail_write"}

\* A task with an outcome that is not committed yet is RUNNING in the records.
BatchOK(label, S, rows, out) ==
    /\ label \notin InBatch => out = NoOutcome
    /\ label \in Starting => \A t \in Task : out[t] # "none" => rows[t].state = "RUNNING"
    /\ label \in Committing =>
          /\ \A t \in S : out[t] = "ok" /\ rows[t].state = "RUNNING"
          /\ \A t \in Task : out[t] \in Failure => rows[t].state = "RUNNING"
    /\ label = "fail" => \A t \in S : rows[t].state = "RUNNING"
    /\ label = "skip" => \A t \in S : rows[t].state \in {"PENDING", "READY", "WAITING"}

\* A cancellation reaches every unfinished task before it writes the run.
CancelOK(label, S, rows) ==
    /\ label = "cancel" => \A t \in Task : rows[t].state \in TaskTerminal <=> t \notin S
    /\ label \in {"cancel_read", "cancel_write"} =>
          \A t \in Task : rows[t].state \in TaskTerminal

FirstIs(S, rows, state) ==
    \E t \in S : /\ FirstById(S, t) /\ rows[t].state = state
                 /\ S \ {t} \subseteq Interrupted(rows)

\* A recovery deals with interrupted tasks, one after the other.
ResumeOK(label, S, rows) ==
    /\ label = "res_task" => S \subseteq Interrupted(rows)
    /\ label \in {"res_close", "res_fail"} => FirstIs(S, rows, "RUNNING")
    /\ label = "res_ready" => FirstIs(S, rows, "FAILED_RETRYABLE")

Recovering ==
    {"res_repo", "res_tasks", "res_task", "res_close", "res_fail", "res_ready", "res_run"}

RunCopyOK(label, copy) ==
    /\ label = "res_mark" => copy \in {"PAUSED", "RUNNING"}
    /\ label \in Recovering => copy = "RECOVERING"

Knows(label, S, rows, out, copy) ==
    /\ PromotionOK(label, S, rows) /\ BatchOK(label, S, rows, out)
    /\ CancelOK(label, S, rows) /\ ResumeOK(label, S, rows) /\ RunCopyOK(label, copy)

LocalInv ==
    /\ \A w \in Worker : Knows(pc[w], todo[w], cache[w], outcome[w], runCache[w])
    /\ \A c \in Client : clientPc[c] = "pause_mark" => runCache[c] = "RUNNING"

-----------------------------------------------------------------------------
\* What a copy says about its row, now or when it was read.

Counted(row) ==
    row.state \notin {"PENDING", "READY", "CANCELLED", "SKIPPED"} => row.attempt >= 1

RunCopies == \A a \in runFresh : runCache[a] = run

TaskCopies ==
    \A w \in Worker : \A t \in Task :
        /\ t \in fresh[w] => cache[w][t] = task[t]
        /\ cache[w][t].state \in TaskTerminal => cache[w][t] = task[t]
        /\ cache[w][t].attempt <= task[t].attempt
        /\ Counted(cache[w][t])

\* What the rows promise: a task is READY or was attempted only after its dependencies.
PromiseInv ==
    /\ \A t \in Task :
          task[t].state = "READY" \/ task[t].attempt > 0 => L!DependenciesSucceeded(t)
    /\ run = "COMPLETED" => L!Done
    /\ run = "CANCELLED" => L!Settled

CountInv == \A t \in Task : Counted(task[t])

AttemptInv == AttemptsAccounted /\ SucceededOnce

SafetyInv ==
    /\ TypeOK /\ LocalInv /\ RunCopies /\ TaskCopies
    /\ PromiseInv /\ CountInv /\ AttemptInv
-----------------------------------------------------------------------------
\* What a step of Lifecycle does to the rows.

\* A row that ended stays as it is and no count goes back.
Onward ==
    \A t \in Task : /\ task[t].state \in TaskTerminal => task'[t] = task[t]
                    /\ task'[t].attempt >= task[t].attempt
                    /\ task'[t].state = "SUCCEEDED" =>
                          task[t].state = "SUCCEEDED" \/ task'[t].attempt = task[t].attempt

\* The rows that a step of Lifecycle may write: the task stays, moves or is started.
Legal(t, row) ==
    \/ row = task[t]
    \/ /\ row.state \in TaskTransitions(task[t].state) \ {"RUNNING"}
       /\ row.attempt = task[t].attempt
       /\ row.state = "READY" => L!DependenciesSucceeded(t)
    \/ /\ task[t].state = "READY" /\ L!DependenciesSucceeded(t)
       /\ row = [state |-> "RUNNING", attempt |-> task[t].attempt + 1]

LifecycleStep == [L!Next]_<<run, task>>

\* A legal write of one row is a step of Lifecycle.
LEMMA LegalIsStep ==
    ASSUME TypeOK, NEW t \in Task, NEW row \in TaskRow, Legal(t, row),
           task' = [task EXCEPT ![t] = row], UNCHANGED run
    PROVE  LifecycleStep
<1>0. task \in [Task -> TaskRow] /\ task[t] \in TaskRow
  BY DEF TypeOK
<1>1. CASE row = task[t]
  <2>1. task' = task
    BY <1>0, <1>1
  <2> QED
    BY <2>1 DEF LifecycleStep
<1>2. CASE /\ row.state \in TaskTransitions(task[t].state) \ {"RUNNING"}
           /\ row.attempt = task[t].attempt
           /\ row.state = "READY" => L!DependenciesSucceeded(t)
  <2>1. row = [task[t] EXCEPT !.state = row.state]
    BY <1>0, <1>2
  <2>2. task' = [task EXCEPT ![t].state = row.state]
    BY <1>0, <2>1
  <2>3. L!MoveTask(t, row.state)
    BY <1>2, <2>2 DEF L!MoveTask, L!TaskTransitions, TaskTransitions
  <2> QED
    BY <2>3 DEF LifecycleStep, L!Next, L!TaskState, TaskState
<1>3. CASE /\ task[t].state = "READY" /\ L!DependenciesSucceeded(t)
           /\ row = [state |-> "RUNNING", attempt |-> task[t].attempt + 1]
  <2>1. L!Start(t)
    BY <1>3 DEF L!Start
  <2> QED
    BY <2>1 DEF LifecycleStep, L!Next
<1> QED
  BY <1>1, <1>2, <1>3 DEF Legal

\* The other way round.
LEMMA StepIsLegal ==
    ASSUME TypeOK, LifecycleStep
    PROVE  \/ UNCHANGED <<run, task>>
           \/ UNCHANGED task /\ \E state \in RunState : L!MoveRun(state)
           \/ /\ UNCHANGED run
              /\ \E t \in Task : \E row \in TaskRow :
                    Legal(t, row) /\ task' = [task EXCEPT ![t] = row]
<1>0. task \in [Task -> TaskRow]
  BY DEF TypeOK
<1>1. ASSUME NEW t \in Task, L!Start(t)
      PROVE  \E row \in TaskRow : Legal(t, row) /\ task' = [task EXCEPT ![t] = row]
  <2> DEFINE row == [state |-> "RUNNING", attempt |-> task[t].attempt + 1]
  <2>1. task[t].attempt + 1 \in Nat
    BY <1>0
  <2>2. row \in TaskRow
    BY <2>1 DEF TaskState
  <2>3. Legal(t, row) /\ task' = [task EXCEPT ![t] = row]
    BY <1>0, <1>1 DEF L!Start, Legal
  <2> QED
    BY <2>2, <2>3
<1>2. ASSUME NEW t \in Task, NEW state \in TaskState, L!MoveTask(t, state)
      PROVE  \E row \in TaskRow : Legal(t, row) /\ task' = [task EXCEPT ![t] = row]
  <2> DEFINE row == [task[t] EXCEPT !.state = state]
  <2>1. row \in TaskRow /\ row.state = state /\ row.attempt = task[t].attempt
    BY <1>0
  <2>2. task' = [task EXCEPT ![t] = row]
    BY <1>0, <1>2 DEF L!MoveTask
  <2>3. Legal(t, row)
    BY <1>2, <2>1 DEF L!MoveTask, Legal, L!TaskTransitions, TaskTransitions
  <2> QED
    BY <2>1, <2>2, <2>3
<1>3. (\E t \in Task : L!Start(t) \/ \E state \in L!TaskState : L!MoveTask(t, state)) => UNCHANGED run
  BY DEF L!Start, L!MoveTask
<1>4. (\E state \in L!RunState : L!MoveRun(state)) => UNCHANGED task
  BY DEF L!MoveRun
<1> QED
  BY <1>1, <1>2, <1>3, <1>4 DEF LifecycleStep, L!Next, L!TaskState, TaskState, L!RunState, RunState

\* Legal writes go on, and only from a row that has not ended.
LEMMA LegalGoesOn ==
    ASSUME TypeOK, NEW t \in Task, NEW row \in TaskRow, Legal(t, row)
    PROVE  /\ task[t].state \in TaskTerminal => row = task[t]
           /\ row.attempt >= task[t].attempt
           /\ row.state = "SUCCEEDED" => row.attempt = task[t].attempt
           /\ row.state = "READY" => task[t].state = "READY" \/ L!DependenciesSucceeded(t)
           /\ row.attempt > 0 => task[t].attempt > 0 \/ L!DependenciesSucceeded(t)
<1>0. task[t] \in TaskRow
  BY DEF TypeOK
<1> QED
  BY <1>0 DEF Legal, TaskTransitions, TaskTerminal, TaskState

LEMMA Goes ==
    ASSUME TypeOK, LifecycleStep
    PROVE  Onward
<1>0. task \in [Task -> TaskRow]
  BY DEF TypeOK
<1>1. CASE UNCHANGED task
  BY <1>0, <1>1 DEF Onward
<1>2. ASSUME NEW t \in Task, NEW row \in TaskRow, Legal(t, row), task' = [task EXCEPT ![t] = row]
      PROVE  Onward
  BY <1>0, <1>2, LegalGoesOn DEF Onward
<1> QED
  BY <1>1, <1>2, StepIsLegal

\* Lifecycle keeps its promises.
LEMMA PromiseKept ==
    ASSUME TypeOK, PromiseInv, LifecycleStep
    PROVE  PromiseInv'
<1>0. task \in [Task -> TaskRow]
  BY DEF TypeOK
<1>1. Onward
  BY Goes
<1>2. ASSUME NEW t \in Task, L!DependenciesSucceeded(t)
      PROVE  L!DependenciesSucceeded(t)'
  BY <1>1, <1>2, PlanAssumption DEF Onward, L!DependenciesSucceeded, TaskTerminal
<1>3. (L!Done => L!Done') /\ (L!Settled => L!Settled')
  BY <1>1 DEF Onward, L!Done, L!Settled, L!TaskTerminal, TaskTerminal
<1>4. \A t \in Task :
          task'[t].state = "READY" \/ task'[t].attempt > 0 => L!DependenciesSucceeded(t)'
  <2>1. CASE UNCHANGED task
    BY <1>2, <2>1 DEF PromiseInv
  <2>2. ASSUME NEW u \in Task, NEW row \in TaskRow, Legal(u, row), task' = [task EXCEPT ![u] = row],
               NEW t \in Task
        PROVE  task'[t].state = "READY" \/ task'[t].attempt > 0 => L!DependenciesSucceeded(t)'
    <3>1. CASE t # u
      <4>1. task'[t] = task[t]
        BY <1>0, <2>2, <3>1
      <4> QED
        BY <1>2, <4>1 DEF PromiseInv
    <3>2. CASE t = u
      <4>1. task'[t] = row
        BY <1>0, <2>2, <3>2
      <4>2. task[t].state = "READY" \/ task[t].attempt > 0 => L!DependenciesSucceeded(t)
        BY DEF PromiseInv
      <4> QED
        BY <1>2, <2>2, <3>2, <4>1, <4>2, LegalGoesOn
    <3> QED
      BY <3>1, <3>2
  <2> QED
    BY <2>1, <2>2, StepIsLegal
<1>5. (run' = "COMPLETED" => L!Done') /\ (run' = "CANCELLED" => L!Settled')
  <2>1. CASE UNCHANGED run
    BY <1>3, <2>1 DEF PromiseInv
  <2>2. ASSUME NEW state, L!MoveRun(state)
        PROVE  (run' = "COMPLETED" => L!Done') /\ (run' = "CANCELLED" => L!Settled')
    BY <1>3, <2>2 DEF L!MoveRun
  <2> QED
    BY <2>1, <2>2, StepIsLegal
<1> QED
  BY <1>4, <1>5 DEF PromiseInv

-----------------------------------------------------------------------------
\* What the transactions do to the copies.

LEMMA WriteCopies ==
    ASSUME TypeOK, TypeOK', TaskCopies, CountInv', Onward,
           NEW w \in Worker, NEW t \in Task, NEW row \in TaskRow, UpdateTask(w, t, row)
    PROVE  TaskCopies'
<1>0. /\ task \in [Task -> TaskRow] /\ cache \in [Worker -> [Task -> TaskRow]]
      /\ task' \in [Task -> TaskRow] /\ cache' \in [Worker -> [Task -> TaskRow]]
      /\ fresh \in [Worker -> SUBSET Task]
  BY DEF TypeOK
<1> SUFFICES ASSUME NEW v \in Worker, NEW u \in Task
             PROVE  /\ u \in fresh'[v] => cache'[v][u] = task'[u]
                    /\ cache'[v][u].state \in TaskTerminal => cache'[v][u] = task'[u]
                    /\ cache'[v][u].attempt <= task'[u].attempt
                    /\ Counted(cache'[v][u])
  BY DEF TaskCopies
<1>1. CASE v = w /\ u = t
  <2>1. cache'[v][u] = row /\ task'[u] = row
    BY <1>0, <1>1 DEF UpdateTask
  <2>2. Counted(task'[u])
    BY DEF CountInv
  <2> QED
    BY <2>1, <2>2
<1>2. CASE ~(v = w /\ u = t)
  <2>1. cache'[v][u] = cache[v][u]
    BY <1>0, <1>2 DEF UpdateTask
  <2>2. u \in fresh'[v] => u \in fresh[v] /\ u # t
    BY <1>0, <1>2 DEF UpdateTask
  <2>3. u # t => task'[u] = task[u]
    BY <1>0 DEF UpdateTask
  <2>4. /\ u \in fresh[v] => cache[v][u] = task[u]
        /\ cache[v][u].state \in TaskTerminal => cache[v][u] = task[u]
        /\ cache[v][u].attempt <= task[u].attempt
        /\ Counted(cache[v][u])
    BY DEF TaskCopies
  <2>5. task[u].state \in TaskTerminal => task'[u] = task[u]
    BY DEF Onward
  <2>6. cache[v][u].attempt <= task'[u].attempt
    <3>1. task'[u].attempt >= task[u].attempt
      BY DEF Onward
    <3> HIDE DEF TaskRow
    <3>2. cache[v][u] \in TaskRow /\ task[u] \in TaskRow /\ task'[u] \in TaskRow
      BY <1>0
    <3>3. cache[v][u].attempt \in Nat /\ task[u].attempt \in Nat /\ task'[u].attempt \in Nat
      BY <3>2 DEF TaskRow
    <3> QED
      BY <2>4, <3>1, <3>3
  <2> QED
    BY <2>1, <2>2, <2>3, <2>4, <2>5, <2>6
<1> QED
  BY <1>1, <1>2

LEMMA ReadCopies ==
    ASSUME TypeOK, TaskCopies, CountInv, UNCHANGED task,
           \/ UNCHANGED <<cache, fresh>>
           \/ \E w \in Worker : GetTasks(w) \/ ForgetTasks(w)
    PROVE  TaskCopies'
<1>0. /\ task \in [Task -> TaskRow] /\ cache \in [Worker -> [Task -> TaskRow]]
      /\ fresh \in [Worker -> SUBSET Task]
  BY DEF TypeOK
<1>1. CASE UNCHANGED <<cache, fresh>>
  BY <1>1 DEF TaskCopies
<1>2. ASSUME NEW w \in Worker, GetTasks(w)
      PROVE  TaskCopies'
  BY <1>0, <1>2 DEF TaskCopies, GetTasks, CountInv
<1>3. ASSUME NEW w \in Worker, ForgetTasks(w)
      PROVE  TaskCopies'
  <2>1. /\ \A v \in Worker : cache'[v] = IF v = w THEN NoCache ELSE cache[v]
        /\ \A v \in Worker : fresh'[v] = IF v = w THEN {} ELSE fresh[v]
    BY <1>0, <1>3 DEF ForgetTasks
  <2>2. \A t \in Task : NoCache[t] = [state |-> "PENDING", attempt |-> 0]
    BY DEF NoCache
  <2>3. \A t \in Task : task[t].attempt \in Nat
    BY <1>0
  <2>4. \A t \in Task : /\ NoCache[t].state \notin TaskTerminal
                        /\ NoCache[t].attempt <= task[t].attempt
                        /\ Counted(NoCache[t])
    BY <2>2, <2>3 DEF TaskTerminal, Counted
  <2> QED
    BY <2>1, <2>4 DEF TaskCopies
<1> QED
  BY <1>1, <1>2, <1>3

LEMMA RunCopiesKept ==
    ASSUME TypeOK, RunCopies,
           \/ UNCHANGED <<run, runCache, runFresh>>
           \/ \E a \in Actor : UNCHANGED run /\ (GetRun(a) \/ ForgetRun(a))
           \/ \E a \in Actor, state \in RunState, kept \in BOOLEAN : UpdateRun(a, state, kept)
    PROVE  RunCopies'
  BY DEF TypeOK, RunCopies, GetRun, ForgetRun, UpdateRun

-----------------------------------------------------------------------------
\* What the transactions do to the attempts.

NoNewSuccess == \A t \in Task : task'[t].state = "SUCCEEDED" => task[t].state = "SUCCEEDED"

Recorded(t) == {f.number : f \in {g \in finished : g.task = t /\ g.state = "SUCCEEDED"}}

\* The numbers of the recorded successes are those of the rows, and the counts only grow.
LEMMA SuccessKept ==
    ASSUME TypeOK, TypeOK', SucceededOnce, Onward, NoNewSuccess,
           \A t \in Task : Recorded(t)' = Recorded(t)
    PROVE  SucceededOnce'
<1> SUFFICES ASSUME NEW t \in Task
             PROVE  Recorded(t)' = IF task'[t].state = "SUCCEEDED" THEN {task'[t].attempt} ELSE {}
  BY DEF SucceededOnce, Recorded
<1>1. Recorded(t) = IF task[t].state = "SUCCEEDED" THEN {task[t].attempt} ELSE {}
  BY DEF SucceededOnce, Recorded
<1>2. (task'[t].state = "SUCCEEDED") <=> (task[t].state = "SUCCEEDED")
  BY DEF NoNewSuccess, Onward, TaskTerminal
<1>3. task[t].state = "SUCCEEDED" => task'[t] = task[t]
  BY DEF Onward, TaskTerminal
<1> QED
  BY <1>1, <1>2, <1>3

LEMMA CountsGrow ==
    ASSUME TypeOK, TypeOK', Onward, NEW t \in Task, NEW n \in Nat, n <= task[t].attempt
    PROVE  n <= task'[t].attempt
<1>1. task[t] \in TaskRow /\ task'[t] \in TaskRow
  BY DEF TypeOK
<1>2. task[t].attempt \in Nat /\ task'[t].attempt \in Nat
  BY <1>1
<1>3. task'[t].attempt >= task[t].attempt
  BY DEF Onward
<1> QED
  BY <1>2, <1>3

\* Attempts are left alone.
LEMMA NoAttempt ==
    ASSUME TypeOK, TypeOK', AttemptInv, Onward, NoNewSuccess, UNCHANGED <<open, finished>>
    PROVE  AttemptInv'
<1>1. SucceededOnce'
  BY SuccessKept DEF AttemptInv, Recorded
<1>2. \A a \in open : a[1] \in Task /\ a[2] \in Nat
  BY DEF TypeOK
<1>3. \A f \in finished : f.task \in Task /\ f.number \in Nat
  BY DEF TypeOK
<1>4. AttemptsAccounted'
  <2>1. AttemptsAccounted
    BY DEF AttemptInv
  <2>2. \A a \in open : a[2] >= 1 /\ a[2] <= task'[a[1]].attempt
    BY <1>2, <2>1, CountsGrow DEF AttemptsAccounted
  <2>3. \A f \in finished : f.number <= task'[f.task].attempt
    BY <1>3, <2>1, CountsGrow DEF AttemptsAccounted
  <2> QED
    BY <2>1, <2>2, <2>3 DEF AttemptsAccounted
<1> QED
  BY <1>1, <1>4 DEF AttemptInv

\* An attempt that the row has counted is opened.
LEMMA AttemptOpened ==
    ASSUME TypeOK, TypeOK', AttemptInv, UNCHANGED task,
           NEW t \in Task, NEW n \in Nat, n >= 1, n <= task[t].attempt, StartTaskAttempt(t, n)
    PROVE  AttemptInv'
<1>1. SucceededOnce'
  BY DEF AttemptInv, SucceededOnce, StartTaskAttempt
<1>2. AttemptsAccounted'
  <2>1. \A a \in open' : a[2] >= 1 /\ a[2] <= task[a[1]].attempt
    BY DEF AttemptInv, AttemptsAccounted, StartTaskAttempt
  <2>2. \A f \in finished : <<f.task, f.number>> # <<t, n>>
    BY DEF StartTaskAttempt, AttemptExists
  <2> QED
    BY <2>1, <2>2 DEF AttemptInv, AttemptsAccounted, StartTaskAttempt
<1> QED
  BY <1>1, <1>2 DEF AttemptInv

\* Open attempts are closed in one state.
LEMMA ClosedAccounted ==
    ASSUME TypeOK, TypeOK', AttemptsAccounted, Onward,
           NEW attempts \in SUBSET open, NEW state \in TaskState, CloseAttempts(attempts, state)
    PROVE  AttemptsAccounted'
<1>1. \A a \in open : a[1] \in Task /\ a[2] \in Nat /\ a = <<a[1], a[2]>>
  <2>1. open \subseteq Task \X Nat
    BY DEF TypeOK
  <2>2. \A a \in Task \X Nat : a[1] \in Task /\ a[2] \in Nat /\ a = <<a[1], a[2]>>
    OBVIOUS
  <2> QED
    BY <2>1, <2>2
<1>2. \A f \in finished : f.task \in Task /\ f.number \in Nat
  BY DEF TypeOK
<1>3. \A a \in open' : a[2] >= 1 /\ a[2] <= task'[a[1]].attempt
  BY <1>1, CountsGrow DEF AttemptsAccounted, CloseAttempts
<1>4. ASSUME NEW f \in finished'
      PROVE  \/ f \in finished
             \/ \E a \in attempts : f = [task |-> a[1], number |-> a[2], state |-> state]
  BY DEF CloseAttempts
<1>5. ASSUME NEW f \in finished'
      PROVE  f.number <= task'[f.task].attempt /\ <<f.task, f.number>> \notin open'
  <2>1. CASE f \in finished
    BY <1>2, <2>1, CountsGrow DEF AttemptsAccounted, CloseAttempts
  <2>2. ASSUME NEW a \in attempts, f = [task |-> a[1], number |-> a[2], state |-> state]
        PROVE  f.number <= task'[f.task].attempt /\ <<f.task, f.number>> \notin open'
    <3>1. a \in open /\ f.task = a[1] /\ f.number = a[2] /\ a = <<a[1], a[2]>>
      BY <1>1, <2>2
    <3>2. a[1] \in Task /\ a[2] \in Nat /\ a[2] <= task[a[1]].attempt
      BY <1>1, <3>1 DEF AttemptsAccounted
    <3>3. a[2] <= task'[a[1]].attempt
      BY <3>2, CountsGrow
    <3>4. a \notin open'
      BY DEF CloseAttempts
    <3> QED
      BY <3>1, <3>3, <3>4
  <2> QED
    BY <1>4, <2>1, <2>2
<1>6. ASSUME NEW f \in finished', NEW g \in finished', f.task = g.task, f.number = g.number
      PROVE  f = g
  <2>1. CASE f \in finished /\ g \in finished
    BY <1>6, <2>1 DEF AttemptsAccounted
  <2>2. ASSUME NEW a \in attempts, f = [task |-> a[1], number |-> a[2], state |-> state],
               g \in finished
        PROVE  FALSE
    BY <1>1, <1>6, <2>2 DEF AttemptsAccounted
  <2>3. ASSUME NEW a \in attempts, g = [task |-> a[1], number |-> a[2], state |-> state],
               f \in finished
        PROVE  FALSE
    BY <1>1, <1>6, <2>3 DEF AttemptsAccounted
  <2>4. ASSUME NEW a \in attempts, f = [task |-> a[1], number |-> a[2], state |-> state],
               NEW b \in attempts, g = [task |-> b[1], number |-> b[2], state |-> state]
        PROVE  f = g
    BY <1>6, <2>4
  <2> QED
    BY <1>4, <2>1, <2>2, <2>3, <2>4
<1> QED
  BY <1>3, <1>5, <1>6 DEF AttemptsAccounted

LEMMA AttemptsClosed ==
    ASSUME TypeOK, TypeOK', AttemptInv, Onward, NoNewSuccess,
           NEW attempts \in SUBSET open, NEW state \in TaskState \ {"SUCCEEDED"},
           CloseAttempts(attempts, state)
    PROVE  AttemptInv'
<1>1. \A t \in Task : Recorded(t)' = Recorded(t)
  BY DEF Recorded, CloseAttempts
<1> QED
  BY <1>1, SuccessKept, ClosedAccounted DEF AttemptInv

\* The success of the current attempt is recorded together with the row.
LEMMA SuccessRecorded ==
    ASSUME TypeOK, TypeOK', AttemptInv, Onward, NEW t \in Task,
           task[t].state # "SUCCEEDED",
           task' = [task EXCEPT ![t] = [state |-> "SUCCEEDED", attempt |-> task[t].attempt]],
           <<t, task[t].attempt>> \in open,
           CloseAttempts({<<t, task[t].attempt>>}, "SUCCEEDED")
    PROVE  AttemptInv'
<1> DEFINE n == task[t].attempt
           f == [task |-> t, number |-> n, state |-> "SUCCEEDED"]
<1>0. task \in [Task -> TaskRow]
  BY DEF TypeOK
<1>1. finished' = finished \cup {f}
  BY DEF CloseAttempts
<1>2. ASSUME NEW u \in Task, u # t
      PROVE  Recorded(u)' = Recorded(u) /\ task'[u] = task[u]
  BY <1>0, <1>1, <1>2 DEF Recorded
<1>3. Recorded(t) = {}
  BY DEF AttemptInv, SucceededOnce, Recorded
<1>4. Recorded(t)' = {n}
  <2>1. \A g \in finished : ~(g.task = t /\ g.state = "SUCCEEDED")
    BY <1>3 DEF Recorded
  <2>2. {g \in finished' : g.task = t /\ g.state = "SUCCEEDED"} = {f}
    BY <1>1, <2>1
  <2>3. Recorded(t)' = {g.number : g \in {f}}
    BY <2>2 DEF Recorded
  <2> QED
    BY <2>3
<1>5. task'[t].state = "SUCCEEDED" /\ task'[t].attempt = n
  BY <1>0
<1>6. SucceededOnce'
  BY <1>2, <1>4, <1>5 DEF AttemptInv, SucceededOnce, Recorded
<1>7. AttemptsAccounted'
  BY ClosedAccounted DEF AttemptInv, TaskState
<1> QED
  BY <1>6, <1>7 DEF AttemptInv

-----------------------------------------------------------------------------
\* What a step of worker w does to the locals of everybody.

Moves(w) ==
    /\ \A v \in Worker \ {w} :
          /\ pc'[v] = pc[v] /\ todo'[v] = todo[v] /\ cache'[v] = cache[v]
          /\ outcome'[v] = outcome[v] /\ runCache'[v] = runCache[v]
    /\ \A c \in Client : clientPc'[c] = clientPc[c] /\ runCache'[c] = runCache[c]

\* A step that writes only the components of w, or nothing.
LEMMA MovesOnly ==
    ASSUME TypeOK, NEW w \in Worker, UNCHANGED clientPc,
           UNCHANGED pc \/ \E label : Goto(w, label),
           UNCHANGED todo \/ \E S : SetTodo(w, S),
           UNCHANGED outcome \/ \E out : outcome' = [outcome EXCEPT ![w] = out],
           UNCHANGED cache \/ \E rows : cache' = [cache EXCEPT ![w] = rows],
           UNCHANGED runCache \/ \E copy : runCache' = [runCache EXCEPT ![w] = copy]
    PROVE  Moves(w)
<1>1. \A v \in Worker \ {w} : pc'[v] = pc[v]
  BY DEF Goto, TypeOK
<1>2. \A v \in Worker \ {w} : todo'[v] = todo[v]
  BY DEF SetTodo, TypeOK
<1>3. \A v \in Worker \ {w} : outcome'[v] = outcome[v]
  BY DEF TypeOK
<1>4. \A v \in Worker \ {w} : cache'[v] = cache[v]
  BY DEF TypeOK
<1>5. \A a \in Actor \ {w} : runCache'[a] = runCache[a]
  BY DEF TypeOK
<1> QED
  BY <1>1, <1>2, <1>3, <1>4, <1>5, StoreAssumption DEF Moves

\* What update_task does to the records of the worker.
LEMMA Records ==
    ASSUME TypeOK, NEW w \in Worker, NEW t \in Task, NEW row, UpdateTask(w, t, row)
    PROVE  /\ cache' = [cache EXCEPT ![w] = [cache[w] EXCEPT ![t] = row]]
           /\ cache'[w] = [cache[w] EXCEPT ![t] = row]
           /\ cache'[w][t] = row
           /\ \A u \in Task \ {t} : cache'[w][u] = cache[w][u]
           /\ \E rows : cache' = [cache EXCEPT ![w] = rows]
  BY DEF TypeOK, UpdateTask

KnowsNext(w) == Knows(pc'[w], todo'[w], cache'[w], outcome'[w], runCache'[w])

LEMMA LocalKept ==
    ASSUME LocalInv, NEW w \in Worker, Moves(w), KnowsNext(w)
    PROVE  LocalInv'
  BY DEF LocalInv, Moves, KnowsNext

\* Nothing is known at a label where an operation starts, waits or ends.
Quiet ==
    {"idle", "release", "adv_run", "adv_paused", "adv_load", "loop", "drained", "end_read",
     "end_write", "pause_read", "pause_write", "apply", "res_read", "reacquire"}

LEMMA QuietKnows ==
    ASSUME NEW label \in Quiet, NEW S, NEW rows, NEW copy
    PROVE  Knows(label, S, rows, NoOutcome, copy)
  BY DEF Knows, PromotionOK, BatchOK, CancelOK, ResumeOK, RunCopyOK, Quiet, Starting, Committing,
         InBatch, Recovering

\* Three kinds of step: the rows stay, a task row is written, the run row is written.
LEMMA RowsStay ==
    ASSUME SafetyInv, TypeOK', LocalInv', AttemptInv', UNCHANGED <<run, task>>,
           \/ UNCHANGED <<cache, fresh>>
           \/ \E w \in Worker : GetTasks(w) \/ ForgetTasks(w),
           \/ UNCHANGED <<runCache, runFresh>>
           \/ \E a \in Actor : GetRun(a) \/ ForgetRun(a)
    PROVE  LifecycleStep /\ SafetyInv'
<1>1. TaskCopies'
  BY ReadCopies DEF SafetyInv
<1>2. RunCopies'
  BY RunCopiesKept DEF SafetyInv
<1>3. LifecycleStep
  BY DEF LifecycleStep
<1>4. PromiseInv' /\ CountInv'
  BY <1>3, PromiseKept DEF SafetyInv, CountInv
<1> QED
  BY <1>1, <1>2, <1>3, <1>4 DEF SafetyInv

LEMMA TaskWritten ==
    ASSUME SafetyInv, TypeOK', LocalInv', NEW w \in Worker, NEW t \in Task, NEW row \in TaskRow,
           UpdateTask(w, t, row), Legal(t, row), Counted(row),
           UNCHANGED <<run, runCache, runFresh>>,
           Onward => AttemptInv'
    PROVE  LifecycleStep /\ SafetyInv'
<1>1. LifecycleStep
  BY LegalIsStep DEF SafetyInv, UpdateTask
<1>2. Onward
  BY <1>1, Goes DEF SafetyInv
<1>3. PromiseInv'
  BY <1>1, PromiseKept DEF SafetyInv
<1>4. CountInv'
  BY DEF SafetyInv, CountInv, TypeOK, UpdateTask
<1>5. TaskCopies'
  BY <1>2, <1>4, WriteCopies DEF SafetyInv
<1>6. RunCopies'
  BY RunCopiesKept DEF SafetyInv
<1> QED
  BY <1>1, <1>2, <1>3, <1>4, <1>5, <1>6 DEF SafetyInv

LEMMA RunWritten ==
    ASSUME SafetyInv, TypeOK', LocalInv', NEW a \in Actor, NEW state \in RunState,
           NEW kept \in BOOLEAN, UpdateRun(a, state, kept),
           \/ state = run
           \/ /\ state \in RunTransitions(run) \/ (run = "RUNNING" /\ state = "PAUSED")
              /\ state = "COMPLETED" => L!Done
              /\ state = "CANCELLED" => L!Settled,
           UNCHANGED <<task, open, finished>>,
           UNCHANGED <<cache, fresh>> \/ \E w \in Worker : ForgetTasks(w)
    PROVE  LifecycleStep /\ SafetyInv'
<1>1. run' = state
  BY DEF UpdateRun
<1>2. LifecycleStep
  <2>1. CASE state = run
    BY <1>1, <2>1 DEF LifecycleStep
  <2>2. CASE state # run
    <3>1. L!MoveRun(state)
      BY <1>1, <2>2 DEF L!MoveRun, L!RunTransitions, RunTransitions
    <3> QED
      BY <3>1 DEF LifecycleStep, L!Next, L!RunState, RunState
  <2> QED
    BY <2>1, <2>2
<1>3. PromiseInv' /\ CountInv'
  BY <1>2, PromiseKept DEF SafetyInv, CountInv
<1>4. TaskCopies'
  BY ReadCopies DEF SafetyInv
<1>5. RunCopies'
  BY RunCopiesKept DEF SafetyInv
<1>6. AttemptInv'
  BY DEF SafetyInv, AttemptInv, AttemptsAccounted, SucceededOnce
<1> QED
  BY <1>2, <1>3, <1>4, <1>5, <1>6 DEF SafetyInv

\* Attempts and rows that are left alone stay accounted for.
LEMMA AttemptsStay ==
    ASSUME AttemptInv, UNCHANGED <<task, open, finished>>
    PROVE  AttemptInv'
  BY DEF AttemptInv, AttemptsAccounted, SucceededOnce

\* An operation that returns or raises forgets.
LEMMA FinishKnows ==
    ASSUME TypeOK, NEW w \in Worker, NEW label \in Quiet, Finish(w, label)
    PROVE  KnowsNext(w)
<1>1. pc'[w] = label /\ outcome'[w] = NoOutcome
  BY DEF Finish, Goto, TypeOK
<1> QED
  BY <1>1, QuietKnows DEF KnowsNext

LEMMA RaiseKept ==
    ASSUME SafetyInv, TypeOK', NEW w \in Worker, UNCHANGED clientPc,
           Raise(w) \/ Crash(w)
    PROVE  LifecycleStep /\ SafetyInv'
<1>1. KnowsNext(w)
  BY FinishKnows DEF SafetyInv, Raise, Crash, Quiet
<1>2. Moves(w)
  BY MovesOnly DEF SafetyInv, Raise, Crash, Finish, ForgetTasks, ForgetRun
<1>3. LocalInv'
  BY <1>1, <1>2, LocalKept DEF SafetyInv
<1>4. UNCHANGED <<run, task, open, finished>> /\ ForgetTasks(w) /\ ForgetRun(w)
  BY DEF Raise, Crash, storeVars
<1> QED
  BY <1>3, <1>4, RowsStay, AttemptsStay DEF SafetyInv

-----------------------------------------------------------------------------
\* The steps of a worker, grouped as in the proof of the types.

LEMMA Known ==
    ASSUME SafetyInv, NEW w \in Worker
    PROVE  Knows(pc[w], todo[w], cache[w], outcome[w], runCache[w])
  BY DEF SafetyInv, LocalInv

\* A step to a label at which nothing is known.
LEMMA QuietStep ==
    ASSUME SafetyInv, NEW w \in Worker, NEW label \in Quiet, Goto(w, label),
           pc[w] \notin InBatch \/ outcome'[w] = NoOutcome,
           UNCHANGED outcome \/ outcome'[w] = NoOutcome
    PROVE  KnowsNext(w)
<1>1. pc'[w] = label
  BY DEF SafetyInv, TypeOK, Goto
<1>2. outcome'[w] = NoOutcome
  BY Known DEF Knows, BatchOK
<1> QED
  BY <1>1, <1>2, QuietKnows DEF KnowsNext

LEMMA LocalStepSafe ==
    ASSUME SafetyInv, TypeOK', NEW w \in Worker, UNCHANGED clientPc,
           CheckRun(w) \/ CheckPaused(w) \/ CheckRequests(w) \/ Execute(w) \/ RenewFence(w)
              \/ Drained(w)
    PROVE  LifecycleStep /\ SafetyInv'
<1>0. TypeOK /\ Knows(pc[w], todo[w], cache[w], outcome[w], runCache[w])
  BY Known DEF SafetyInv
<1>1. CASE Raise(w)
  BY <1>1, RaiseKept
<1>2. ASSUME KnowsNext(w), Moves(w), UNCHANGED <<storeVars, copyVars>>
      PROVE  LifecycleStep /\ SafetyInv'
  BY <1>2, LocalKept, RowsStay, AttemptsStay DEF SafetyInv, storeVars, copyVars
<1>3. CASE CheckRun(w) \/ CheckPaused(w) \/ Drained(w)
  <2>1. PICK label \in Quiet : Goto(w, label)
    BY <1>3 DEF CheckRun, CheckPaused, Drained, Quiet
  <2>2. pc[w] \notin InBatch /\ UNCHANGED <<storeVars, copyVars, todo, outcome>>
    BY <1>3 DEF CheckRun, CheckPaused, Drained, At, InBatch, Starting, Committing
  <2>3. KnowsNext(w)
    BY <2>1, <2>2, QuietStep
  <2>4. Moves(w)
    BY <1>0, <2>1, <2>2, MovesOnly DEF copyVars
  <2> QED
    BY <1>2, <2>2, <2>3, <2>4
<1>4. CASE CheckRequests(w)
  <2>1. pc[w] = "loop" /\ UNCHANGED <<storeVars, copyVars, outcome>>
    BY <1>4 DEF CheckRequests, At
  <2>2. outcome'[w] = NoOutcome /\ cache'[w] = cache[w] /\ runCache'[w] = runCache[w]
    BY <1>0, <2>1 DEF Knows, BatchOK, InBatch, Starting, Committing, copyVars
  <2>3. \/ \E label \in Quiet : Goto(w, label) /\ UNCHANGED todo
        \/ SetTodo(w, Unfinished(w)) /\ Unfinished(w) = {} /\ Goto(w, "cancel_read")
        \/ SetTodo(w, Unfinished(w)) /\ Goto(w, "cancel")
        \/ SetTodo(w, ReadyTasks(cache[w])) /\ Goto(w, "drained")
        \/ SetTodo(w, ReadyTasks(cache[w])) /\ Goto(w, "promote")
    BY <1>4 DEF CheckRequests, Quiet
  <2>4. Moves(w)
    BY <1>0, <2>1, <2>3, MovesOnly DEF copyVars
  <2>5. KnowsNext(w)
    <3>1. CASE \E label \in Quiet : Goto(w, label)
      BY <2>1, <2>2, <3>1, QuietStep
    <3>2. CASE SetTodo(w, Unfinished(w)) /\ Unfinished(w) = {} /\ Goto(w, "cancel_read")
      <4>1. pc'[w] = "cancel_read" /\ \A t \in Task : cache[w][t].state \in TaskTerminal
        BY <1>0, <3>2 DEF TypeOK, Goto, Unfinished
      <4> QED
        BY <2>2, <4>1 DEF KnowsNext, Knows, PromotionOK, BatchOK, CancelOK, ResumeOK, RunCopyOK,
           InBatch, Starting, Committing, Recovering
    <3>3. CASE SetTodo(w, Unfinished(w)) /\ Goto(w, "cancel")
      <4>1. pc'[w] = "cancel" /\ todo'[w] = Unfinished(w)
        BY <1>0, <3>3 DEF TypeOK, Goto, SetTodo
      <4> QED
        BY <2>2, <4>1 DEF KnowsNext, Knows, PromotionOK, BatchOK, CancelOK, ResumeOK, RunCopyOK,
           InBatch, Starting, Committing, Recovering, Unfinished
    <3>4. CASE SetTodo(w, ReadyTasks(cache[w])) /\ Goto(w, "promote")
      <4>1. pc'[w] = "promote" /\ todo'[w] = ReadyTasks(cache[w])
        BY <1>0, <3>4 DEF TypeOK, Goto, SetTodo
      <4> QED
        BY <2>2, <4>1 DEF KnowsNext, Knows, PromotionOK, BatchOK, CancelOK, ResumeOK, RunCopyOK,
           InBatch, Starting, Committing, Recovering
    <3> QED
      BY <2>3, <3>1, <3>2, <3>3, <3>4 DEF Quiet
  <2> QED
    BY <1>2, <2>1, <2>4, <2>5
<1>5. CASE Execute(w)
  <2>1. PICK result \in [Batch(w) -> {"ok"} \cup Failure] :
            outcome' = [outcome EXCEPT ![w] =
                [t \in Task |-> IF t \in Batch(w) THEN result[t] ELSE "none"]]
    BY <1>5 DEF Execute
  <2>2. pc[w] = "execute" /\ Goto(w, "renew") /\ UNCHANGED <<storeVars, copyVars, todo>>
    BY <1>5 DEF Execute, At
  <2>3. \A t \in Task : outcome'[w][t] # "none" => outcome[w][t] # "none"
    BY <1>0, <2>1 DEF TypeOK, Batch
  <2>4. pc'[w] = "renew" /\ cache'[w] = cache[w]
    BY <1>0, <2>2 DEF TypeOK, Goto, copyVars
  <2>5. KnowsNext(w)
    BY <1>0, <2>2, <2>3, <2>4 DEF KnowsNext, Knows, PromotionOK, BatchOK, CancelOK, ResumeOK,
       RunCopyOK, InBatch, Starting, Committing, Recovering
  <2>6. Moves(w)
    BY <1>0, <2>1, <2>2, MovesOnly DEF copyVars
  <2> QED
    BY <1>2, <2>2, <2>5, <2>6
<1>6. CASE RenewFence(w) /\ ~Raise(w)
  <2>1. /\ pc[w] = "renew" /\ UNCHANGED <<storeVars, copyVars, outcome>>
        /\ \/ SetTodo(w, Successes(w)) /\ Goto(w, "commit")
           \/ SetTodo(w, Failures(w)) /\ Goto(w, "fail")
    BY <1>6 DEF RenewFence, At
  <2>2. /\ outcome'[w] = outcome[w] /\ cache'[w] = cache[w]
        /\ \/ pc'[w] = "commit" /\ todo'[w] = Successes(w)
           \/ pc'[w] = "fail" /\ todo'[w] = Failures(w)
    BY <1>0, <2>1 DEF TypeOK, SetTodo, Goto, copyVars
  <2>3. \A t \in Task : outcome[w][t] # "none" => cache[w][t].state = "RUNNING"
    BY <1>0, <2>1 DEF Knows, BatchOK, Starting
  <2>4. KnowsNext(w)
    BY <2>2, <2>3 DEF KnowsNext, Knows, PromotionOK, BatchOK, CancelOK, ResumeOK,
       RunCopyOK, InBatch, Starting, Committing, Recovering, Successes, Failures, Failure
  <2>5. Moves(w)
    BY <1>0, <2>1, MovesOnly DEF copyVars
  <2> QED
    BY <1>2, <2>1, <2>4, <2>5
<1> QED
  BY <1>1, <1>3, <1>4, <1>5, <1>6

\* Reading the task list.
LEMMA LoadStepSafe ==
    ASSUME SafetyInv, TypeOK', NEW w \in Worker, UNCHANGED clientPc,
           LoadTasks(w) \/ LoadInterrupted(w)
    PROVE  LifecycleStep /\ SafetyInv'
<1>0. TypeOK /\ Knows(pc[w], todo[w], cache[w], outcome[w], runCache[w])
  BY Known DEF SafetyInv
<1>1. CASE Raise(w)
  BY <1>1, RaiseKept
<1>2. ASSUME KnowsNext(w), Moves(w), GetTasks(w) \/ UNCHANGED <<cache, fresh>>,
             UNCHANGED <<storeVars, runCache, runFresh>>
      PROVE  LifecycleStep /\ SafetyInv'
  BY <1>2, LocalKept, RowsStay, AttemptsStay DEF SafetyInv, storeVars
<1>3. CASE LoadTasks(w)
  <2>1. pc[w] \notin InBatch
    BY <1>3 DEF LoadTasks, At, InBatch, Starting, Committing
  <2>2. KnowsNext(w)
    BY <1>0, <1>3, <2>1, QuietStep, FinishKnows DEF LoadTasks, Quiet
  <2>3. Moves(w)
    BY <1>0, <1>3, MovesOnly DEF LoadTasks, GetTasks, Finish
  <2> QED
    BY <1>2, <1>3, <2>2, <2>3 DEF LoadTasks
<1>4. CASE LoadInterrupted(w) /\ ~Raise(w)
  <2>1. /\ pc[w] = "res_tasks" /\ GetTasks(w) /\ SetTodo(w, Interrupted(task))
        /\ Goto(w, "res_run") \/ Goto(w, "res_task")
        /\ UNCHANGED <<storeVars, runCache, runFresh, outcome>>
    BY <1>4 DEF LoadInterrupted, At
  <2>2. /\ pc'[w] \in {"res_run", "res_task"} /\ todo'[w] = Interrupted(task)
        /\ cache'[w] = task /\ outcome'[w] = outcome[w] /\ runCache'[w] = runCache[w]
    BY <1>0, <2>1 DEF TypeOK, Goto, SetTodo, GetTasks
  <2>3. KnowsNext(w)
    BY <1>0, <2>1, <2>2 DEF KnowsNext, Knows, PromotionOK, BatchOK, CancelOK, ResumeOK,
       RunCopyOK, InBatch, Starting, Committing, Recovering
  <2>4. Moves(w)
    BY <1>0, <2>1, MovesOnly DEF GetTasks
  <2> QED
    BY <1>2, <2>1, <2>3, <2>4
<1> QED
  BY <1>1, <1>3, <1>4

-----------------------------------------------------------------------------
\* Writing one task row.

\* A record that is still current is the row.
LEMMA FreshRow ==
    ASSUME SafetyInv, NEW w \in Worker, NEW t \in fresh[w]
    PROVE  /\ t \in Task /\ cache[w][t] = task[t] /\ task[t] \in TaskRow
           /\ task[t].state \in TaskState /\ task[t].attempt \in Nat
           /\ Counted(task[t])
           /\ \A state : /\ Moved(w, t, state).state = state
                         /\ Moved(w, t, state).attempt = task[t].attempt
                         /\ state \in TaskState => Moved(w, t, state) \in TaskRow
<1>1. t \in Task /\ cache[w][t] = task[t] /\ task[t] \in TaskRow
  BY DEF SafetyInv, TypeOK, TaskCopies
<1>2. Counted(task[t])
  BY <1>1 DEF SafetyInv, CountInv
<1> QED
  BY <1>1, <1>2 DEF Moved

\* Dependencies that SUCCEEDED in any records have.
LEMMA KnownDependencies ==
    ASSUME SafetyInv, NEW w \in Worker, NEW t \in Task,
           \A d \in Dependencies[t] : cache[w][d].state = "SUCCEEDED"
    PROVE  L!DependenciesSucceeded(t)
  BY PlanAssumption DEF SafetyInv, TaskCopies, TaskTerminal, L!DependenciesSucceeded

\* The dependencies of a task that was attempted have SUCCEEDED.
LEMMA AttemptedDependencies ==
    ASSUME SafetyInv, NEW t \in Task,
           task[t].state \notin {"PENDING", "READY", "CANCELLED", "SKIPPED"}
    PROVE  L!DependenciesSucceeded(t)
<1>1. task[t].attempt >= 1 /\ task[t].attempt \in Nat
  BY DEF SafetyInv, CountInv, Counted, TypeOK
<1>2. task[t].attempt > 0
  BY <1>1
<1> QED
  BY <1>2 DEF SafetyInv, PromiseInv

\* A task is moved and its attempts are left alone.
LEMMA TaskMoved ==
    ASSUME SafetyInv, TypeOK', NEW w \in Worker, NEW t \in Task, NEW state \in TaskState,
           UpdateTask(w, t, Moved(w, t, state)),
           state = task[t].state \/ state \in TaskTransitions(task[t].state) \ {"RUNNING"},
           state = "READY" => L!DependenciesSucceeded(t),
           state \in {"READY", "CANCELLED", "SKIPPED"} \/ task[t].attempt >= 1,
           state # "SUCCEEDED",
           UNCHANGED <<run, runCache, runFresh, open, finished>>, KnowsNext(w), Moves(w)
    PROVE  LifecycleStep /\ SafetyInv'
<1> DEFINE row == Moved(w, t, state)
<1>1. t \in fresh[w]
  BY DEF UpdateTask
<1>2. /\ row.state = state /\ row.attempt = task[t].attempt /\ row \in TaskRow
      /\ cache[w][t] = task[t] /\ task[t] \in TaskRow
  BY <1>1, FreshRow
<1>3. Counted(row)
  BY <1>2 DEF Counted
<1>4. Legal(t, row)
  <2>1. CASE state = task[t].state
    <3>1. row = task[t]
      BY <1>2, <2>1
    <3> QED
      BY <3>1 DEF Legal
  <2>2. CASE state # task[t].state
    BY <1>2, <2>2 DEF Legal
  <2> QED
    BY <2>1, <2>2
<1>5. NoNewSuccess
  BY <1>2 DEF NoNewSuccess, UpdateTask, SafetyInv, TypeOK
<1>6. Onward => AttemptInv'
  BY <1>5, NoAttempt DEF SafetyInv
<1>7. LocalInv'
  BY LocalKept DEF SafetyInv
<1> QED
  BY <1>2, <1>3, <1>4, <1>6, <1>7, TaskWritten

LEMMA BatchChosen ==
    ASSUME NEW candidates, NEW limit
    PROVE  SelectBatch(candidates, limit) \subseteq candidates
  BY DEF SelectBatch

\* There is one first task.
LEMMA FirstIsUnique ==
    ASSUME NEW S \in SUBSET Task, NEW t, NEW u
    PROVE  /\ FirstById(S, t) /\ FirstById(S, u) => t = u
           /\ FirstByPriority(S, t) /\ FirstByPriority(S, u) => t = u
<1>0. S \subseteq Nat
  BY PlanAssumption
<1>1. FirstById(S, t) /\ FirstById(S, u) => t = u
  BY <1>0 DEF FirstById
<1>2. ASSUME FirstByPriority(S, t), FirstByPriority(S, u), t # u
      PROVE  FALSE
  <2>1. t \in S /\ u \in S /\ Precedes(t, u) /\ Precedes(u, t)
    BY <1>2 DEF FirstByPriority
  <2>2. t \in Nat /\ u \in Nat /\ Priority[t] \in Nat /\ Priority[u] \in Nat
    BY <1>0, <2>1, PlanAssumption
  <2> QED
    BY <2>1, <2>2 DEF Precedes
<1> QED
  BY <1>1, <1>2

LEMMA PromoteSafe ==
    ASSUME SafetyInv, TypeOK', NEW w \in Worker, UNCHANGED clientPc, PromoteReady(w), ~Raise(w)
    PROVE  LifecycleStep /\ SafetyInv'
<1>0. TypeOK /\ Knows(pc[w], todo[w], cache[w], outcome[w], runCache[w])
  BY Known DEF SafetyInv
<1>1. PICK t \in todo[w] :
          /\ UpdateTask(w, t, Moved(w, t, "READY"))
          /\ \/ /\ Goto(w, "start") /\ todo[w] = {t}
                /\ \E limit : SetTodo(w, SelectBatch(ReadyTasks(cache'[w]), limit))
             \/ SetTodo(w, todo[w] \ {t}) /\ UNCHANGED pc
          /\ UNCHANGED <<run, open, finished, runCache, runFresh, outcome>>
  BY DEF PromoteReady
<1>2. pc[w] = "promote"
  BY DEF PromoteReady, At
<1>3. /\ todo[w] \subseteq ReadyTasks(cache[w])
      /\ \A u \in ReadyTasks(cache[w]) \ todo[w] : cache[w][u].state = "READY"
  BY <1>0, <1>2 DEF Knows, PromotionOK
<1>4. outcome[w] = NoOutcome /\ outcome'[w] = NoOutcome
  BY <1>0, <1>1, <1>2 DEF Knows, BatchOK, InBatch, Starting, Committing
<1>5. t \in Task /\ t \in fresh[w] /\ t \in ReadyTasks(cache[w])
  BY <1>1, <1>3 DEF UpdateTask, ReadyTasks
<1>6. /\ cache'[w][t].state = "READY"
      /\ \A u \in Task \ {t} : cache'[w][u] = cache[w][u]
  <2>1. /\ cache'[w][t] = Moved(w, t, "READY")
        /\ \A u \in Task \ {t} : cache'[w][u] = cache[w][u]
    BY <1>0, <1>1, <1>5, Records
  <2>2. Moved(w, t, "READY").state = "READY"
    BY <1>5, FreshRow
  <2> QED
    BY <2>1, <2>2
<1>7. ReadyTasks(cache'[w]) = ReadyTasks(cache[w])
  BY <1>5, <1>6, PlanAssumption DEF ReadyTasks
<1>8. KnowsNext(w)
  <2>1. CASE Goto(w, "start")
    <3>1. PICK limit : SetTodo(w, SelectBatch(ReadyTasks(cache'[w]), limit))
      BY <1>0, <1>1, <1>2, <2>1 DEF Goto, TypeOK
    <3>2. pc'[w] = "start" /\ todo'[w] \subseteq ReadyTasks(cache'[w]) /\ todo[w] = {t}
      BY <1>0, <1>1, <1>2, <2>1, <3>1, BatchChosen DEF Goto, SetTodo, TypeOK
    <3>3. \A u \in ReadyTasks(cache'[w]) : Startable(cache'[w], u)
      BY <1>3, <1>6, <1>7, <3>2 DEF Startable, ReadyTasks
    <3>4. \A u \in Task : outcome'[w][u] = "none"
      BY <1>4 DEF NoOutcome
    <3> QED
      BY <3>2, <3>3, <3>4 DEF KnowsNext, Knows, PromotionOK, BatchOK, CancelOK, ResumeOK,
         RunCopyOK, InBatch, Starting, Committing, Recovering
  <2>2. CASE SetTodo(w, todo[w] \ {t}) /\ UNCHANGED pc
    <3>1. pc'[w] = "promote" /\ todo'[w] = todo[w] \ {t}
      BY <1>0, <1>2, <2>2 DEF SetTodo, TypeOK
    <3>2. \A u \in ReadyTasks(cache'[w]) \ todo'[w] : cache'[w][u].state = "READY"
      BY <1>3, <1>6, <1>7, <3>1 DEF ReadyTasks
    <3> QED
      BY <1>3, <1>4, <1>7, <3>1, <3>2 DEF KnowsNext, Knows, PromotionOK, BatchOK, CancelOK,
         ResumeOK, RunCopyOK, InBatch, Starting, Committing, Recovering
  <2> QED
    BY <1>1, <2>1, <2>2
<1>9. Moves(w)
  BY <1>0, <1>1, <1>5, Records, MovesOnly
<1>10. L!DependenciesSucceeded(t)
  BY <1>5, KnownDependencies DEF ReadyTasks
<1>11. "READY" = task[t].state \/ "READY" \in TaskTransitions(task[t].state) \ {"RUNNING"}
  BY <1>5, FreshRow DEF ReadyTasks, TaskTransitions
<1> QED
  BY <1>1, <1>5, <1>8, <1>9, <1>10, <1>11, TaskMoved DEF TaskState

LEMMA StartSafe ==
    ASSUME SafetyInv, TypeOK', NEW w \in Worker, UNCHANGED clientPc, StartTask(w), ~Raise(w)
    PROVE  LifecycleStep /\ SafetyInv'
<1>0. TypeOK /\ Knows(pc[w], todo[w], cache[w], outcome[w], runCache[w])
  BY Known DEF SafetyInv
<1>1. PICK t \in todo[w] :
          /\ FirstByPriority(todo[w], t)
          /\ UpdateTask(w, t, [state |-> "RUNNING", attempt |-> cache[w][t].attempt + 1])
          /\ Goto(w, "attempt")
          /\ UNCHANGED <<run, open, finished, runCache, runFresh, todo, outcome>>
  BY DEF StartTask
<1> DEFINE row == [state |-> "RUNNING", attempt |-> task[t].attempt + 1]
<1>2. pc[w] = "start" /\ t \in Task /\ t \in fresh[w]
  BY <1>0, <1>1 DEF StartTask, At, UpdateTask, TypeOK
<1>3. cache[w][t] = task[t] /\ task[t].attempt \in Nat
  BY <1>2, FreshRow
<1>4. \A u \in todo[w] : Startable(cache[w], u)
  BY <1>0, <1>2 DEF Knows, PromotionOK
<1>5. UpdateTask(w, t, row)
  BY <1>1, <1>3
<1>6. Legal(t, row) /\ Counted(row) /\ row \in TaskRow
  <2>1. L!DependenciesSucceeded(t)
    BY <1>2, <1>4, <1>1, KnownDependencies DEF Startable
  <2>2. task[t].state = "READY"
    BY <1>1, <1>3, <1>4 DEF Startable
  <2>3. row.attempt \in Nat /\ row.attempt >= 1
    BY <1>3
  <2> QED
    BY <2>1, <2>2, <2>3 DEF Legal, Counted, TaskState
<1>7. KnowsNext(w)
  <2>1. pc'[w] = "attempt" /\ todo'[w] = todo[w] /\ outcome'[w] = outcome[w]
    BY <1>0, <1>1 DEF TypeOK, Goto
  <2>2. cache'[w][t].state = "RUNNING" /\ \A u \in Task \ {t} : cache'[w][u] = cache[w][u]
    <3> HIDE DEF row
    <3>1. cache'[w][t] = row /\ \A u \in Task \ {t} : cache'[w][u] = cache[w][u]
      BY <1>0, <1>2, <1>5 DEF UpdateTask, TypeOK
    <3> QED
      BY <3>1 DEF row
  <2>3. \A u \in todo[w] \ {t} : Startable(cache'[w], u)
    <3>1. cache[w][t].state = "READY" /\ todo[w] \subseteq Task
      BY <1>0, <1>1, <1>4 DEF Startable, TypeOK
    <3> QED
      BY <1>4, <2>2, <3>1, PlanAssumption DEF Startable
  <2>4. \A u \in Task : outcome'[w][u] # "none" => cache'[w][u].state = "RUNNING"
    BY <1>0, <1>2, <2>1, <2>2 DEF Knows, BatchOK, Starting
  <2> QED
    BY <1>1, <2>1, <2>2, <2>3, <2>4 DEF KnowsNext, Knows, PromotionOK, BatchOK, CancelOK, ResumeOK,
       RunCopyOK, InBatch, Starting, Committing, Recovering
<1>8. Moves(w)
  BY <1>0, <1>1, <1>2, Records, MovesOnly
<1>9. LocalInv'
  BY <1>7, <1>8, LocalKept DEF SafetyInv
<1>10. Onward => AttemptInv'
  <2>1. NoNewSuccess
    BY <1>2, <1>5 DEF NoNewSuccess, UpdateTask, SafetyInv, TypeOK
  <2> QED
    BY <1>1, <2>1, NoAttempt DEF SafetyInv
<1> QED
  BY <1>1, <1>2, <1>5, <1>6, <1>9, <1>10, TaskWritten

LEMMA SkipSafe ==
    ASSUME SafetyInv, TypeOK', NEW w \in Worker, UNCHANGED clientPc, SkipDependents(w), ~Raise(w)
    PROVE  LifecycleStep /\ SafetyInv'
<1>0. TypeOK /\ Knows(pc[w], todo[w], cache[w], outcome[w], runCache[w])
  BY Known DEF SafetyInv
<1>1. PICK t \in todo[w] :
          /\ UpdateTask(w, t, Moved(w, t, "SKIPPED"))
          /\ SetTodo(w, todo[w] \ {t})
          /\ Goto(w, "fail_read") \/ Goto(w, "skip")
          /\ UNCHANGED <<run, open, finished, runCache, runFresh, outcome>>
  BY DEF SkipDependents
<1>2. pc[w] = "skip" /\ t \in Task /\ t \in fresh[w] /\ todo[w] \subseteq Task
  BY <1>0, <1>1 DEF SkipDependents, At, UpdateTask, TypeOK
<1>3. \A u \in todo[w] : cache[w][u].state \in {"PENDING", "READY", "WAITING"}
  BY <1>0, <1>2 DEF Knows, BatchOK
<1>4. pc'[w] \in {"fail_read", "skip"} /\ todo'[w] = todo[w] \ {t}
  BY <1>0, <1>1 DEF TypeOK, Goto, SetTodo
<1>5. \A u \in Task \ {t} : cache'[w][u] = cache[w][u]
  BY <1>0, <1>1, <1>2, Records
<1>6. KnowsNext(w)
  BY <1>2, <1>3, <1>4, <1>5 DEF KnowsNext, Knows, PromotionOK, BatchOK, CancelOK, ResumeOK,
     RunCopyOK, InBatch, Starting, Committing, Recovering
<1>7. Moves(w)
  BY <1>0, <1>1, <1>2, Records, MovesOnly
<1>8. "SKIPPED" \in TaskTransitions(task[t].state) \ {"RUNNING"}
  BY <1>1, <1>2, <1>3, FreshRow DEF TaskTransitions
<1> QED
  BY <1>1, <1>2, <1>6, <1>7, <1>8, TaskMoved DEF TaskState

\* The rest of the list of a recovery is still interrupted, and the run RECOVERING.
LEMMA NextKnows ==
    ASSUME SafetyInv, NEW w \in Worker, NEW t \in todo[w], pc[w] \in Recovering,
           todo[w] \ {t} \subseteq Interrupted(cache[w]),
           \A u \in Task \ {t} : cache'[w][u] = cache[w][u],
           NextInterrupted(w, t), UNCHANGED <<outcome, runCache>>
    PROVE  KnowsNext(w)
<1>0. TypeOK /\ Knows(pc[w], todo[w], cache[w], outcome[w], runCache[w])
  BY Known DEF SafetyInv
<1>1. pc'[w] \in {"res_run", "res_task"} /\ todo'[w] = todo[w] \ {t}
  BY <1>0 DEF TypeOK, NextInterrupted, Goto, SetTodo
<1>2. outcome'[w] = NoOutcome /\ runCache'[w] = "RECOVERING"
  BY <1>0 DEF Knows, BatchOK, RunCopyOK, InBatch, Starting, Committing, Recovering
<1>3. todo'[w] \subseteq Interrupted(cache'[w])
  BY <1>0, <1>1 DEF TypeOK, Interrupted
<1> QED
  BY <1>1, <1>2, <1>3 DEF KnowsNext, Knows, PromotionOK, BatchOK, CancelOK, ResumeOK, RunCopyOK,
     InBatch, Starting, Committing, Recovering

LEMMA ResumeTaskSafe ==
    ASSUME SafetyInv, TypeOK', NEW w \in Worker, UNCHANGED clientPc, ResumeTask(w), ~Raise(w)
    PROVE  LifecycleStep /\ SafetyInv'
<1>0. TypeOK /\ Knows(pc[w], todo[w], cache[w], outcome[w], runCache[w])
  BY Known DEF SafetyInv
<1>1. pc[w] = "res_task" /\ UNCHANGED outcome /\ todo[w] \in SUBSET Task
  BY <1>0 DEF ResumeTask, At, TypeOK
<1>2. todo[w] \subseteq Interrupted(cache[w]) /\ outcome[w] = NoOutcome
      /\ runCache[w] = "RECOVERING"
  BY <1>0, <1>1 DEF Knows, BatchOK, ResumeOK, RunCopyOK, InBatch, Starting, Committing, Recovering
<1>3. ASSUME NEW t \in todo[w], FirstById(todo[w], t), cache[w][t].state = "RUNNING",
             Goto(w, "res_close"), UNCHANGED <<storeVars, copyVars, todo, outcome>>
      PROVE  LifecycleStep /\ SafetyInv'
  <2>1. /\ pc'[w] = "res_close" /\ todo'[w] = todo[w] /\ cache'[w] = cache[w]
        /\ outcome'[w] = NoOutcome /\ runCache'[w] = "RECOVERING"
    BY <1>0, <1>2, <1>3 DEF TypeOK, Goto, copyVars
  <2>2. FirstIs(todo[w], cache[w], "RUNNING")
    BY <1>2, <1>3 DEF FirstIs
  <2>3. KnowsNext(w)
    BY <2>1, <2>2 DEF KnowsNext, Knows, PromotionOK, BatchOK, CancelOK, ResumeOK, RunCopyOK,
       InBatch, Starting, Committing, Recovering
  <2>4. Moves(w)
    BY <1>0, <1>3, MovesOnly DEF copyVars
  <2> QED
    BY <1>3, <2>3, <2>4, LocalKept, RowsStay, AttemptsStay DEF SafetyInv, storeVars, copyVars
<1>4. ASSUME NEW t \in todo[w], cache[w][t].state # "RUNNING",
             UpdateTask(w, t, Moved(w, t, "READY")), NextInterrupted(w, t),
             UNCHANGED <<run, open, finished, runCache, runFresh>>
      PROVE  LifecycleStep /\ SafetyInv'
  <2>1. t \in Task /\ t \in fresh[w] /\ cache[w][t] = task[t]
    BY <1>4, FreshRow DEF UpdateTask
  <2>2. \A u \in Task \ {t} : cache'[w][u] = cache[w][u]
    BY <1>0, <1>4, <2>1, Records
  <2>3. KnowsNext(w)
    BY <1>1, <1>2, <1>4, <2>2, NextKnows DEF Recovering
  <2>4. Moves(w)
    BY <1>0, <1>1, <1>4, <2>1, Records, MovesOnly DEF NextInterrupted
  <2>5. task[t].state \in {"PAUSED", "WAITING"}
    BY <1>2, <1>4, <2>1 DEF Interrupted
  <2>6. L!DependenciesSucceeded(t)
    BY <2>1, <2>5, AttemptedDependencies
  <2>7. "READY" \in TaskTransitions(task[t].state) \ {"RUNNING"}
    BY <2>5 DEF TaskTransitions
  <2> QED
    BY <1>4, <2>1, <2>3, <2>4, <2>6, <2>7, TaskMoved DEF TaskState
<1> QED
  BY <1>1, <1>3, <1>4 DEF ResumeTask

LEMMA FailAbandonedSafe ==
    ASSUME SafetyInv, TypeOK', NEW w \in Worker, UNCHANGED clientPc, FailAbandonedTask(w), ~Raise(w)
    PROVE  LifecycleStep /\ SafetyInv'
<1>0. TypeOK /\ Knows(pc[w], todo[w], cache[w], outcome[w], runCache[w])
  BY Known DEF SafetyInv
<1>1. PICK t \in todo[w] :
          /\ FirstById(todo[w], t)
          /\ UpdateTask(w, t, Moved(w, t, AbandonTarget(w, t)))
          /\ IF AbandonTarget(w, t) = "FAILED_RETRYABLE"
             THEN Goto(w, "res_ready") /\ UNCHANGED todo
             ELSE NextInterrupted(w, t)
          /\ UNCHANGED <<run, open, finished, runCache, runFresh, outcome>>
  BY DEF FailAbandonedTask
<1>2. pc[w] = "res_fail" /\ t \in Task /\ t \in fresh[w] /\ todo[w] \in SUBSET Task
  BY <1>0, <1>1 DEF FailAbandonedTask, At, UpdateTask, TypeOK
<1>3. cache[w][t].state = "RUNNING" /\ todo[w] \ {t} \subseteq Interrupted(cache[w])
  <2>1. FirstIs(todo[w], cache[w], "RUNNING")
    BY <1>0, <1>2 DEF Knows, ResumeOK
  <2> QED
    BY <1>1, <1>2, <2>1, FirstIsUnique DEF FirstIs
<1>4. AbandonTarget(w, t) \in {"FAILED_RETRYABLE", "FAILED_TERMINAL"}
  BY DEF AbandonTarget
<1>5. /\ cache'[w][t] = Moved(w, t, AbandonTarget(w, t))
      /\ \A u \in Task \ {t} : cache'[w][u] = cache[w][u]
  <2>1. cache' = [cache EXCEPT ![w][t] = Moved(w, t, AbandonTarget(w, t))]
    BY <1>1 DEF UpdateTask
  <2> QED
    BY <1>0, <1>2, <2>1 DEF TypeOK
<1>6. cache'[w][t].state = AbandonTarget(w, t)
  BY <1>2, <1>5, FreshRow
<1>7. KnowsNext(w)
  <2>1. CASE AbandonTarget(w, t) = "FAILED_RETRYABLE"
    <3>1. pc'[w] = "res_ready" /\ todo'[w] = todo[w]
      BY <1>0, <1>1, <2>1 DEF TypeOK, Goto
    <3>2. outcome'[w] = NoOutcome /\ runCache'[w] = "RECOVERING"
      BY <1>0, <1>1, <1>2 DEF Knows, BatchOK, RunCopyOK, InBatch, Starting, Committing, Recovering
    <3>3. todo[w] \ {t} \subseteq Interrupted(cache'[w])
      BY <1>2, <1>3, <1>5 DEF Interrupted
    <3>4. FirstIs(todo[w], cache'[w], "FAILED_RETRYABLE")
      BY <1>1, <1>6, <2>1, <3>3 DEF FirstIs
    <3> QED
      BY <3>1, <3>2, <3>4 DEF KnowsNext, Knows, PromotionOK, BatchOK, CancelOK, ResumeOK,
         RunCopyOK, InBatch, Starting, Committing, Recovering
  <2>2. CASE AbandonTarget(w, t) # "FAILED_RETRYABLE"
    BY <1>1, <1>2, <1>3, <1>5, <2>2, NextKnows DEF Recovering
  <2> QED
    BY <2>1, <2>2
<1>8. Moves(w)
  <2>1. /\ UNCHANGED todo \/ \E S : SetTodo(w, S)
        /\ \E label : Goto(w, label)
    BY <1>1 DEF NextInterrupted
  <2> QED
    BY <1>0, <1>1, <1>2, <2>1, Records, MovesOnly
<1>9. /\ AbandonTarget(w, t) \in TaskTransitions(task[t].state) \ {"RUNNING"}
      /\ task[t].attempt >= 1
  BY <1>2, <1>3, <1>4, FreshRow DEF TaskTransitions, Counted
<1>10. AbandonTarget(w, t) \in TaskState
  BY <1>4 DEF TaskState
<1> QED
  BY <1>1, <1>2, <1>4, <1>7, <1>8, <1>9, <1>10, TaskMoved

LEMMA ReadyAbandonedSafe ==
    ASSUME SafetyInv, TypeOK', NEW w \in Worker, UNCHANGED clientPc, ReadyAbandonedTask(w), ~Raise(w)
    PROVE  LifecycleStep /\ SafetyInv'
<1>0. TypeOK /\ Knows(pc[w], todo[w], cache[w], outcome[w], runCache[w])
  BY Known DEF SafetyInv
<1>1. PICK t \in todo[w] :
          /\ FirstById(todo[w], t)
          /\ UpdateTask(w, t, Moved(w, t, "READY"))
          /\ NextInterrupted(w, t)
          /\ UNCHANGED <<run, open, finished, runCache, runFresh, outcome>>
  BY DEF ReadyAbandonedTask
<1>2. pc[w] = "res_ready" /\ t \in Task /\ t \in fresh[w] /\ todo[w] \in SUBSET Task
  BY <1>0, <1>1 DEF ReadyAbandonedTask, At, UpdateTask, TypeOK
<1>3. cache[w][t].state = "FAILED_RETRYABLE" /\ todo[w] \ {t} \subseteq Interrupted(cache[w])
  <2>1. FirstIs(todo[w], cache[w], "FAILED_RETRYABLE")
    BY <1>0, <1>2 DEF Knows, ResumeOK
  <2> QED
    BY <1>1, <1>2, <2>1, FirstIsUnique DEF FirstIs
<1>4. \A u \in Task \ {t} : cache'[w][u] = cache[w][u]
  BY <1>0, <1>1, <1>2, Records
<1>5. KnowsNext(w)
  BY <1>1, <1>2, <1>3, <1>4, NextKnows DEF Recovering
<1>6. Moves(w)
  BY <1>0, <1>1, <1>2, Records, MovesOnly DEF NextInterrupted
<1>7. task[t].state = "FAILED_RETRYABLE"
  BY <1>2, <1>3, FreshRow
<1>8. L!DependenciesSucceeded(t) /\ "READY" \in TaskTransitions(task[t].state) \ {"RUNNING"}
  BY <1>2, <1>7, AttemptedDependencies DEF TaskTransitions
<1> QED
  BY <1>1, <1>2, <1>5, <1>6, <1>8, TaskMoved DEF TaskState

-----------------------------------------------------------------------------
\* Writing a task row together with its attempts, or an attempt alone.

LEMMA StartAttemptSafe ==
    ASSUME SafetyInv, TypeOK', NEW w \in Worker, UNCHANGED clientPc, StartAttempt(w), ~Raise(w)
    PROVE  LifecycleStep /\ SafetyInv'
<1>0. TypeOK /\ Knows(pc[w], todo[w], cache[w], outcome[w], runCache[w])
  BY Known DEF SafetyInv
<1>1. PICK t \in todo[w] :
          /\ FirstByPriority(todo[w], t)
          /\ StartTaskAttempt(t, cache[w][t].attempt)
          /\ SetTodo(w, todo[w] \ {t})
          /\ outcome' = [outcome EXCEPT ![w][t] = "started"]
          /\ Goto(w, "mark_read") \/ Goto(w, "start")
          /\ UNCHANGED <<run, task, copyVars>>
  BY DEF StartAttempt
<1>2. pc[w] = "attempt" /\ todo[w] \in SUBSET Task /\ t \in Task
  BY <1>0 DEF StartAttempt, At, TypeOK
<1>3. cache[w][t].state = "RUNNING" /\ \A u \in todo[w] \ {t} : Startable(cache[w], u)
  <2>1. PICK s \in todo[w] :
            /\ FirstByPriority(todo[w], s) /\ cache[w][s].state = "RUNNING"
            /\ \A u \in todo[w] \ {s} : Startable(cache[w], u)
    BY <1>0, <1>2 DEF Knows, PromotionOK
  <2>2. s = t
    BY <1>1, <1>2, <2>1, FirstIsUnique
  <2> QED
    BY <2>1, <2>2
<1>4. /\ pc'[w] \in {"mark_read", "start"} /\ todo'[w] = todo[w] \ {t} /\ cache'[w] = cache[w]
      /\ \A u \in Task : outcome'[w][u] # "none" => u = t \/ outcome[w][u] # "none"
  BY <1>0, <1>1, <1>2 DEF TypeOK, Goto, SetTodo, copyVars
<1>5. \A u \in Task : outcome'[w][u] # "none" => cache[w][u].state = "RUNNING"
  BY <1>0, <1>2, <1>3, <1>4 DEF Knows, BatchOK, Starting
<1>6. KnowsNext(w)
  BY <1>3, <1>4, <1>5 DEF KnowsNext, Knows, PromotionOK, BatchOK, CancelOK, ResumeOK,
     RunCopyOK, InBatch, Starting, Committing, Recovering
<1>7. Moves(w)
  <2>1. outcome' = [outcome EXCEPT ![w] = [outcome[w] EXCEPT ![t] = "started"]]
    BY <1>1
  <2> QED
    BY <1>0, <1>1, <2>1, MovesOnly DEF copyVars
<1>8. /\ cache[w][t].attempt \in Nat /\ cache[w][t].attempt >= 1
      /\ cache[w][t].attempt <= task[t].attempt
  <2>1. cache[w][t] \in TaskRow
    BY <1>0, <1>2 DEF TypeOK
  <2>2. Counted(cache[w][t]) /\ cache[w][t].attempt <= task[t].attempt
    BY <1>2 DEF SafetyInv, TaskCopies
  <2> QED
    BY <1>3, <2>1, <2>2 DEF Counted
<1>9. AttemptInv'
  BY <1>1, <1>2, <1>8, AttemptOpened DEF SafetyInv
<1> QED
  BY <1>1, <1>6, <1>7, <1>9, LocalKept, RowsStay DEF SafetyInv, copyVars

\* A task and some of its open attempts are closed, in a state that is not a success.
LEMMA TaskClosed ==
    ASSUME SafetyInv, TypeOK', NEW w \in Worker, NEW t \in Task,
           NEW state \in TaskState \ {"SUCCEEDED", "RUNNING", "READY"},
           NEW attempts \in SUBSET open,
           UpdateTask(w, t, Moved(w, t, state)), CloseAttempts(attempts, state),
           state \in TaskTransitions(task[t].state),
           state = "CANCELLED" \/ task[t].attempt >= 1,
           UNCHANGED <<run, runCache, runFresh>>, KnowsNext(w), Moves(w)
    PROVE  LifecycleStep /\ SafetyInv'
<1> DEFINE row == Moved(w, t, state)
<1>1. /\ row.state = state /\ row.attempt = task[t].attempt /\ row \in TaskRow
      /\ cache[w][t] = task[t] /\ task[t] \in TaskRow
  BY FreshRow DEF UpdateTask
<1>2. Counted(row) /\ Legal(t, row)
  BY <1>1 DEF Counted, Legal
<1>3. NoNewSuccess
  BY <1>1 DEF NoNewSuccess, UpdateTask, SafetyInv, TypeOK
<1>4. Onward => AttemptInv'
  BY <1>3, AttemptsClosed DEF SafetyInv
<1>5. LocalInv'
  BY LocalKept DEF SafetyInv
<1> QED
  BY <1>1, <1>2, <1>4, <1>5, TaskWritten

LEMMA CommitSuccessSafe ==
    ASSUME SafetyInv, TypeOK', NEW w \in Worker, UNCHANGED clientPc, CommitSuccess(w), ~Raise(w)
    PROVE  LifecycleStep /\ SafetyInv'
<1>0. TypeOK /\ Knows(pc[w], todo[w], cache[w], outcome[w], runCache[w])
  BY Known DEF SafetyInv
<1>1. PICK t \in todo[w] :
          /\ UpdateTaskAndFinishAttempt(w, t, "SUCCEEDED")
          /\ SetTodo(w, todo[w] \ {t}) /\ Goto(w, "commit_read")
          /\ UNCHANGED <<run, runCache, runFresh, outcome>>
  BY DEF CommitSuccess
<1> DEFINE row == Moved(w, t, "SUCCEEDED")
<1>2. /\ UpdateTask(w, t, row) /\ <<t, cache[w][t].attempt>> \in open
      /\ CloseAttempts({<<t, cache[w][t].attempt>>}, "SUCCEEDED")
  BY <1>1 DEF UpdateTaskAndFinishAttempt
<1>3. pc[w] = "commit" /\ t \in Task /\ t \in fresh[w] /\ todo[w] \in SUBSET Task
  BY <1>0, <1>2 DEF CommitSuccess, At, UpdateTask, TypeOK
<1>4. /\ \A u \in todo[w] : outcome[w][u] = "ok" /\ cache[w][u].state = "RUNNING"
      /\ \A u \in Task : outcome[w][u] \in Failure => cache[w][u].state = "RUNNING"
  BY <1>0, <1>3 DEF Knows, BatchOK, Committing
<1>5. /\ cache[w][t] = task[t] /\ task[t] \in TaskRow
      /\ row.state = "SUCCEEDED" /\ row.attempt = task[t].attempt /\ row \in TaskRow
      /\ Counted(task[t])
  BY <1>3, FreshRow DEF TaskState
<1>6. KnowsNext(w)
  <2>1. pc'[w] = "commit_read" /\ todo'[w] = todo[w] \ {t} /\ outcome'[w] = outcome[w]
    BY <1>0, <1>1 DEF TypeOK, Goto, SetTodo
  <2>2. \A u \in Task \ {t} : cache'[w][u] = cache[w][u]
    BY <1>0, <1>2, <1>3, Records
  <2>3. \A u \in todo'[w] : outcome'[w][u] = "ok" /\ cache'[w][u].state = "RUNNING"
    BY <1>3, <1>4, <2>1, <2>2
  <2>4. \A u \in Task : outcome'[w][u] \in Failure => cache'[w][u].state = "RUNNING"
    BY <1>4, <2>1, <2>2 DEF Failure
  <2> QED
    BY <2>1, <2>3, <2>4 DEF KnowsNext, Knows, PromotionOK, BatchOK, CancelOK, ResumeOK,
       RunCopyOK, InBatch, Starting, Committing, Recovering
<1>7. Moves(w)
  BY <1>0, <1>1, <1>2, <1>3, Records, MovesOnly
<1>8. LocalInv'
  BY <1>6, <1>7, LocalKept DEF SafetyInv
<1>9. Legal(t, row) /\ Counted(row)
  BY <1>4, <1>5 DEF Legal, Counted, TaskTransitions
<1>10. Onward => AttemptInv'
  <2>1. row = [state |-> "SUCCEEDED", attempt |-> task[t].attempt]
    BY <1>5
  <2>2. task' = [task EXCEPT ![t] = [state |-> "SUCCEEDED", attempt |-> task[t].attempt]]
    BY <1>2, <2>1 DEF UpdateTask
  <2>3. task[t].state # "SUCCEEDED"
    BY <1>4, <1>5
  <2> QED
    BY <1>2, <1>3, <1>5, <2>2, <2>3, SuccessRecorded DEF SafetyInv
<1> QED
  BY <1>1, <1>2, <1>3, <1>5, <1>8, <1>9, <1>10, TaskWritten

LEMMA FailureTargets ==
    ASSUME NEW t, NEW attempt, NEW result
    PROVE  FailureTarget(t, attempt, result) \in {"WAITING", "FAILED_RETRYABLE", "FAILED_TERMINAL"}
  BY DEF FailureTarget

LEMMA CommitFailureSafe ==
    ASSUME SafetyInv, TypeOK', NEW w \in Worker, UNCHANGED clientPc, CommitFailure(w), ~Raise(w)
    PROVE  LifecycleStep /\ SafetyInv'
<1>0. TypeOK /\ Knows(pc[w], todo[w], cache[w], outcome[w], runCache[w])
  BY Known DEF SafetyInv
<1>1. PICK t \in todo[w] :
          /\ UpdateTaskAndFinishAttempt(w, t,
                 FailureTarget(t, cache[w][t].attempt, outcome[w][t]))
          /\ \/ SetTodo(w, todo[w] \ {t}) /\ UNCHANGED pc
             \/ /\ SetTodo(w, ToSkip(w, cache'[w]))
                /\ Goto(w, "fail_read") \/ Goto(w, "skip")
          /\ UNCHANGED <<run, runCache, runFresh, outcome>>
  BY DEF CommitFailure
<1>2. PICK state \in {"WAITING", "FAILED_RETRYABLE", "FAILED_TERMINAL"} :
          state = FailureTarget(t, cache[w][t].attempt, outcome[w][t])
  BY FailureTargets
<1>3. /\ UpdateTask(w, t, Moved(w, t, state)) /\ <<t, cache[w][t].attempt>> \in open
      /\ CloseAttempts({<<t, cache[w][t].attempt>>}, state)
  BY <1>1, <1>2 DEF UpdateTaskAndFinishAttempt
<1>4. pc[w] = "fail" /\ t \in Task /\ t \in fresh[w] /\ todo[w] \in SUBSET Task
  BY <1>0, <1>3 DEF CommitFailure, At, UpdateTask, TypeOK
<1>5. \A u \in todo[w] : cache[w][u].state = "RUNNING"
  BY <1>0, <1>4 DEF Knows, BatchOK
<1>6. task[t].state = "RUNNING" /\ task[t].attempt >= 1
  BY <1>4, <1>5, FreshRow DEF Counted
<1>7. KnowsNext(w)
  <2>1. \A u \in Task \ {t} : cache'[w][u] = cache[w][u]
    BY <1>0, <1>3, <1>4, Records
  <2>2. CASE SetTodo(w, todo[w] \ {t}) /\ UNCHANGED pc
    <3>1. pc'[w] = "fail" /\ todo'[w] = todo[w] \ {t}
      BY <1>0, <1>4, <2>2 DEF TypeOK, SetTodo
    <3>2. \A u \in todo'[w] : cache'[w][u].state = "RUNNING"
      BY <1>4, <1>5, <2>1, <3>1
    <3> QED
      BY <3>1, <3>2 DEF KnowsNext, Knows, PromotionOK, BatchOK, CancelOK, ResumeOK,
         RunCopyOK, InBatch, Starting, Committing, Recovering
  <2>3. CASE SetTodo(w, ToSkip(w, cache'[w])) /\ (Goto(w, "fail_read") \/ Goto(w, "skip"))
    <3>1. pc'[w] \in {"fail_read", "skip"} /\ todo'[w] = ToSkip(w, cache'[w])
      BY <1>0, <2>3 DEF TypeOK, SetTodo, Goto
    <3>2. \A u \in todo'[w] : cache'[w][u].state \in {"PENDING", "READY", "WAITING"}
      BY <3>1 DEF ToSkip
    <3> QED
      BY <3>1, <3>2 DEF KnowsNext, Knows, PromotionOK, BatchOK, CancelOK, ResumeOK,
         RunCopyOK, InBatch, Starting, Committing, Recovering
  <2> QED
    BY <1>1, <2>2, <2>3
<1>8. Moves(w)
  <2>1. /\ \E S : SetTodo(w, S)
        /\ UNCHANGED pc \/ \E label : Goto(w, label)
    BY <1>1
  <2> QED
    BY <1>0, <1>1, <1>3, <1>4, <2>1, Records, MovesOnly
<1>9. state \in TaskTransitions(task[t].state)
  BY <1>6 DEF TaskTransitions
<1>10. {<<t, cache[w][t].attempt>>} \in SUBSET open
  BY <1>3
<1>11. state \in TaskState \ {"SUCCEEDED", "RUNNING", "READY"}
  BY DEF TaskState
<1> QED
  BY <1>1, <1>3, <1>4, <1>6, <1>7, <1>8, <1>9, <1>10, <1>11, TaskClosed

LEMMA CancelTaskSafe ==
    ASSUME SafetyInv, TypeOK', NEW w \in Worker, UNCHANGED clientPc, CancelTask(w), ~Raise(w)
    PROVE  LifecycleStep /\ SafetyInv'
<1>0. TypeOK /\ Knows(pc[w], todo[w], cache[w], outcome[w], runCache[w])
  BY Known DEF SafetyInv
<1>1. PICK t \in todo[w] :
          /\ CancelTaskAndOpenAttempts(w, t)
          /\ SetTodo(w, todo[w] \ {t})
          /\ Goto(w, IF todo[w] = {t} THEN "cancel_read" ELSE "cancel")
          /\ UNCHANGED <<run, runCache, runFresh, outcome>>
  BY DEF CancelTask
<1>2. /\ UpdateTask(w, t, Moved(w, t, "CANCELLED"))
      /\ CloseAttempts(OpenAttempts(t), "CANCELLED") /\ OpenAttempts(t) \in SUBSET open
  BY <1>1 DEF CancelTaskAndOpenAttempts, OpenAttempts
<1>3. pc[w] = "cancel" /\ t \in Task /\ t \in fresh[w] /\ todo[w] \in SUBSET Task
  BY <1>0, <1>2 DEF CancelTask, At, UpdateTask, TypeOK
<1>4. \A u \in Task : cache[w][u].state \in TaskTerminal <=> u \notin todo[w]
  BY <1>0, <1>3 DEF Knows, CancelOK
<1>5. task[t].state \in TaskState \ TaskTerminal
  BY <1>1, <1>3, <1>4, FreshRow
<1>6. "CANCELLED" \in TaskTransitions(task[t].state)
  BY <1>5 DEF TaskTransitions, TaskState, TaskTerminal
<1>7. KnowsNext(w)
  <2>1. /\ pc'[w] = IF todo[w] = {t} THEN "cancel_read" ELSE "cancel"
        /\ todo'[w] = todo[w] \ {t}
    BY <1>0, <1>1 DEF TypeOK, SetTodo, Goto
  <2>2. outcome'[w] = NoOutcome
    BY <1>0, <1>1, <1>3 DEF Knows, BatchOK, InBatch, Starting, Committing
  <2>3. /\ cache'[w][t] = Moved(w, t, "CANCELLED")
        /\ \A u \in Task \ {t} : cache'[w][u] = cache[w][u]
    <3>1. cache' = [cache EXCEPT ![w][t] = Moved(w, t, "CANCELLED")]
      BY <1>2 DEF UpdateTask
    <3> QED
      BY <1>0, <1>3, <3>1 DEF TypeOK
  <2>4. cache'[w][t].state = "CANCELLED"
    BY <1>3, <2>3, FreshRow
  <2>5. \A u \in Task : cache'[w][u].state \in TaskTerminal <=> u \notin todo'[w]
    BY <1>4, <2>1, <2>3, <2>4 DEF TaskTerminal
  <2> QED
    BY <2>1, <2>2, <2>5 DEF KnowsNext, Knows, PromotionOK, BatchOK, CancelOK, ResumeOK,
       RunCopyOK, InBatch, Starting, Committing, Recovering
<1>8. Moves(w)
  BY <1>0, <1>1, <1>2, <1>3, Records, MovesOnly
<1> QED
  BY <1>1, <1>2, <1>3, <1>6, <1>7, <1>8, TaskClosed DEF TaskState

LEMMA CloseAbandonedSafe ==
    ASSUME SafetyInv, TypeOK', NEW w \in Worker, UNCHANGED clientPc, CloseAbandonedAttempts(w)
    PROVE  LifecycleStep /\ SafetyInv'
<1>0. TypeOK /\ Knows(pc[w], todo[w], cache[w], outcome[w], runCache[w])
  BY Known DEF SafetyInv
<1>1. PICK t \in todo[w] : CloseAttempts(OpenAttempts(t), AbandonTarget(w, t))
  BY DEF CloseAbandonedAttempts
<1>2. /\ AbandonTarget(w, t) \in TaskState \ {"SUCCEEDED"}
      /\ OpenAttempts(t) \in SUBSET open
  BY DEF AbandonTarget, TaskState, OpenAttempts
<1>3. pc[w] = "res_close" /\ Goto(w, "res_fail") /\ UNCHANGED <<run, task, copyVars, todo, outcome>>
  BY DEF CloseAbandonedAttempts, At
<1>4. Onward /\ NoNewSuccess
  BY <1>0, <1>3 DEF Onward, NoNewSuccess, TypeOK
<1>5. AttemptInv'
  BY <1>1, <1>2, <1>4, AttemptsClosed DEF SafetyInv
<1>6. /\ pc'[w] = "res_fail" /\ todo'[w] = todo[w] /\ cache'[w] = cache[w]
      /\ outcome'[w] = outcome[w] /\ runCache'[w] = runCache[w]
  BY <1>0, <1>3 DEF TypeOK, Goto, copyVars
<1>7. KnowsNext(w)
  BY <1>0, <1>3, <1>6 DEF KnowsNext, Knows, PromotionOK, BatchOK, CancelOK, ResumeOK,
     RunCopyOK, InBatch, Starting, Committing, Recovering
<1>8. Moves(w)
  BY <1>0, <1>3, MovesOnly DEF copyVars
<1> QED
  BY <1>3, <1>5, <1>7, <1>8, LocalKept, RowsStay DEF SafetyInv, copyVars


-----------------------------------------------------------------------------
\* Reading and writing the run row.

\* A write based on a current copy is an edge of the state machine, and a run ends only
\* when the records the worker holds say so: records that ended agree with their rows.
LEMMA EndsKnown ==
    ASSUME SafetyInv, NEW w \in Worker
    PROVE  /\ (\A t \in Task : cache[w][t].state \in {"SUCCEEDED", "SKIPPED"}) => L!Done
           /\ (\A t \in Task : cache[w][t].state \in TaskTerminal) => L!Settled
<1>1. \A t \in Task : cache[w][t].state \in TaskTerminal => cache[w][t] = task[t]
  BY DEF SafetyInv, TaskCopies
<1> QED
  BY <1>1 DEF L!Done, L!Settled, L!TaskTerminal, TaskTerminal

\* A worker that writes the run row and goes on.
LEMMA RunMoved ==
    ASSUME SafetyInv, TypeOK', NEW w \in Worker, UNCHANGED clientPc,
           NEW state \in RunState, NEW kept \in BOOLEAN, UpdateRun(w, state, kept),
           \/ state = runCache[w]
           \/ /\ state \in RunTransitions(runCache[w]) \/ (CanPause(runCache[w]) /\ state = "PAUSED")
              /\ state = "COMPLETED" => L!Done
              /\ state = "CANCELLED" => L!Settled,
           KnowsNext(w),
           UNCHANGED <<task, open, finished>>,
           UNCHANGED <<cache, fresh>> \/ ForgetTasks(w),
           \E label : Goto(w, label),
           UNCHANGED todo \/ \E S : SetTodo(w, S),
           UNCHANGED outcome \/ \E out : outcome' = [outcome EXCEPT ![w] = out]
    PROVE  LifecycleStep /\ SafetyInv'
<1>1. runCache[w] = run
  BY DEF SafetyInv, RunCopies, UpdateRun
<1>2. \/ state = run
      \/ state \in RunTransitions(run)
      \/ run = "RUNNING" /\ state = "PAUSED"
  BY <1>1 DEF CanPause, CanTransitionRun, RunTransitions, SafetyInv, TypeOK, RunState
<1>3. Moves(w)
  BY MovesOnly DEF SafetyInv, UpdateRun, ForgetTasks
<1>4. LocalInv'
  BY <1>3, LocalKept DEF SafetyInv
<1> QED
  BY <1>1, <1>2, <1>4, RunWritten

LEMMA ReadRunSafe ==
    ASSUME SafetyInv, TypeOK', NEW w \in Worker, UNCHANGED clientPc,
           ReadRun(w) \/ ReadResumable(w)
    PROVE  LifecycleStep /\ SafetyInv'
<1>0. TypeOK /\ Knows(pc[w], todo[w], cache[w], outcome[w], runCache[w])
  BY Known DEF SafetyInv
<1>1. CASE Raise(w)
  BY <1>1, RaiseKept
<1>2. ASSUME KnowsNext(w), GetRun(w), UNCHANGED <<storeVars, cache, fresh, todo, outcome>>,
             NEW label, Goto(w, label)
      PROVE  LifecycleStep /\ SafetyInv'
  <2>1. Moves(w)
    BY <1>0, <1>2, MovesOnly DEF GetRun
  <2> QED
    BY <1>2, <2>1, LocalKept, RowsStay, AttemptsStay DEF SafetyInv, storeVars
<1>3. CASE ReadRun(w)
  <2>1. GetRun(w) /\ UNCHANGED <<storeVars, cache, fresh, todo, outcome>>
    BY <1>3 DEF ReadRun
  <2>2. PICK step \in {<<"mark_read", "mark_write">>, <<"commit_read", "commit_write">>,
                       <<"fail_read", "fail_write">>, <<"end_read", "end_write">>,
                       <<"pause_read", "pause_write">>, <<"cancel_read", "cancel_write">>} :
            pc[w] = step[1] /\ Goto(w, step[2])
    BY <1>3 DEF ReadRun, At
  <2>3. pc'[w] = step[2]
    BY <1>0, <2>2 DEF TypeOK, Goto
  <2>4. KnowsNext(w)
    BY <1>0, <2>1, <2>2, <2>3 DEF KnowsNext, Knows, PromotionOK, BatchOK, CancelOK, ResumeOK,
       RunCopyOK, InBatch, Starting, Committing, Recovering
  <2> QED
    BY <1>2, <2>1, <2>2, <2>4
<1>4. CASE ReadResumable(w) /\ ~Raise(w)
  <2>1. /\ pc[w] = "res_read" /\ run \in {"PAUSED", "RUNNING", "RECOVERING"} /\ GetRun(w)
        /\ Goto(w, IF run = "RECOVERING" THEN "res_repo" ELSE "res_mark")
        /\ UNCHANGED <<storeVars, cache, fresh, todo, outcome>>
    BY <1>4 DEF ReadResumable, At
  <2>2. runCache'[w] = run /\ pc'[w] = IF run = "RECOVERING" THEN "res_repo" ELSE "res_mark"
    BY <1>0, <2>1 DEF TypeOK, Goto, GetRun
  <2>3. KnowsNext(w)
    BY <1>0, <2>1, <2>2 DEF KnowsNext, Knows, PromotionOK, BatchOK, CancelOK, ResumeOK,
       RunCopyOK, InBatch, Starting, Committing, Recovering
  <2> QED
    BY <1>2, <2>1, <2>3
<1> QED
  BY <1>1, <1>3, <1>4

LEMMA BatchRunSafe ==
    ASSUME SafetyInv, TypeOK', NEW w \in Worker, UNCHANGED clientPc,
           MarkActive(w) \/ UpdateRunAfterSuccess(w), ~Raise(w)
    PROVE  LifecycleStep /\ SafetyInv'
<1>0. TypeOK /\ Knows(pc[w], todo[w], cache[w], outcome[w], runCache[w])
  BY Known DEF SafetyInv
<1>1. runCache[w] \in RunState
  BY <1>0 DEF TypeOK
<1>2. /\ UpdateRun(w, runCache[w], FALSE)
      /\ UNCHANGED <<task, open, finished, cache, fresh>>
  BY DEF MarkActive, UpdateRunAfterSuccess
<1>3. \/ pc[w] = "mark_write" /\ Goto(w, "execute") /\ UNCHANGED <<todo, outcome>>
      \/ pc[w] = "commit_write" /\ Goto(w, "commit") /\ UNCHANGED <<todo, outcome>>
      \/ pc[w] = "commit_write" /\ SetTodo(w, Failures(w)) /\ Goto(w, "fail") /\ UNCHANGED outcome
      \/ Goto(w, "loop") /\ outcome' = [outcome EXCEPT ![w] = NoOutcome] /\ UNCHANGED todo
  BY DEF MarkActive, UpdateRunAfterSuccess, At
<1>4. KnowsNext(w)
  <2>1. CASE \/ pc[w] = "mark_write" /\ Goto(w, "execute") /\ UNCHANGED <<todo, outcome>>
             \/ pc[w] = "commit_write" /\ Goto(w, "commit") /\ UNCHANGED <<todo, outcome>>
    <3>1. \/ pc[w] = "mark_write" /\ pc'[w] = "execute"
          \/ pc[w] = "commit_write" /\ pc'[w] = "commit"
      BY <1>0, <2>1 DEF TypeOK, Goto
    <3> QED
      BY <1>0, <1>2, <2>1, <3>1 DEF KnowsNext, Knows, PromotionOK, BatchOK, CancelOK, ResumeOK,
         RunCopyOK, InBatch, Starting, Committing, Recovering
  <2>2. CASE pc[w] = "commit_write" /\ SetTodo(w, Failures(w)) /\ Goto(w, "fail") /\ UNCHANGED outcome
    <3>1. pc'[w] = "fail" /\ todo'[w] = Failures(w)
      BY <1>0, <2>2 DEF TypeOK, Goto, SetTodo
    <3>2. \A t \in Failures(w) : cache[w][t].state = "RUNNING"
      BY <1>0, <2>2 DEF Knows, BatchOK, Failures, Committing
    <3> QED
      BY <1>2, <3>1, <3>2 DEF KnowsNext, Knows, PromotionOK, BatchOK, CancelOK, ResumeOK,
         RunCopyOK, InBatch, Starting, Committing, Recovering
  <2>3. CASE Goto(w, "loop") /\ outcome' = [outcome EXCEPT ![w] = NoOutcome]
    <3>1. outcome'[w] = NoOutcome
      BY <1>0, <2>3 DEF TypeOK
    <3> QED
      BY <2>3, <3>1, QuietStep DEF Quiet
  <2> QED
    BY <1>3, <2>1, <2>2, <2>3
<1> QED
  BY <1>1, <1>2, <1>3, <1>4, RunMoved

LEMMA DisposeSafe ==
    ASSUME SafetyInv, TypeOK', NEW w \in Worker, UNCHANGED clientPc, DisposeFailures(w), ~Raise(w)
    PROVE  LifecycleStep /\ SafetyInv'
<1>0. TypeOK /\ runCache[w] \in RunState
  BY DEF SafetyInv, TypeOK
<1>1. PICK state \in RunState :
          /\ UpdateRun(w, state, FALSE)
          /\ \/ state = runCache[w]
             \/ state = "FAILED" /\ CanTransitionRun(runCache[w], "FAILED")
             \/ state = "PAUSED" /\ CanPause(runCache[w])
  BY <1>0 DEF DisposeFailures, RunState
<1>2. /\ \/ Finish(w, "release") /\ ForgetTasks(w)
         \/ /\ Goto(w, "loop")
            /\ outcome' = [outcome EXCEPT ![w] = NoOutcome]
            /\ UNCHANGED <<cache, fresh, todo, budget, request>>
      /\ UNCHANGED <<task, open, finished, requests, lease>>
  BY DEF DisposeFailures
<1>3. KnowsNext(w)
  <2>1. CASE Finish(w, "release")
    BY <1>0, <2>1, FinishKnows DEF Quiet
  <2>2. CASE Goto(w, "loop") /\ outcome' = [outcome EXCEPT ![w] = NoOutcome]
    <3>1. outcome'[w] = NoOutcome
      BY <1>0, <2>2 DEF TypeOK
    <3> QED
      BY <2>2, <3>1, QuietStep DEF Quiet
  <2> QED
    BY <1>2, <2>1, <2>2
<1>4. \/ state = runCache[w]
      \/ /\ state \in RunTransitions(runCache[w]) \/ (CanPause(runCache[w]) /\ state = "PAUSED")
         /\ state # "COMPLETED" /\ state # "CANCELLED"
  BY <1>1 DEF CanTransitionRun
<1>5. /\ \E label : Goto(w, label)
      /\ UNCHANGED todo \/ \E S : SetTodo(w, S)
      /\ \E out : outcome' = [outcome EXCEPT ![w] = out]
  BY <1>2 DEF Finish
<1> QED
  BY <1>1, <1>2, <1>3, <1>4, <1>5, RunMoved

\* Ending, pausing or cancelling the run.
LEMMA EndSafe ==
    ASSUME SafetyInv, TypeOK', NEW w \in Worker, UNCHANGED clientPc,
           FinishRun(w) \/ PauseRun(w) \/ CancelRun(w), ~Raise(w)
    PROVE  LifecycleStep /\ SafetyInv'
<1>0. TypeOK /\ Knows(pc[w], todo[w], cache[w], outcome[w], runCache[w])
  BY Known DEF SafetyInv
<1>1. PICK state \in RunState :
          /\ UpdateRun(w, state, FALSE)
          /\ \/ state = EndTarget(w) /\ CanTransitionRun(runCache[w], state)
             \/ state = "PAUSED" /\ CanPause(runCache[w])
             \/ /\ state = "CANCELLED" /\ CanTransitionRun(runCache[w], state)
                /\ pc[w] = "cancel_write"
  BY DEF FinishRun, PauseRun, CancelRun, EndTarget, At, RunState
<1>2. /\ state = "COMPLETED" => L!Done
      /\ state = "CANCELLED" => L!Settled
  BY <1>0, <1>1, EndsKnown DEF EndTarget, Knows, CancelOK
<1>3. \/ state = runCache[w]
      \/ state \in RunTransitions(runCache[w]) \/ (CanPause(runCache[w]) /\ state = "PAUSED")
  BY <1>1 DEF CanTransitionRun
<1>4. /\ pc[w] \notin InBatch /\ ForgetTasks(w) /\ UNCHANGED <<task, open, finished>>
      /\ \/ Finish(w, "release")
         \/ Goto(w, "apply") /\ UNCHANGED <<todo, outcome>>
  BY DEF FinishRun, PauseRun, CancelRun, At, InBatch, Starting, Committing
<1>5. KnowsNext(w)
  BY <1>0, <1>4, FinishKnows, QuietStep DEF Quiet
<1>6. /\ \E label : Goto(w, label)
      /\ UNCHANGED todo \/ \E S : SetTodo(w, S)
      /\ UNCHANGED outcome \/ \E out : outcome' = [outcome EXCEPT ![w] = out]
  BY <1>4 DEF Finish
<1> QED
  BY <1>1, <1>2, <1>3, <1>4, <1>5, <1>6, RunMoved

\* The run row in a recovery.
LEMMA RecoverRunSafe ==
    ASSUME SafetyInv, TypeOK', NEW w \in Worker, UNCHANGED clientPc,
           MarkRecovering(w) \/ ValidateRepository(w) \/ ResumeRun(w), ~Raise(w)
    PROVE  LifecycleStep /\ SafetyInv'
<1>0. TypeOK /\ Knows(pc[w], todo[w], cache[w], outcome[w], runCache[w])
  BY Known DEF SafetyInv
<1>1. runCache[w] \in RunState /\ UNCHANGED <<task, open, finished, todo, outcome>>
  BY <1>0 DEF TypeOK, MarkRecovering, ValidateRepository, ResumeRun, storeVars
<1>2. pc[w] \notin InBatch /\ outcome'[w] = NoOutcome
  BY <1>0, <1>1 DEF MarkRecovering, ValidateRepository, ResumeRun, At, Knows, BatchOK, InBatch,
     Starting, Committing
<1>3. CASE MarkRecovering(w)
  <2>1. /\ runCache[w] \in {"PAUSED", "RUNNING"} /\ UpdateRun(w, "RECOVERING", TRUE)
        /\ Goto(w, "res_repo") /\ UNCHANGED <<cache, fresh>>
    BY <1>0, <1>3 DEF MarkRecovering, At, Knows, RunCopyOK
  <2>2. pc'[w] = "res_repo" /\ runCache'[w] = "RECOVERING"
    BY <1>0, <2>1 DEF TypeOK, Goto, UpdateRun
  <2>3. KnowsNext(w)
    BY <1>2, <2>2 DEF KnowsNext, Knows, PromotionOK, BatchOK, CancelOK, ResumeOK,
       RunCopyOK, InBatch, Starting, Committing, Recovering
  <2>4. "RECOVERING" \in RunTransitions(runCache[w]) /\ "RECOVERING" \in RunState
    BY <2>1 DEF RunTransitions, RunState
  <2> QED
    BY <1>1, <2>1, <2>3, <2>4, RunMoved
<1>4. CASE ValidateRepository(w)
  <2>1. pc[w] = "res_repo" /\ runCache[w] = "RECOVERING" /\ Goto(w, "res_tasks")
    BY <1>0, <1>4 DEF ValidateRepository, At, Knows, RunCopyOK, Recovering
  <2>2. /\ \/ UNCHANGED <<storeVars, copyVars>>
           \/ UpdateRun(w, runCache[w], TRUE)
        /\ UNCHANGED <<cache, fresh>>
    BY <1>4 DEF ValidateRepository, copyVars
  <2>3. pc'[w] = "res_tasks" /\ runCache'[w] = "RECOVERING"
    BY <1>0, <2>1, <2>2 DEF TypeOK, Goto, UpdateRun, copyVars
  <2>4. KnowsNext(w)
    BY <1>2, <2>3 DEF KnowsNext, Knows, PromotionOK, BatchOK, CancelOK, ResumeOK,
       RunCopyOK, InBatch, Starting, Committing, Recovering
  <2>5. CASE UNCHANGED <<storeVars, copyVars>>
    <3>1. Moves(w)
      BY <1>0, <1>1, <2>1, <2>5, MovesOnly DEF copyVars
    <3> QED
      BY <2>4, <2>5, <3>1, LocalKept, RowsStay, AttemptsStay DEF SafetyInv, storeVars, copyVars
  <2>6. CASE UpdateRun(w, runCache[w], TRUE)
    BY <1>1, <2>1, <2>2, <2>4, <2>6, RunMoved
  <2> QED
    BY <2>2, <2>5, <2>6
<1>5. CASE ResumeRun(w)
  <2>1. /\ runCache[w] = "RECOVERING" /\ UpdateRun(w, "RUNNING", FALSE)
        /\ Goto(w, "reacquire") /\ ForgetTasks(w)
    BY <1>0, <1>5 DEF ResumeRun, At, Knows, RunCopyOK, Recovering
  <2>2. KnowsNext(w)
    BY <1>2, <2>1, QuietStep DEF Quiet
  <2>3. "RUNNING" \in RunTransitions(runCache[w]) /\ "RUNNING" \in RunState
    BY <2>1 DEF RunTransitions, RunState
  <2> QED
    BY <1>1, <2>1, <2>2, <2>3, RunMoved
<1> QED
  BY <1>3, <1>4, <1>5

-----------------------------------------------------------------------------
\* Taking and giving back the lease, applying a request, exceptions and crashes.
LEMMA OperationSafe ==
    ASSUME SafetyInv, TypeOK', NEW w \in Worker, UNCHANGED clientPc,
           AdvanceAcquire(w) \/ ResumeAcquire(w) \/ ReacquireLease(w) \/ ReleaseRun(w)
              \/ ApplyLifecycleRequest(w) \/ Abort(w) \/ Crash(w)
    PROVE  LifecycleStep /\ SafetyInv'
<1>0. TypeOK
  BY DEF SafetyInv
<1>1. CASE Raise(w) \/ Crash(w)
  BY <1>1, RaiseKept
<1>2. CASE ~(Raise(w) \/ Crash(w))
  <2>1. /\ UNCHANGED <<run, task, open, finished>>
        /\ UNCHANGED <<cache, fresh>> \/ ForgetTasks(w)
        /\ UNCHANGED <<runCache, runFresh>> \/ ForgetRun(w)
    BY <1>2 DEF AdvanceAcquire, ResumeAcquire, ReacquireLease, ReleaseRun, ApplyLifecycleRequest,
       Abort, copyVars
  <2>2. \/ Finish(w, "idle") \/ Finish(w, "release")
        \/ /\ Goto(w, "adv_run") \/ Goto(w, "res_read")
           /\ pc[w] \notin InBatch /\ UNCHANGED <<todo, outcome>>
    BY <1>2 DEF AdvanceAcquire, ResumeAcquire, ReacquireLease, ReleaseRun, ApplyLifecycleRequest,
       Abort, At, InBatch, Starting, Committing
  <2>3. KnowsNext(w)
    BY <1>0, <2>2, FinishKnows, QuietStep DEF Quiet
  <2>4. Moves(w)
    BY <1>0, <2>1, <2>2, MovesOnly DEF Finish, ForgetTasks, ForgetRun
  <2>5. LocalInv' /\ AttemptInv'
    BY <2>1, <2>3, <2>4, LocalKept, AttemptsStay DEF SafetyInv
  <2> QED
    BY <2>1, <2>5, RowsStay
<1> QED
  BY <1>1, <1>2

\* The calls of a client: only a pause of a RUNNING run writes a row.
LEMMA ClientSafe ==
    ASSUME SafetyInv, TypeOK', NEW c \in Client, ClientStep(c) \/ ClientFault(c)
    PROVE  LifecycleStep /\ SafetyInv'
<1>0. TypeOK /\ c \in Actor
  BY DEF SafetyInv
<1>1. /\ UNCHANGED <<task, open, finished, cache, fresh, pc, todo, outcome>>
      /\ \E label : ClientGoto(c, label)
      /\ UNCHANGED runCache \/ \E copy : runCache' = [runCache EXCEPT ![c] = copy]
  BY DEF ClientStep, ClientFault, ServiceCall, PauseCall, PauseCreate, PauseMark, CancelCall,
     CancelCreate, ClientCrash, storeVars, copyVars, workerVars, GetRun, ForgetRun, UpdateRun
<1>2. clientPc'[c] = "pause_mark" => runCache'[c] = "RUNNING"
  BY <1>0 DEF ClientStep, ClientFault, ServiceCall, PauseCall, PauseCreate, PauseMark, CancelCall,
     CancelCreate, ClientCrash, ClientGoto, TypeOK
<1>3. LocalInv'
  <2>1. \A w \in Worker : w # c
    BY StoreAssumption
  <2>2. \A w \in Worker : runCache'[w] = runCache[w]
    BY <1>0, <1>1, <2>1 DEF TypeOK
  <2>3. \A b \in Client \ {c} : clientPc'[b] = clientPc[b] /\ runCache'[b] = runCache[b]
    BY <1>0, <1>1 DEF TypeOK, ClientGoto
  <2> QED
    BY <1>1, <1>2, <2>2, <2>3 DEF SafetyInv, LocalInv
<1>4. AttemptInv'
  BY <1>1, AttemptsStay DEF SafetyInv
<1>5. \/ UNCHANGED run /\ (GetRun(c) \/ ForgetRun(c) \/ UNCHANGED <<runCache, runFresh>>)
      \/ UpdateRun(c, "PAUSE_REQUESTED", FALSE) /\ clientPc[c] = "pause_mark"
  BY DEF ClientStep, ClientFault, ServiceCall, PauseCall, PauseCreate, PauseMark, CancelCall,
     CancelCreate, ClientCrash, storeVars, copyVars
<1>6. CASE UNCHANGED run /\ (GetRun(c) \/ ForgetRun(c) \/ UNCHANGED <<runCache, runFresh>>)
  BY <1>0, <1>1, <1>3, <1>4, <1>6, RowsStay
<1>7. CASE UpdateRun(c, "PAUSE_REQUESTED", FALSE) /\ clientPc[c] = "pause_mark"
  <2>1. run = "RUNNING"
    BY <1>7 DEF SafetyInv, LocalInv, RunCopies, UpdateRun
  <2>2. "PAUSE_REQUESTED" \in RunTransitions(run) /\ "PAUSE_REQUESTED" \in RunState
    BY <2>1 DEF RunTransitions, RunState
  <2> QED
    BY <1>0, <1>1, <1>3, <1>7, <2>2, RunWritten
<1> QED
  BY <1>5, <1>6, <1>7

\* Steps that touch nothing but the lease, or nothing.
LEMMA ExpirySafe ==
    ASSUME SafetyInv, TypeOK',
           UNCHANGED <<run, task, open, finished, copyVars, workerVars, clientPc>>
    PROVE  LifecycleStep /\ SafetyInv'
<1>1. LocalInv'
  BY DEF SafetyInv, LocalInv, copyVars, workerVars
<1> QED
  BY <1>1, RowsStay, AttemptsStay DEF SafetyInv, copyVars

-----------------------------------------------------------------------------
LEMMA WorkerSafe ==
    ASSUME SafetyInv, TypeOK', NEW w \in Worker, WorkerStep(w)
    PROVE  LifecycleStep /\ SafetyInv'
<1>0. UNCHANGED clientPc
  BY DEF WorkerStep
<1>1. CASE Raise(w)
  BY <1>0, <1>1, RaiseKept
<1>2. CASE ~Raise(w)
  <2>1. CASE PromoteReady(w) \/ StartTask(w) \/ SkipDependents(w) \/ ResumeTask(w)
               \/ FailAbandonedTask(w) \/ ReadyAbandonedTask(w)
    BY <1>0, <1>2, <2>1, PromoteSafe, StartSafe, SkipSafe, ResumeTaskSafe, FailAbandonedSafe,
       ReadyAbandonedSafe
  <2>2. CASE StartAttempt(w) \/ CommitSuccess(w) \/ CommitFailure(w) \/ CancelTask(w)
               \/ CloseAbandonedAttempts(w)
    BY <1>0, <1>2, <2>2, StartAttemptSafe, CommitSuccessSafe, CommitFailureSafe, CancelTaskSafe,
       CloseAbandonedSafe
  <2>3. CASE ReadRun(w) \/ MarkActive(w) \/ UpdateRunAfterSuccess(w) \/ DisposeFailures(w)
               \/ FinishRun(w) \/ PauseRun(w) \/ CancelRun(w) \/ ReadResumable(w)
               \/ MarkRecovering(w) \/ ValidateRepository(w) \/ ResumeRun(w)
    BY <1>0, <1>2, <2>3, ReadRunSafe, BatchRunSafe, DisposeSafe, EndSafe, RecoverRunSafe
  <2>4. CASE CheckRun(w) \/ CheckPaused(w) \/ CheckRequests(w) \/ Execute(w) \/ RenewFence(w)
               \/ Drained(w) \/ LoadTasks(w) \/ LoadInterrupted(w)
    BY <1>0, <2>4, LocalStepSafe, LoadStepSafe
  <2>5. CASE ReacquireLease(w) \/ ReleaseRun(w) \/ ApplyLifecycleRequest(w)
    BY <1>0, <2>5, OperationSafe
  <2> QED
    BY <2>1, <2>2, <2>3, <2>4, <2>5 DEF WorkerStep, Advance, Resume
<1> QED
  BY <1>1, <1>2

LEMMA NextSafe == SafetyInv /\ [Next]_vars => LifecycleStep /\ SafetyInv'
<1> SUFFICES ASSUME SafetyInv, [Next]_vars PROVE LifecycleStep /\ SafetyInv'
  OBVIOUS
<1>0. TypeOK'
  BY NextType DEF SafetyInv
<1>1. ASSUME NEW w \in Worker, WorkerStep(w) PROVE LifecycleStep /\ SafetyInv'
  BY <1>0, <1>1, WorkerSafe
<1>2. ASSUME NEW w \in Worker, WorkerStart(w) \/ WorkerFault(w) PROVE LifecycleStep /\ SafetyInv'
  BY <1>0, <1>2, OperationSafe DEF WorkerStart, WorkerFault
<1>3. ASSUME NEW c \in Client, ClientStep(c) \/ ClientFault(c) PROVE LifecycleStep /\ SafetyInv'
  BY <1>0, <1>3, ClientSafe
<1>4. CASE (AbandonedLeaseExpires \/ HeldLeaseExpires) /\ UNCHANGED <<workerVars, clientPc>>
  BY <1>0, <1>4, ExpirySafe DEF AbandonedLeaseExpires, HeldLeaseExpires
<1>5. CASE UNCHANGED vars
  BY <1>0, <1>5, ExpirySafe DEF vars, storeVars
<1> QED
  BY <1>1, <1>2, <1>3, <1>4, <1>5 DEF Next, TimelyNext, ReliableNext

LEMMA InitSafe == Init => SafetyInv
<1> SUFFICES ASSUME Init PROVE SafetyInv
  OBVIOUS
<1>1. TypeOK
  BY InitTypeOK
<1>2. LocalInv
  <2>1. \A w \in Worker : pc[w] = "idle" /\ outcome[w] = NoOutcome
    BY DEF Init, WorkerInit
  <2>2. \A w \in Worker : Knows(pc[w], todo[w], cache[w], outcome[w], runCache[w])
    BY <2>1, QuietKnows DEF Quiet
  <2> QED
    BY <2>2 DEF Init, ClientInit, LocalInv
<1>3. task = NoCache /\ \A w \in Worker : cache[w] = NoCache /\ fresh[w] = {}
  BY DEF Init, StoreInit
<1>4. \A t \in Task : NoCache[t] = [state |-> "PENDING", attempt |-> 0]
  BY DEF NoCache
<1>5. TaskCopies /\ CountInv
  BY <1>3, <1>4 DEF TaskCopies, CountInv, Counted
<1>6. RunCopies /\ PromiseInv
  BY <1>3, <1>4 DEF Init, StoreInit, RunCopies, PromiseInv
<1>7. AttemptInv
  BY <1>3, <1>4 DEF Init, StoreInit, AttemptInv, AttemptsAccounted, SucceededOnce
<1> QED
  BY <1>1, <1>2, <1>5, <1>6, <1>7 DEF SafetyInv

-----------------------------------------------------------------------------
\* The inductive invariant.
THEOREM Safe == Spec => []SafetyInv
  BY InitSafe, NextSafe, PTL DEF Spec

\* The rows follow Lifecycle whatever workers, callers, crashes and stale copies do:
\* the check of transition_run and transition_task on a copy and the version in the
\* WHERE clause of update_run and update_task are enough, for every task graph.
THEOREM ImplementsLifecycle == Spec => RowsFollowLifecycle
<1>1. Init => L!Init
  BY DEF Init, StoreInit, L!Init, NoCache
<1>2. SafetyInv /\ [Next]_vars => [L!Next]_<<run, task>>
  BY NextSafe DEF LifecycleStep
<1> QED
  BY <1>1, <1>2, Safe, PTL DEF Spec, L!Spec, RowsFollowLifecycle

\* advance sets a run COMPLETED only when every task row is SUCCEEDED or SKIPPED,
\* although it decides on the list the worker loaded when it started.
THEOREM CompletedIsDone == Spec => []CompletedMeansDone
<1>1. SafetyInv => CompletedMeansDone
  BY DEF SafetyInv, PromiseInv, CompletedMeansDone, L!Done
<1> QED
  BY <1>1, Safe, PTL

\* _cancel sets a run CANCELLED only when every task row is terminal, and none becomes
\* schedulable afterwards.
THEOREM CancelledIsSettled == Spec => []CancelledMeansSettled
<1>1. SafetyInv => CancelledMeansSettled
  BY DEF SafetyInv, PromiseInv, CancelledMeansSettled, L!Settled, L!TaskTerminal, TaskTerminal
<1> QED
  BY <1>1, Safe, PTL

\* _start_batch counts an attempt only for a task whose dependencies have SUCCEEDED in
\* the rows, not just in the list that ready_tasks was given.
THEOREM DependenciesComeFirst == Spec => []DependenciesFirst
<1>1. SafetyInv => DependenciesFirst
  BY DEF SafetyInv, PromiseInv, DependenciesFirst, L!DependenciesSucceeded
<1> QED
  BY <1>1, Safe, PTL

\* update_task_and_finish_attempt records exactly one success for a SUCCEEDED task, that
\* of its last attempt, and none for any other task.
THEOREM OneSuccess == Spec => []SucceededOnce
<1>1. SafetyInv => SucceededOnce
  BY DEF SafetyInv, AttemptInv
<1> QED
  BY <1>1, Safe, PTL

\* start_task_attempt never uses a number twice or one that the task row has not
\* counted, and no attempt is closed in two states.
THEOREM AttemptNumbersAreExact == Spec => []AttemptsAccounted
<1>1. SafetyInv => AttemptsAccounted
  BY DEF SafetyInv, AttemptInv
<1> QED
  BY <1>1, Safe, PTL

-----------------------------------------------------------------------------
\* As long as no worker outlives its lease (TimelySpec), the worker that is not idle holds
\* the lease, so nobody else writes a task row and its records agree with the rows.

Exclusive == \A w \in Worker : pc[w] # "idle" => Leased(w)

\* The labels at which a worker holds the task list it has loaded.
Loaded ==
    (AdvanceLoop \ {"apply"}) \cup {"res_task", "res_close", "res_fail", "res_ready", "res_run"}

Current == \A w \in Worker : pc[w] \in Loaded => fresh[w] = Task

\* A recovery has closed the attempts of the task it is about to fail.
Closed ==
    \A w \in Worker : pc[w] = "res_fail" =>
        \A t \in todo[w] : FirstById(todo[w], t) => OpenAttempts(t) = {}

\* The labels that advance reaches only in a run that is RUNNING or about to be paused.
Advancing ==
    AdvanceLoop \ {"loop", "cancel", "cancel_read", "cancel_write", "apply"}

CancelPending == \E i \in PendingRequests : Pending(i, "cancel")

\* A paused run is entered only to be cancelled, and the request waits until then.
Entered ==
    \A w \in Worker :
        /\ pc[w] \in Advancing => run \in {"RUNNING", "PAUSE_REQUESTED"}
        /\ pc[w] = "adv_paused" => run = "PAUSED"
        /\ pc[w] \in {"adv_load", "loop"} =>
              run \in {"RUNNING", "PAUSE_REQUESTED"} \/ (run = "PAUSED" /\ CancelPending)

TimelyInv == Exclusive /\ Current /\ Closed /\ OpenAttemptIsCurrent /\ Entered

LEMMA OneWorker ==
    ASSUME Exclusive, NEW w \in Worker, pc[w] # "idle", NEW v \in Worker \ {w}
    PROVE  pc[v] = "idle"
  BY DEF Exclusive, Leased

\* What a step of the working worker does to its place, the lease and its records.
EnteredAt(label, state, pending) ==
    /\ label \in Advancing => state \in {"RUNNING", "PAUSE_REQUESTED"}
    /\ label = "adv_paused" => state = "PAUSED"
    /\ label \in {"adv_load", "loop"} =>
          state \in {"RUNNING", "PAUSE_REQUESTED"} \/ (state = "PAUSED" /\ pending)

Proceeds(w) ==
    /\ pc[w] # "idle"
    /\ UNCHANGED pc \/ \E label : Goto(w, label)
    /\ UNCHANGED lease \/ pc'[w] = "idle" \/ Leased(w)'
    /\ pc'[w] \in Loaded => fresh'[w] = Task
    /\ EnteredAt(pc'[w], run', CancelPending')
    /\ pc'[w] = "res_fail" => CloseAbandonedAttempts(w)

\* A worker that goes on with its list, in the run it has entered.
LEMMA GoesOn ==
    ASSUME SafetyInv, TimelyInv, NEW w \in Worker, NEW label, Goto(w, label),
           pc[w] \in Advancing \cup {"cancel", "cancel_read", "cancel_write"},
           label \in AdvanceLoop \ {"apply"},
           pc[w] \in Advancing \/ label \in {"cancel", "cancel_read", "cancel_write"},
           fresh'[w] = fresh[w], UNCHANGED <<run, lease>>
    PROVE  Proceeds(w)
<1>1. pc'[w] = label
  BY DEF SafetyInv, TypeOK, Goto
<1>2. pc[w] # "idle" /\ fresh'[w] = Task
  BY DEF TimelyInv, Current, Loaded, Advancing, AdvanceLoop
<1>3. pc[w] \in Advancing => run \in {"RUNNING", "PAUSE_REQUESTED"}
  BY DEF TimelyInv, Entered
<1>4. EnteredAt(label, run, CancelPending')
  BY <1>3 DEF EnteredAt, Advancing, AdvanceLoop
<1>5. label # "res_fail"
  BY DEF AdvanceLoop
<1> QED
  BY <1>1, <1>2, <1>4, <1>5 DEF Proceeds

\* A worker at a label that advance enters later or has left.
Outside == {"idle", "release", "adv_run", "apply"} \cup ResumeSteps

LEMMA Leaves ==
    ASSUME SafetyInv, NEW w \in Worker, NEW label \in Outside, Goto(w, label), pc[w] # "idle",
           label \notin Loaded \/ fresh'[w] = Task,
           label # "res_fail" \/ CloseAbandonedAttempts(w),
           UNCHANGED lease \/ label = "idle" \/ Leased(w)'
    PROVE  Proceeds(w)
<1>1. pc'[w] = label
  BY DEF SafetyInv, TypeOK, Goto
<1>2. EnteredAt(label, run', CancelPending')
  BY DEF EnteredAt, Outside, Advancing, AdvanceLoop, ResumeSteps
<1> QED
  BY <1>1, <1>2 DEF Proceeds

LEMMA RaiseProceeds ==
    ASSUME SafetyInv, NEW w \in Worker, pc[w] # "idle", Raise(w) \/ Crash(w)
    PROVE  Proceeds(w)
<1>1. PICK label \in {"idle", "release"} : Goto(w, label)
  BY DEF Raise, Crash, Finish
<1>2. label \notin Loaded /\ label \in Outside /\ UNCHANGED lease
  BY DEF Loaded, AdvanceLoop, Outside, Raise, Crash, storeVars
<1> QED
  BY <1>1, <1>2, Leaves

\* advance up to the loop, and the choice at its top.
LEMMA EntryProceeds ==
    ASSUME SafetyInv, TimelyInv, NEW w \in Worker,
           CheckRun(w) \/ CheckPaused(w) \/ LoadTasks(w) \/ CheckRequests(w)
    PROVE  Proceeds(w)
<1>0. pc \in [Worker -> Label] /\ fresh \in [Worker -> SUBSET Task]
  BY DEF SafetyInv, TypeOK
<1>1. CASE CheckRun(w)
  <2>1. pc[w] = "adv_run" /\ UNCHANGED <<run, lease, requests>>
    BY <1>1 DEF CheckRun, At, storeVars
  <2>2. \/ run \in {"RUNNING", "PAUSE_REQUESTED"} /\ Goto(w, "adv_load")
        \/ run = "PAUSED" /\ Goto(w, "adv_paused")
        \/ Goto(w, "release")
    BY <1>1 DEF CheckRun
  <2>3. \/ run \in {"RUNNING", "PAUSE_REQUESTED"} /\ pc'[w] = "adv_load"
        \/ run = "PAUSED" /\ pc'[w] = "adv_paused"
        \/ pc'[w] = "release"
    BY <1>0, <2>2 DEF Goto
  <2> QED
    BY <2>1, <2>2, <2>3 DEF Proceeds, EnteredAt, Loaded, Advancing, AdvanceLoop
<1>2. CASE CheckPaused(w)
  <2>1. pc[w] = "adv_paused" /\ UNCHANGED <<run, lease, requests>>
    BY <1>2 DEF CheckPaused, At, storeVars
  <2>2. \/ CancelPending /\ Goto(w, "adv_load")
        \/ Goto(w, "release")
    BY <1>2 DEF CheckPaused, CancelPending
  <2>3. \/ CancelPending /\ pc'[w] = "adv_load"
        \/ pc'[w] = "release"
    BY <1>0, <2>2 DEF Goto
  <2>4. run = "PAUSED" /\ CancelPending' = CancelPending
    BY <2>1 DEF TimelyInv, Entered, CancelPending, PendingRequests, Pending
  <2> QED
    BY <2>1, <2>2, <2>3, <2>4 DEF Proceeds, EnteredAt, Loaded, Advancing, AdvanceLoop
<1>3. CASE LoadTasks(w)
  <2>1. pc[w] = "adv_load" /\ UNCHANGED <<run, lease, requests>>
    BY <1>3 DEF LoadTasks, At, storeVars
  <2>2. \/ fresh' = [fresh EXCEPT ![w] = Task] /\ Goto(w, "loop")
        \/ Goto(w, "idle")
    BY <1>3 DEF LoadTasks, GetTasks, Finish
  <2>3. \/ fresh'[w] = Task /\ pc'[w] = "loop"
        \/ pc'[w] = "idle"
    BY <1>0, <2>2 DEF Goto
  <2>4. /\ run \in {"RUNNING", "PAUSE_REQUESTED"} \/ (run = "PAUSED" /\ CancelPending)
        /\ CancelPending' = CancelPending
    BY <2>1 DEF TimelyInv, Entered, CancelPending, PendingRequests, Pending
  <2> QED
    BY <2>1, <2>2, <2>3, <2>4 DEF Proceeds, EnteredAt, Loaded, Advancing, AdvanceLoop
<1>4. CASE CheckRequests(w)
  <2>1. pc[w] = "loop" /\ UNCHANGED <<run, lease, requests, fresh>>
    BY <1>4 DEF CheckRequests, At, storeVars, copyVars
  <2>2. /\ run \in {"RUNNING", "PAUSE_REQUESTED"} \/ (run = "PAUSED" /\ CancelPending)
        /\ fresh'[w] = Task
    BY <2>1 DEF TimelyInv, Entered, Current, Loaded, AdvanceLoop
  <2>3. PICK label \in {"pause_read", "cancel_read", "cancel", "release", "drained", "promote"} :
            /\ Goto(w, label)
            /\ label \in {"pause_read", "drained", "promote"} => ~CancelPending
    <3>1. CASE \E i \in DOMAIN requests :
                  /\ IsNextRequest(i)
                  /\ IF requests[i].kind = "pause"
                     THEN Goto(w, "pause_read")
                     ELSE Goto(w, IF Unfinished(w) = {} THEN "cancel_read" ELSE "cancel")
      BY <3>1 DEF IsNextRequest, CancelPending, Pending
    <3>2. CASE /\ PendingRequests = {}
               /\ IF budget[w] = 0 THEN Goto(w, "release")
                  ELSE Goto(w, IF ReadyTasks(cache[w]) = {} THEN "drained" ELSE "promote")
      BY <3>2 DEF CancelPending
    <3> QED
      BY <1>4, <3>1, <3>2 DEF CheckRequests
  <2>4. pc'[w] = label
    BY <1>0, <2>3 DEF Goto
  <2> QED
    BY <2>1, <2>2, <2>3, <2>4 DEF Proceeds, EnteredAt, Loaded, Advancing, AdvanceLoop
<1> QED
  BY <1>1, <1>2, <1>3, <1>4

LEMMA KeepsFresh ==
    ASSUME TypeOK, NEW w \in Worker,
           UNCHANGED fresh \/ \E t, row : UpdateTask(w, t, row)
    PROVE  fresh'[w] = fresh[w]
  BY DEF TypeOK, UpdateTask

\* The batch, from its promotion to its commits, and a cancellation.
LEMMA BatchProceeds ==
    ASSUME SafetyInv, TimelyInv, NEW w \in Worker, ~Raise(w),
           PromoteReady(w) \/ StartTask(w) \/ StartAttempt(w) \/ Execute(w) \/ RenewFence(w)
              \/ CommitSuccess(w) \/ CommitFailure(w) \/ SkipDependents(w) \/ CancelTask(w)
    PROVE  Proceeds(w)
<1>0. TypeOK /\ pc \in [Worker -> Label]
  BY DEF SafetyInv, TypeOK
<1>1. UNCHANGED <<run, lease>>
  BY DEF PromoteReady, StartTask, StartAttempt, Execute, RenewFence, CommitSuccess, CommitFailure,
     SkipDependents, CancelTask, storeVars
<1>2. UNCHANGED fresh \/ \E t, row : UpdateTask(w, t, row)
  BY DEF PromoteReady, StartTask, StartAttempt, Execute, RenewFence, CommitSuccess, CommitFailure,
     SkipDependents, CancelTask, copyVars, UpdateTaskAndFinishAttempt, CancelTaskAndOpenAttempts
<1>3. /\ pc[w] \in {"promote", "start", "attempt", "execute", "renew", "commit", "fail", "skip",
                    "cancel"}
      /\ \/ UNCHANGED pc
         \/ \E label \in {"start", "attempt", "mark_read", "renew", "commit", "fail", "commit_read",
                          "skip", "fail_read"} : pc[w] # "cancel" /\ Goto(w, label)
         \/ \E label \in {"cancel", "cancel_read"} : Goto(w, label)
  BY DEF PromoteReady, StartTask, StartAttempt, Execute, RenewFence, CommitSuccess, CommitFailure,
     SkipDependents, CancelTask, At
<1>4. PICK label \in AdvanceLoop \ {"apply"} :
          /\ Goto(w, label)
          /\ pc[w] \in Advancing \/ label \in {"cancel", "cancel_read", "cancel_write"}
  <2>1. CASE UNCHANGED pc
    <3>1. Goto(w, pc[w])
      BY <1>0, <2>1 DEF Goto
    <3> QED
      BY <1>3, <3>1 DEF Advancing, AdvanceLoop
  <2> QED
    BY <1>3, <2>1 DEF Advancing, AdvanceLoop
<1>5. pc[w] \in Advancing \cup {"cancel", "cancel_read", "cancel_write"}
  BY <1>3 DEF Advancing, AdvanceLoop
<1> QED
  BY <1>0, <1>1, <1>2, <1>4, <1>5, KeepsFresh, GoesOn

\* The run row: read, written with the state it has, or moved.
LEMMA RunProceeds ==
    ASSUME SafetyInv, TimelyInv, NEW w \in Worker, ~Raise(w),
           ReadRun(w) \/ MarkActive(w) \/ UpdateRunAfterSuccess(w) \/ DisposeFailures(w)
              \/ Drained(w) \/ FinishRun(w) \/ PauseRun(w) \/ CancelRun(w)
    PROVE  Proceeds(w)
<1>0. TypeOK /\ pc \in [Worker -> Label]
  BY DEF SafetyInv, TypeOK
<1>1. UNCHANGED lease
  BY DEF ReadRun, MarkActive, UpdateRunAfterSuccess, DisposeFailures, Drained, FinishRun, PauseRun,
     CancelRun, storeVars
<1>2. CASE FinishRun(w) \/ PauseRun(w) \/ CancelRun(w) \/ (DisposeFailures(w) /\ Finish(w, "release"))
  <2>1. pc[w] # "idle" /\ (Goto(w, "release") \/ Goto(w, "apply"))
    BY <1>2 DEF FinishRun, PauseRun, CancelRun, DisposeFailures, Finish, At
  <2> QED
    BY <1>1, <2>1, Leaves DEF Outside, Loaded, AdvanceLoop
<1>3. CASE \/ ReadRun(w) \/ MarkActive(w) \/ UpdateRunAfterSuccess(w) \/ Drained(w)
           \/ DisposeFailures(w) /\ ~Finish(w, "release")
  <2>1. UNCHANGED fresh
    BY <1>3 DEF ReadRun, MarkActive, UpdateRunAfterSuccess, DisposeFailures, Drained, copyVars
  <2>2. run' = run
    <3>1. CASE ReadRun(w) \/ Drained(w)
      BY <3>1 DEF ReadRun, Drained, storeVars
    <3>2. CASE ~(ReadRun(w) \/ Drained(w))
      <4>1. UpdateRun(w, runCache[w], FALSE)
        BY <1>3, <3>2 DEF MarkActive, UpdateRunAfterSuccess, DisposeFailures
      <4> QED
        BY <4>1 DEF UpdateRun, SafetyInv, RunCopies
    <3> QED
      BY <3>1, <3>2
  <2>3. PICK step \in {<<"mark_read", "mark_write">>, <<"commit_read", "commit_write">>,
                       <<"fail_read", "fail_write">>, <<"end_read", "end_write">>,
                       <<"pause_read", "pause_write">>, <<"cancel_read", "cancel_write">>,
                       <<"mark_write", "execute">>, <<"commit_write", "commit">>,
                       <<"commit_write", "fail">>, <<"commit_write", "loop">>,
                       <<"fail_write", "loop">>, <<"drained", "loop">>,
                       <<"drained", "end_read">>} :
            pc[w] = step[1] /\ Goto(w, step[2])
    <3>1. CASE ReadRun(w)
      BY <3>1 DEF ReadRun, At
    <3>2. CASE MarkActive(w)
      BY <3>2 DEF MarkActive, At
    <3>3. CASE UpdateRunAfterSuccess(w)
      BY <3>3 DEF UpdateRunAfterSuccess, At
    <3>4. CASE Drained(w)
      BY <3>4 DEF Drained, At
    <3>5. CASE DisposeFailures(w) /\ ~Finish(w, "release")
      BY <3>5 DEF DisposeFailures, At
    <3> QED
      BY <1>3, <3>1, <3>2, <3>3, <3>4, <3>5
  <2>4. /\ pc[w] \in Advancing \cup {"cancel", "cancel_read", "cancel_write"}
        /\ step[2] \in AdvanceLoop \ {"apply"}
        /\ pc[w] \in Advancing \/ step[2] \in {"cancel", "cancel_read", "cancel_write"}
    BY <2>3 DEF Advancing, AdvanceLoop
  <2> QED
    BY <1>0, <1>1, <2>1, <2>2, <2>3, <2>4, KeepsFresh, GoesOn
<1> QED
  BY <1>2, <1>3

\* A recovery, and the ends of an operation.
LEMMA RecoveryProceeds ==
    ASSUME SafetyInv, TimelyInv, NEW w \in Worker, ~Raise(w),
           Resume(w) \/ ApplyLifecycleRequest(w) \/ ReleaseRun(w)
    PROVE  Proceeds(w)
<1>0. TypeOK /\ pc \in [Worker -> Label] /\ fresh \in [Worker -> SUBSET Task]
  BY DEF SafetyInv, TypeOK
<1>1. CASE \/ ResumeTask(w) \/ CloseAbandonedAttempts(w) \/ FailAbandonedTask(w)
           \/ ReadyAbandonedTask(w)
  <2>1. UNCHANGED lease /\ (UNCHANGED fresh \/ \E t, row : UpdateTask(w, t, row))
    BY <1>1 DEF ResumeTask, CloseAbandonedAttempts, FailAbandonedTask, ReadyAbandonedTask, storeVars,
       copyVars
  <2>2. /\ pc[w] \in {"res_task", "res_close", "res_fail", "res_ready"}
        /\ \E label \in ResumeSteps :
              Goto(w, label) /\ (label # "res_fail" \/ CloseAbandonedAttempts(w))
    BY <1>1 DEF ResumeTask, CloseAbandonedAttempts, FailAbandonedTask, ReadyAbandonedTask, At,
       NextInterrupted, ResumeSteps
  <2>3. fresh'[w] = Task /\ pc[w] # "idle"
    BY <1>0, <2>1, <2>2, KeepsFresh DEF TimelyInv, Current, Loaded
  <2> QED
    BY <2>1, <2>2, <2>3, Leaves DEF Outside
<1>2. CASE LoadInterrupted(w)
  <2>1. /\ pc[w] = "res_tasks" /\ UNCHANGED lease /\ fresh' = [fresh EXCEPT ![w] = Task]
        /\ \E label \in ResumeSteps \ {"res_fail"} : Goto(w, label)
    BY <1>2 DEF LoadInterrupted, At, GetTasks, storeVars, ResumeSteps
  <2> QED
    BY <1>0, <2>1, Leaves DEF Outside
<1>3. CASE \/ ReadResumable(w) \/ MarkRecovering(w) \/ ValidateRepository(w) \/ ResumeRun(w)
           \/ ApplyLifecycleRequest(w) \/ ReleaseRun(w)
  <2>1. /\ pc[w] # "idle"
        /\ \/ UNCHANGED lease /\ \E label \in {"res_mark", "res_repo", "res_tasks", "reacquire",
                                               "release"} : Goto(w, label)
           \/ Goto(w, "idle")
    BY <1>3 DEF ReadResumable, MarkRecovering, ValidateRepository, ResumeRun, ApplyLifecycleRequest,
       ReleaseRun, At, Finish, storeVars
  <2> QED
    BY <2>1, Leaves DEF Outside, ResumeSteps, Loaded, AdvanceLoop
<1>4. CASE ReacquireLease(w)
  <2>1. /\ pc[w] # "idle"
        /\ \/ AcquireLease(w) /\ Goto(w, "adv_run")
           \/ UNCHANGED lease /\ Goto(w, "idle")
    BY <1>4 DEF ReacquireLease, At, Finish
  <2>2. AcquireLease(w) => Leased(w)'
    BY DEF AcquireLease, Leased
  <2> QED
    BY <2>1, <2>2, Leaves DEF Outside, Loaded, AdvanceLoop
<1> QED
  BY <1>1, <1>2, <1>3, <1>4 DEF Resume

LEMMA StepProceeds ==
    ASSUME SafetyInv, TimelyInv, NEW w \in Worker, WorkerStep(w) \/ WorkerFault(w)
    PROVE  Proceeds(w)
<1>1. pc[w] # "idle"
  <2>1. CASE ReadRun(w)
    BY <2>1 DEF ReadRun, At
  <2>2. CASE CheckRun(w) \/ CheckPaused(w) \/ LoadTasks(w) \/ CheckRequests(w) \/ PromoteReady(w)
               \/ StartTask(w) \/ StartAttempt(w) \/ MarkActive(w) \/ Execute(w) \/ RenewFence(w)
               \/ CommitSuccess(w) \/ UpdateRunAfterSuccess(w)
    BY <2>2 DEF At, CheckRun, CheckPaused, LoadTasks, CheckRequests, PromoteReady, StartTask,
       StartAttempt, MarkActive, Execute, RenewFence, CommitSuccess, UpdateRunAfterSuccess
  <2>3. CASE CommitFailure(w) \/ SkipDependents(w) \/ DisposeFailures(w) \/ Drained(w)
               \/ FinishRun(w) \/ PauseRun(w) \/ CancelTask(w) \/ CancelRun(w)
               \/ ApplyLifecycleRequest(w) \/ ReleaseRun(w)
    BY <2>3 DEF At, CommitFailure, SkipDependents, DisposeFailures, Drained, FinishRun, PauseRun,
       CancelTask, CancelRun, ApplyLifecycleRequest, ReleaseRun
  <2>4. CASE Resume(w)
    BY <2>4 DEF Resume, At, ReadResumable, MarkRecovering, ValidateRepository, LoadInterrupted,
       ResumeTask, CloseAbandonedAttempts, FailAbandonedTask, ReadyAbandonedTask, ResumeRun,
       ReacquireLease
  <2>5. CASE Abort(w) \/ Crash(w)
    BY <2>5 DEF Abort, Crash, AdvanceLoop, ResumeSteps
  <2> QED
    BY <2>1, <2>2, <2>3, <2>4, <2>5 DEF WorkerStep, WorkerFault, Advance
<1>2. CASE Raise(w) \/ Crash(w)
  BY <1>1, <1>2, RaiseProceeds
<1>3. CASE ~(Raise(w) \/ Crash(w))
  BY <1>3, EntryProceeds, BatchProceeds, RunProceeds, RecoveryProceeds
  DEF WorkerStep, WorkerFault, Abort, Advance
<1> QED
  BY <1>2, <1>3

-----------------------------------------------------------------------------
\* What a step does to the open attempts.

LEMMA NoneOpen ==
    ASSUME OpenAttemptIsCurrent, NEW t, task[t].state # "RUNNING"
    PROVE  OpenAttempts(t) = {}
  BY DEF OpenAttemptIsCurrent, OpenAttempts

\* The row of a task is written when its attempts are closed.
LEMMA RowTaken ==
    ASSUME TypeOK, OpenAttemptIsCurrent, NEW t \in Task, NEW row,
           task' = [task EXCEPT ![t] = row], open' \subseteq open \ OpenAttempts(t)
    PROVE  OpenAttemptIsCurrent'
<1>1. \A a \in open' : a[1] \in Task /\ a[1] # t
  BY DEF TypeOK, OpenAttempts
<1>2. \A u \in Task \ {t} : task'[u] = task[u]
  BY DEF TypeOK
<1> QED
  BY <1>1, <1>2 DEF OpenAttemptIsCurrent

\* The only open attempt of a task is its latest.
LEMMA OnlyOpen ==
    ASSUME SafetyInv, OpenAttemptIsCurrent, NEW t \in Task, <<t, task[t].attempt>> \in open
    PROVE  OpenAttempts(t) = {<<t, task[t].attempt>>}
<1>1. \A a \in open : a = <<a[1], a[2]>>
  <2>1. open \subseteq Task \X Nat
    BY DEF SafetyInv, TypeOK
  <2>2. \A a \in Task \X Nat : a = <<a[1], a[2]>>
    OBVIOUS
  <2> QED
    BY <2>1, <2>2
<1>2. \A a \in open : a[1] = t => a[2] = task[t].attempt
  BY DEF OpenAttemptIsCurrent
<1> QED
  BY <1>1, <1>2 DEF OpenAttempts

LEMMA RowStepCurrent ==
    ASSUME SafetyInv, TimelyInv, NEW w \in Worker, ~Raise(w),
           PromoteReady(w) \/ StartTask(w) \/ SkipDependents(w) \/ ResumeTask(w)
              \/ FailAbandonedTask(w) \/ ReadyAbandonedTask(w)
    PROVE  OpenAttemptIsCurrent'
<1>0. TypeOK /\ Knows(pc[w], todo[w], cache[w], outcome[w], runCache[w]) /\ OpenAttemptIsCurrent
  BY Known DEF SafetyInv, TimelyInv
<1>1. ASSUME NEW t \in Task, NEW row, UpdateTask(w, t, row), UNCHANGED open,
             cache[w][t].state # "RUNNING" \/ OpenAttempts(t) = {}
      PROVE  OpenAttemptIsCurrent'
  <2>1. cache[w][t] = task[t] /\ task' = [task EXCEPT ![t] = row]
    BY <1>1, FreshRow DEF UpdateTask
  <2>2. OpenAttempts(t) = {}
    BY <1>0, <1>1, <2>1, NoneOpen
  <2> QED
    BY <1>0, <1>1, <2>1, <2>2, RowTaken
<1>2. todo[w] \in SUBSET Task
  BY <1>0 DEF TypeOK
<1>3. CASE PromoteReady(w)
  <2>1. PICK t \in todo[w] : UpdateTask(w, t, Moved(w, t, "READY")) /\ UNCHANGED open
    BY <1>3 DEF PromoteReady
  <2>2. cache[w][t].state # "RUNNING"
    BY <1>0, <1>3, <2>1 DEF PromoteReady, At, Knows, PromotionOK, ReadyTasks
  <2> QED
    BY <1>1, <1>2, <2>1, <2>2
<1>4. CASE StartTask(w)
  <2>1. PICK t \in todo[w] :
            /\ UpdateTask(w, t, [state |-> "RUNNING", attempt |-> cache[w][t].attempt + 1])
            /\ UNCHANGED open
    BY <1>4 DEF StartTask
  <2>2. cache[w][t].state # "RUNNING"
    BY <1>0, <1>4, <2>1 DEF StartTask, At, Knows, PromotionOK, Startable
  <2> QED
    BY <1>1, <1>2, <2>1, <2>2
<1>5. CASE SkipDependents(w)
  <2>1. PICK t \in todo[w] : UpdateTask(w, t, Moved(w, t, "SKIPPED")) /\ UNCHANGED open
    BY <1>5 DEF SkipDependents
  <2>2. cache[w][t].state # "RUNNING"
    BY <1>0, <1>5, <2>1 DEF SkipDependents, At, Knows, BatchOK
  <2> QED
    BY <1>1, <1>2, <2>1, <2>2
<1>6. CASE ResumeTask(w)
  <2>1. CASE UNCHANGED <<storeVars, copyVars>>
    BY <1>0, <2>1 DEF OpenAttemptIsCurrent, storeVars
  <2>2. CASE ~UNCHANGED <<storeVars, copyVars>>
    <3>1. PICK t \in todo[w] : /\ UpdateTask(w, t, Moved(w, t, "READY")) /\ UNCHANGED open
                               /\ cache[w][t].state # "RUNNING"
      BY <1>6, <2>2 DEF ResumeTask
    <3> QED
      BY <1>1, <1>2, <3>1
  <2> QED
    BY <2>1, <2>2
<1>7. CASE FailAbandonedTask(w)
  <2>1. PICK t \in todo[w] : /\ FirstById(todo[w], t) /\ UNCHANGED open
                             /\ UpdateTask(w, t, Moved(w, t, AbandonTarget(w, t)))
    BY <1>7 DEF FailAbandonedTask
  <2>2. OpenAttempts(t) = {}
    BY <1>7, <2>1 DEF FailAbandonedTask, At, TimelyInv, Closed
  <2> QED
    BY <1>1, <1>2, <2>1, <2>2
<1>8. CASE ReadyAbandonedTask(w)
  <2>1. PICK t \in todo[w] : /\ FirstById(todo[w], t) /\ UNCHANGED open
                             /\ UpdateTask(w, t, Moved(w, t, "READY"))
    BY <1>8 DEF ReadyAbandonedTask
  <2>2. FirstIs(todo[w], cache[w], "FAILED_RETRYABLE")
    BY <1>0, <1>8 DEF ReadyAbandonedTask, At, Knows, ResumeOK
  <2>3. cache[w][t].state # "RUNNING"
    BY <1>2, <2>1, <2>2, FirstIsUnique DEF FirstIs
  <2> QED
    BY <1>1, <1>2, <2>1, <2>3
<1> QED
  BY <1>3, <1>4, <1>5, <1>6, <1>7, <1>8

LEMMA AttemptStepCurrent ==
    ASSUME SafetyInv, TimelyInv, NEW w \in Worker, ~Raise(w),
           StartAttempt(w) \/ CommitSuccess(w) \/ CommitFailure(w) \/ CancelTask(w)
              \/ CloseAbandonedAttempts(w)
    PROVE  OpenAttemptIsCurrent'
<1>0. TypeOK /\ Knows(pc[w], todo[w], cache[w], outcome[w], runCache[w]) /\ OpenAttemptIsCurrent
  BY Known DEF SafetyInv, TimelyInv
<1>1. todo[w] \in SUBSET Task
  BY <1>0 DEF TypeOK
<1>2. CASE StartAttempt(w)
  <2>1. PICK t \in todo[w] :
            /\ FirstByPriority(todo[w], t)
            /\ open' = open \cup {<<t, cache[w][t].attempt>>} /\ UNCHANGED task
    BY <1>2 DEF StartAttempt, StartTaskAttempt
  <2>2. pc[w] = "attempt" /\ cache[w][t].state = "RUNNING"
    BY <1>0, <1>1, <1>2, <2>1, FirstIsUnique DEF StartAttempt, At, Knows, PromotionOK
  <2>3. cache[w][t] = task[t]
    <3>1. t \in fresh[w]
      BY <1>1, <2>2 DEF TimelyInv, Current, Loaded, AdvanceLoop
    <3> QED
      BY <3>1, FreshRow
  <2> QED
    BY <1>0, <2>1, <2>2, <2>3 DEF OpenAttemptIsCurrent
<1>3. CASE CommitSuccess(w) \/ CommitFailure(w)
  <2>1. PICK t \in todo[w] : \E state : UpdateTaskAndFinishAttempt(w, t, state)
    BY <1>3 DEF CommitSuccess, CommitFailure
  <2>2. /\ <<t, cache[w][t].attempt>> \in open /\ t \in fresh[w]
        /\ \E row : task' = [task EXCEPT ![t] = row]
        /\ open' = open \ {<<t, cache[w][t].attempt>>}
    BY <2>1 DEF UpdateTaskAndFinishAttempt, UpdateTask, CloseAttempts
  <2>3. t \in Task /\ cache[w][t] = task[t]
    BY <2>2, FreshRow
  <2>4. OpenAttempts(t) = {<<t, cache[w][t].attempt>>}
    BY <1>0, <2>2, <2>3, OnlyOpen
  <2> QED
    BY <1>0, <2>2, <2>3, <2>4, RowTaken
<1>4. CASE CancelTask(w)
  <2>1. PICK t \in todo[w] : CancelTaskAndOpenAttempts(w, t)
    BY <1>4 DEF CancelTask
  <2>2. (\E row : task' = [task EXCEPT ![t] = row]) /\ open' = open \ OpenAttempts(t)
    BY <2>1 DEF CancelTaskAndOpenAttempts, UpdateTask, CloseAttempts
  <2> QED
    BY <1>0, <1>1, <2>2, RowTaken
<1>5. CASE CloseAbandonedAttempts(w)
  <2>1. open' \subseteq open /\ UNCHANGED task
    BY <1>5 DEF CloseAbandonedAttempts, CloseAttempts
  <2> QED
    BY <1>0, <2>1 DEF OpenAttemptIsCurrent
<1> QED
  BY <1>2, <1>3, <1>4, <1>5

LEMMA WorkerCurrent ==
    ASSUME SafetyInv, TimelyInv, NEW w \in Worker, WorkerStep(w) \/ WorkerFault(w)
    PROVE  OpenAttemptIsCurrent'
<1>1. CASE UNCHANGED <<task, open>>
  BY <1>1 DEF TimelyInv, OpenAttemptIsCurrent
<1>2. CASE Raise(w) \/ Crash(w)
  BY <1>1, <1>2 DEF Raise, Crash, storeVars
<1>3. CASE /\ ~Raise(w)
           /\ \/ PromoteReady(w) \/ StartTask(w) \/ SkipDependents(w) \/ ResumeTask(w)
              \/ FailAbandonedTask(w) \/ ReadyAbandonedTask(w)
  BY <1>3, RowStepCurrent
<1>4. CASE /\ ~Raise(w)
           /\ \/ StartAttempt(w) \/ CommitSuccess(w) \/ CommitFailure(w) \/ CancelTask(w)
              \/ CloseAbandonedAttempts(w)
  BY <1>4, AttemptStepCurrent
<1>5. CASE /\ ~Raise(w)
           /\ \/ ReadRun(w) \/ MarkActive(w) \/ UpdateRunAfterSuccess(w) \/ DisposeFailures(w)
              \/ FinishRun(w) \/ PauseRun(w) \/ CancelRun(w) \/ ReadResumable(w)
              \/ MarkRecovering(w) \/ ValidateRepository(w) \/ ResumeRun(w)
  <2>1. UNCHANGED <<task, open>>
    BY <1>5 DEF ReadRun, MarkActive, UpdateRunAfterSuccess, DisposeFailures, FinishRun, PauseRun,
       CancelRun, ReadResumable, MarkRecovering, ValidateRepository, ResumeRun, storeVars
  <2> QED
    BY <1>1, <2>1
<1>6. CASE /\ ~Raise(w)
           /\ \/ CheckRun(w) \/ CheckPaused(w) \/ CheckRequests(w) \/ Execute(w) \/ RenewFence(w)
              \/ Drained(w) \/ LoadTasks(w) \/ LoadInterrupted(w) \/ ReacquireLease(w)
              \/ ReleaseRun(w) \/ ApplyLifecycleRequest(w)
  <2>1. UNCHANGED <<task, open>>
    BY <1>6 DEF CheckRun, CheckPaused, CheckRequests, Execute, RenewFence, Drained, LoadTasks,
       LoadInterrupted, ReacquireLease, ReleaseRun, ApplyLifecycleRequest, storeVars
  <2> QED
    BY <1>1, <2>1
<1> QED
  BY <1>2, <1>3, <1>4, <1>5, <1>6 DEF WorkerStep, WorkerFault, Abort, Advance, Resume

-----------------------------------------------------------------------------
LEMMA WorkerTimely ==
    ASSUME SafetyInv, TimelyInv, NEW w \in Worker, WorkerStep(w) \/ WorkerFault(w)
    PROVE  TimelyInv'
<1>0. pc \in [Worker -> Label] /\ todo[w] \in SUBSET Task
  BY DEF SafetyInv, TypeOK
<1>1. Proceeds(w)
  BY StepProceeds
<1>2. ASSUME NEW v \in Worker \ {w} PROVE pc'[v] = "idle"
  <2>1. pc[v] = "idle"
    BY <1>1, OneWorker DEF Proceeds, TimelyInv
  <2> QED
    BY <1>0, <1>1, <2>1 DEF Proceeds, Goto
<1>3. Exclusive'
  <2>1. Leased(w)
    BY <1>1 DEF Proceeds, TimelyInv, Exclusive
  <2>2. pc'[w] # "idle" => Leased(w)'
    BY <1>1, <2>1 DEF Proceeds, Leased
  <2> QED
    BY <1>2, <2>2 DEF Exclusive
<1>4. "idle" \notin Loaded \cup Advancing
  BY DEF Loaded, Advancing, AdvanceLoop
<1>5. Current'
  BY <1>1, <1>2, <1>4 DEF Proceeds, Current
<1>6. Entered'
  BY <1>1, <1>2, <1>4 DEF Proceeds, EnteredAt, Entered
<1>7. Closed'
  <2>1. ASSUME CloseAbandonedAttempts(w), NEW t \in todo'[w], FirstById(todo'[w], t)
        PROVE  OpenAttempts(t)' = {}
    <3>1. todo'[w] = todo[w]
      BY <2>1 DEF CloseAbandonedAttempts
    <3>2. PICK u \in todo[w] : FirstById(todo[w], u) /\ open' = open \ OpenAttempts(u)
      BY <2>1 DEF CloseAbandonedAttempts, CloseAttempts
    <3>3. t = u
      BY <1>0, <2>1, <3>1, <3>2, FirstIsUnique
    <3> QED
      BY <3>2, <3>3 DEF OpenAttempts
  <2> QED
    BY <1>1, <1>2, <2>1 DEF Closed, Proceeds
<1>8. OpenAttemptIsCurrent'
  BY WorkerCurrent
<1> QED
  BY <1>3, <1>5, <1>6, <1>7, <1>8 DEF TimelyInv

\* An operation starts only when no other is under way.
LEMMA StartTimely ==
    ASSUME SafetyInv, TimelyInv, NEW w \in Worker, WorkerStart(w)
    PROVE  TimelyInv'
<1>1. /\ Available(w) /\ lease.owner # w /\ lease' = [owner |-> w, live |-> TRUE]
      /\ UNCHANGED <<run, task, open, requests>>
      /\ \E label \in {"adv_run", "res_read"} : Goto(w, label)
  BY DEF WorkerStart, AdvanceAcquire, ResumeAcquire, AcquireLease
<1>2. \A v \in Worker : pc[v] = "idle"
  BY <1>1, LeaseAssumption DEF TimelyInv, Exclusive, Leased, Available
<1>3. pc'[w] \in {"adv_run", "res_read"} /\ \A v \in Worker \ {w} : pc'[v] = "idle"
  BY <1>1, <1>2 DEF SafetyInv, TypeOK, Goto
<1>4. Exclusive'
  BY <1>1, <1>3 DEF Exclusive, Leased
<1>5. Current' /\ Closed' /\ Entered'
  BY <1>3 DEF Current, Closed, Entered, Loaded, Advancing, AdvanceLoop
<1>6. OpenAttemptIsCurrent'
  BY <1>1 DEF TimelyInv, OpenAttemptIsCurrent
<1> QED
  BY <1>4, <1>5, <1>6 DEF TimelyInv

\* A client adds requests and asks a RUNNING run to pause.
LEMMA ClientTimely ==
    ASSUME SafetyInv, TimelyInv, NEW c \in Client, ClientStep(c) \/ ClientFault(c)
    PROVE  TimelyInv'
<1>1. UNCHANGED <<task, open, lease, fresh, pc, todo>>
  BY DEF ClientStep, ClientFault, ServiceCall, PauseCall, PauseCreate, PauseMark, CancelCall,
     CancelCreate, ClientCrash, storeVars, copyVars, workerVars
<1>2. run' = run \/ (run = "RUNNING" /\ run' = "PAUSE_REQUESTED")
  <2>1. \/ UNCHANGED run
        \/ UpdateRun(c, "PAUSE_REQUESTED", FALSE) /\ clientPc[c] = "pause_mark"
    BY DEF ClientStep, ClientFault, ServiceCall, PauseCall, PauseCreate, PauseMark, CancelCall,
       CancelCreate, ClientCrash, storeVars, copyVars
  <2> QED
    BY <2>1 DEF UpdateRun, SafetyInv, LocalInv, RunCopies
<1>3. CancelPending => CancelPending'
  <2>1. UNCHANGED requests \/ \E kind \in {"pause", "cancel"} : CreateRequest(kind)
    BY DEF ClientStep, ClientFault, ServiceCall, PauseCall, PauseCreate, PauseMark, CancelCall,
       CancelCreate, ClientCrash, storeVars, copyVars
  <2>2. requests \in Seq(Request)
    BY DEF SafetyInv, TypeOK
  <2>3. ASSUME NEW r, requests' = Append(requests, r)
        PROVE  DOMAIN requests \subseteq DOMAIN requests'
               /\ \A i \in DOMAIN requests : requests'[i] = requests[i]
    BY <2>2, <2>3
  <2>4. /\ DOMAIN requests \subseteq DOMAIN requests'
        /\ \A i \in DOMAIN requests : requests'[i] = requests[i]
    BY <2>1, <2>3 DEF CreateRequest
  <2> QED
    BY <2>4 DEF CancelPending, PendingRequests, Pending
<1>4. Exclusive' /\ Current' /\ Closed' /\ OpenAttemptIsCurrent'
  BY <1>1 DEF TimelyInv, Exclusive, Leased, Current, Closed, OpenAttempts, OpenAttemptIsCurrent
<1>5. Entered'
  BY <1>1, <1>2, <1>3 DEF TimelyInv, Entered
<1> QED
  BY <1>4, <1>5 DEF TimelyInv

LEMMA TimelyStep == SafetyInv /\ TimelyInv /\ [TimelyNext]_vars => TimelyInv'
<1> SUFFICES ASSUME SafetyInv, TimelyInv, [TimelyNext]_vars PROVE TimelyInv'
  OBVIOUS
<1>1. CASE AbandonedLeaseExpires /\ UNCHANGED <<workerVars, clientPc>>
  <2>1. \A w \in Worker : pc[w] = "idle"
    BY <1>1, LeaseAssumption DEF TimelyInv, Exclusive, Leased, AbandonedLeaseExpires
  <2>2. UNCHANGED <<run, task, open, requests, pc>>
    BY <1>1 DEF AbandonedLeaseExpires, workerVars
  <2> QED
    BY <2>1, <2>2 DEF TimelyInv, Exclusive, Current, Closed, Entered, Loaded, Advancing,
       AdvanceLoop, OpenAttemptIsCurrent
<1>2. CASE UNCHANGED vars
  <2>1. UNCHANGED <<run, task, open, requests, lease, fresh, pc, todo>>
    BY <1>2 DEF vars, storeVars, copyVars, workerVars
  <2> QED
    BY <2>1 DEF TimelyInv, Exclusive, Leased, Current, Closed, Entered, CancelPending,
       PendingRequests, Pending, OpenAttempts, OpenAttemptIsCurrent
<1> QED
  BY <1>1, <1>2, WorkerTimely, StartTimely, ClientTimely DEF TimelyNext, ReliableNext

LEMMA InitTimely == Init => TimelyInv
  BY DEF Init, StoreInit, WorkerInit, TimelyInv, Exclusive, Current, Closed, Entered, Loaded,
     Advancing, AdvanceLoop, OpenAttemptIsCurrent

LEMMA Timely == TimelySpec => [](SafetyInv /\ TimelyInv)
<1>1. TimelyNext => Next
  BY DEF Next
<1>2. SafetyInv /\ TimelyInv /\ [TimelyNext]_vars => SafetyInv' /\ TimelyInv'
  BY <1>1, NextSafe, TimelyStep
<1> QED
  BY <1>2, InitSafe, InitTimely, PTL DEF TimelySpec

\* While no worker outlives its lease, an open attempt row is the latest attempt of a
\* RUNNING task: finish_open_task_attempts and cancel_task_and_open_attempts leave
\* nothing behind, whatever crashed before.
THEOREM OpenAttemptsAreCurrent == TimelySpec => []OpenAttemptIsCurrent
  BY Timely, PTL DEF TimelyInv

\* While no worker outlives its lease, task workers run only in a run that is RUNNING or
\* PAUSE_REQUESTED: advance enters a PAUSED run only to cancel it, and no pause,
\* recovery or end of the run comes between its check and the execution.
THEOREM ExecutionNeedsRunning == TimelySpec => []ExecutesOnlyWhileRunning
<1>1. TimelyInv => ExecutesOnlyWhileRunning
  BY DEF TimelyInv, Entered, Advancing, AdvanceLoop, ExecutesOnlyWhileRunning
<1> QED
  BY <1>1, Timely, PTL
=============================================================================
