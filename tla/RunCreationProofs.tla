-------------------------- MODULE RunCreationProofs --------------------------
(***************************************************************************)
(* The promises of create_run for any number of clients and any requests:  *)
(* one run for the key, and a RUNNING run that is planned.                 *)
(***************************************************************************)
EXTENDS RunCreation, TLAPS

\* Nothing is stored or answered before the key is.
NothingBeforeKey ==
    key = None => /\ runs = {} /\ plans = {}
                  /\ \A c \in Caller : pc[c] \in {"idle", "create"} /\ answer[c] = None

\* The rows, the answers and the copies of the calls are about the run of the key.
AboutTheKey ==
    key # None =>
        /\ \A r \in runs : r.id = key.run
        /\ \A p \in plans : p.run = key.run
        /\ \A c \in Caller :
              /\ pc[c] \notin {"idle", "create"} =>
                    copy[c] \in Run /\ copy[c].id = key.run /\ RequestOf[c] = key.request
              /\ answer[c] # None =>
                    answer[c].id = key.run /\ RequestOf[c] = key.request

OneRow == (\A r, s \in runs : r = s) /\ (\A p, q \in plans : p = q)

\* A call that is about to start the run has stored plan and tasks.
TasksFirst ==
    /\ \A c \in Caller :
          /\ pc[c] = "tasks" => [run |-> copy[c].id, planner |-> c] \in plans
          /\ pc[c] = "running" => [run |-> copy[c].id, planner |-> c] \in tasks
    /\ \A c \in Caller : pc[c] \notin {"idle", "create"} /\ copy[c].state = "RUNNING" =>
                         \E p \in tasks : p.run = copy[c].id
    /\ \A r \in runs : r.state = "RUNNING" => \E p \in tasks : p.run = r.id

CreationInv == TypeOK /\ NothingBeforeKey /\ AboutTheKey /\ OneRow /\ TasksFirst

\* No row is the absent one.
LEMMA NoneIsNoRow ==
    None \notin Run /\ None \notin KeyRow
  BY DEF None, Run, KeyRow

\* A call that returns or raises keeps the invariant when what it returns is the run of
\* the key.
LEMMA ReturnKeeps ==
    ASSUME CreationInv, NEW c \in Caller, NEW run \in Run \cup {None}, Return(c, run),
           UNCHANGED <<runs, key, plans, tasks>>, faults' \in 0 .. MaxFaults,
           run # None => key # None /\ run.id = key.run /\ RequestOf[c] = key.request
    PROVE  CreationInv'
<1> USE DEF CreationInv, Return, Goto
<1>1. TypeOK'
  BY DEF TypeOK
<1>2. NothingBeforeKey'
  BY DEF NothingBeforeKey, TypeOK
<1>3. AboutTheKey'
  BY DEF AboutTheKey, TypeOK
<1>4. OneRow'
  BY DEF OneRow
<1>5. TasksFirst'
  BY DEF TasksFirst, TypeOK
<1> QED
  BY <1>1, <1>2, <1>3, <1>4, <1>5

\* find_idempotent_run keeps the invariant.
LEMMA FindKeeps ==
    ASSUME CreationInv, NEW c \in Caller, FindIdempotentRun(c)
    PROVE  CreationInv'
<1> USE DEF CreationInv
<1>1. CASE key = None /\ Goto(c, "create") /\ UNCHANGED <<copy, answer>>
  <2>1. UNCHANGED <<runs, key, plans, tasks, copy, answer, faults>>
    BY <1>1 DEF FindIdempotentRun
  <2>2. \A k \in Caller : pc'[k] = IF k = c THEN "create" ELSE pc[k]
    BY <1>1 DEF Goto, TypeOK
  <2>3. TypeOK'
    BY <1>1, <2>1 DEF TypeOK, Goto
  <2> QED
    BY <1>1, <2>1, <2>2, <2>3 DEF NothingBeforeKey, AboutTheKey, OneRow, TasksFirst
<1>2. CASE Raise(c)
  BY <1>2, ReturnKeeps DEF FindIdempotentRun, Raise, TypeOK
<1>3. CASE /\ key # None /\ key.request = RequestOf[c]
           /\ \E run \in runs : Bound(run) /\ Return(c, run)
  <2>1. PICK run \in runs : Bound(run) /\ Return(c, run)
    BY <1>3
  <2>2. run \in Run /\ run.id = key.run
    BY <2>1 DEF TypeOK, Bound
  <2> QED
    BY <1>3, <2>1, <2>2, ReturnKeeps DEF FindIdempotentRun, TypeOK
<1> QED
  BY <1>1, <1>2, <1>3 DEF FindIdempotentRun

\* store.create_run keeps the invariant.
LEMMA CreateKeeps ==
    ASSUME CreationInv, NEW c \in Caller, CreateRow(c)
    PROVE  CreationInv'
<1> USE DEF CreationInv
<1>0. UNCHANGED <<plans, tasks, faults>> /\ pc[c] = "create"
  BY DEF CreateRow
<1>1. CASE /\ key = None
           /\ runs' = runs \cup {NewRun(c)}
           /\ key' = [request |-> RequestOf[c], run |-> c]
           /\ copy' = [copy EXCEPT ![c] = NewRun(c)]
           /\ Goto(c, "planning")
           /\ UNCHANGED answer
  <2>1. NewRun(c) \in Run /\ NewRun(c).id = c /\ NewRun(c).state = "CREATED"
    BY DEF NewRun, Run
  <2>2. key' \in KeyRow /\ key' # None /\ key'.run = c /\ key'.request = RequestOf[c]
    BY <1>1, NoneIsNoRow, CreationAssumption DEF KeyRow
  <2>3. /\ \A k \in Caller : pc'[k] = IF k = c THEN "planning" ELSE pc[k]
        /\ \A k \in Caller : copy'[k] = IF k = c THEN NewRun(c) ELSE copy[k]
    BY <1>1 DEF Goto, TypeOK
  <2>4. runs = {} /\ plans = {} /\ runs' = {NewRun(c)}
    BY <1>1 DEF NothingBeforeKey
  <2>5. \A k \in Caller : pc[k] \in {"idle", "create"} /\ answer[k] = None
    BY <1>1 DEF NothingBeforeKey
  <2>6. TypeOK'
    BY <1>0, <1>1, <2>1, <2>2, <2>4 DEF TypeOK, Goto
  <2>7. NothingBeforeKey'
    BY <2>2 DEF NothingBeforeKey
  <2>8. AboutTheKey'
    BY <1>0, <1>1, <2>1, <2>2, <2>3, <2>4, <2>5 DEF AboutTheKey
  <2>9. OneRow' /\ TasksFirst'
    BY <1>0, <2>1, <2>3, <2>4, <2>5 DEF OneRow, TasksFirst
  <2> QED
    BY <2>6, <2>7, <2>8, <2>9
<1>2. CASE Raise(c) /\ UNCHANGED <<runs, key>>
  BY <1>0, <1>2, ReturnKeeps DEF Raise, TypeOK
<1>3. CASE /\ key # None /\ key.request = RequestOf[c]
           /\ \E run \in runs :
                 /\ Bound(run)
                 /\ IF run.plan = "active" THEN Return(c, run)
                    ELSE /\ copy' = [copy EXCEPT ![c] = run]
                         /\ Goto(c, "planning")
                         /\ UNCHANGED answer
           /\ UNCHANGED <<runs, key>>
  <2>1. PICK run \in runs :
            /\ Bound(run)
            /\ IF run.plan = "active" THEN Return(c, run)
               ELSE /\ copy' = [copy EXCEPT ![c] = run]
                    /\ Goto(c, "planning")
                    /\ UNCHANGED answer
    BY <1>3
  <2>2. run \in Run /\ run.id = key.run
    BY <2>1 DEF TypeOK, Bound
  <2>3. CASE run.plan = "active"
    <3>1. Return(c, run)
      BY <2>1, <2>3
    <3> QED
      BY <1>0, <1>3, <2>2, <3>1, ReturnKeeps DEF TypeOK
  <2>4. CASE run.plan # "active"
    <3>1. copy' = [copy EXCEPT ![c] = run] /\ Goto(c, "planning") /\ UNCHANGED answer
      BY <2>1, <2>4
    <3>2. /\ \A k \in Caller : pc'[k] = IF k = c THEN "planning" ELSE pc[k]
          /\ \A k \in Caller : copy'[k] = IF k = c THEN run ELSE copy[k]
      BY <3>1 DEF Goto, TypeOK
    <3>3. TypeOK'
      BY <1>0, <1>3, <2>2, <3>1 DEF TypeOK, Goto
    <3>4. NothingBeforeKey' /\ AboutTheKey' /\ OneRow'
      BY <1>0, <1>3, <2>2, <3>1, <3>2 DEF NothingBeforeKey, AboutTheKey, OneRow
    <3>5. TasksFirst'
      BY <1>0, <1>3, <2>1, <3>2 DEF TasksFirst
    <3> QED
      BY <3>3, <3>4, <3>5
  <2> QED
    BY <2>3, <2>4
<1> QED
  BY <1>1, <1>2, <1>3 DEF CreateRow

\* A call past create works for the run of the key.
LEMMA WorksForTheKey ==
    ASSUME CreationInv, NEW c \in Caller, pc[c] \notin {"idle", "create"}
    PROVE  /\ key # None /\ copy[c] \in Run
           /\ copy[c].id = key.run /\ RequestOf[c] = key.request
<1>1. key # None
  BY DEF CreationInv, NothingBeforeKey
<1> QED
  BY <1>1 DEF CreationInv, AboutTheKey

\* update_run of the run that c works on keeps the invariant: there is one run, and it
\* becomes RUNNING only with tasks.
LEMMA UpdateKeeps ==
    ASSUME CreationInv, NEW c \in Caller, pc[c] \notin {"idle", "create"}, Fresh(c),
           NEW new \in Run, new.id = copy[c].id, UpdateRun(c, new),
           new.state = "RUNNING" => \E p \in tasks : p.run = new.id,
           NEW label \in {"plan", "checkpoint"}, Goto(c, label),
           UNCHANGED <<key, plans, tasks, answer, faults>>
    PROVE  CreationInv'
<1> USE DEF CreationInv
<1>1. /\ key # None /\ copy[c] \in Run
      /\ copy[c].id = key.run /\ RequestOf[c] = key.request
  BY WorksForTheKey
<1>2. runs' = {new}
  <2>1. \A r \in runs : r.id = new.id
    BY <1>1 DEF AboutTheKey
  <2> QED
    BY <2>1 DEF UpdateRun
<1>3. /\ \A k \in Caller : pc'[k] = IF k = c THEN label ELSE pc[k]
      /\ \A k \in Caller : copy'[k] = IF k = c THEN new ELSE copy[k]
  BY DEF UpdateRun, Goto, TypeOK
<1>4. TypeOK'
  BY <1>2 DEF TypeOK, UpdateRun, Goto
<1>5. NothingBeforeKey' /\ OneRow'
  BY <1>1, <1>2 DEF NothingBeforeKey, OneRow
<1>6. AboutTheKey'
  BY <1>1, <1>2, <1>3 DEF AboutTheKey
<1>7. TasksFirst'
  BY <1>1, <1>2, <1>3 DEF TasksFirst
<1> QED
  BY <1>4, <1>5, <1>6, <1>7

\* The two transitions of the run keep the invariant.
LEMMA TransitionsKeep ==
    ASSUME CreationInv, NEW c \in Caller, StartPlanning(c) \/ StartRunning(c)
    PROVE  CreationInv'
<1>1. pc[c] \notin {"idle", "create"} /\ UNCHANGED <<key, plans, tasks, faults>>
  BY DEF StartPlanning, StartRunning
<1>2. copy[c] \in Run
  BY <1>1, WorksForTheKey
<1>3. CASE Raise(c) /\ UNCHANGED runs
  BY <1>1, <1>3, ReturnKeeps DEF Raise, CreationInv, TypeOK
<1>4. CASE StartPlanning(c) /\ ~ (Raise(c) /\ UNCHANGED runs)
  <2> DEFINE next == Moved(copy[c], "PLANNING", copy[c].plan)
  <2>1. /\ Fresh(c) /\ UpdateRun(c, next) /\ Goto(c, "plan") /\ UNCHANGED answer
    BY <1>4 DEF StartPlanning
  <2>2. next \in Run /\ next.id = copy[c].id /\ next.state # "RUNNING"
    BY <1>2 DEF Run, Moved
  <2> HIDE DEF next
  <2> QED
    BY <1>1, <2>1, <2>2, UpdateKeeps
<1>5. CASE StartRunning(c) /\ ~ (Raise(c) /\ UNCHANGED runs)
  <2> DEFINE next == Moved(copy[c], "RUNNING", "active")
  <2>1. /\ Fresh(c) /\ UpdateRun(c, next) /\ Goto(c, "checkpoint") /\ UNCHANGED answer
    BY <1>5 DEF StartRunning
  <2>2. next \in Run /\ next.id = copy[c].id
    BY <1>2 DEF Run, Moved
  <2>3. [run |-> copy[c].id, planner |-> c] \in tasks
    BY <1>5 DEF StartRunning, CreationInv, TasksFirst
  <2>4. \E p \in tasks : p.run = next.id
    BY <2>2, <2>3
  <2> HIDE DEF next
  <2> QED
    BY <1>1, <2>1, <2>2, <2>4, UpdateKeeps
<1> QED
  BY <1>3, <1>4, <1>5

\* save_plan keeps the invariant.
LEMMA PlanKeeps ==
    ASSUME CreationInv, NEW c \in Caller, SavePlan(c)
    PROVE  CreationInv'
<1> USE DEF CreationInv
<1>1. UNCHANGED <<runs, key, tasks, faults>> /\ pc[c] = "plan"
  BY DEF SavePlan
<1>2. CASE Raise(c) /\ UNCHANGED plans
  BY <1>1, <1>2, ReturnKeeps DEF Raise, TypeOK
<1>3. CASE ~ (Raise(c) /\ UNCHANGED plans)
  <2> DEFINE row == [run |-> copy[c].id, planner |-> c]
  <2>1. /\ \A p \in plans : p.run # copy[c].id
        /\ plans' = plans \cup {row}
        /\ Goto(c, "tasks")
        /\ UNCHANGED <<copy, answer>>
    BY <1>3 DEF SavePlan
  <2>2. /\ key # None /\ copy[c] \in Run /\ copy[c].id = key.run
    BY <1>1, WorksForTheKey
  <2>3. plans = {}
    BY <2>1, <2>2 DEF AboutTheKey
  <2>4. \A k \in Caller : pc'[k] = IF k = c THEN "tasks" ELSE pc[k]
    BY <2>1 DEF Goto, TypeOK
  <2>5. copy[c].id \in Caller
    BY <2>2 DEF Run
  <2>6. TypeOK'
    BY <1>1, <2>1, <2>5 DEF TypeOK, Goto
  <2>7. NothingBeforeKey' /\ AboutTheKey' /\ OneRow'
    BY <1>1, <2>1, <2>2, <2>3, <2>4 DEF NothingBeforeKey, AboutTheKey, OneRow
  <2>8. TasksFirst'
    BY <1>1, <2>1, <2>4 DEF TasksFirst
  <2> QED
    BY <2>6, <2>7, <2>8
<1> QED
  BY <1>2, <1>3

\* save_tasks keeps the invariant.
LEMMA TasksKeep ==
    ASSUME CreationInv, NEW c \in Caller, SaveTasks(c)
    PROVE  CreationInv'
<1> USE DEF CreationInv
<1>1. UNCHANGED <<runs, key, plans, copy, answer, faults>> /\ pc[c] = "tasks"
  BY DEF SaveTasks
<1>2. \A k \in Caller : pc'[k] = IF k = c THEN "running" ELSE pc[k]
  BY DEF SaveTasks, Goto, TypeOK
<1>3. /\ [run |-> copy[c].id, planner |-> c] \in plans
      /\ tasks' = tasks \cup {[run |-> copy[c].id, planner |-> c]}
  BY <1>1 DEF SaveTasks, TasksFirst
<1>4. TypeOK'
  BY <1>1, <1>3 DEF TypeOK, SaveTasks, Goto
<1>5. NothingBeforeKey' /\ AboutTheKey' /\ OneRow'
  BY <1>1, <1>2 DEF NothingBeforeKey, AboutTheKey, OneRow
<1>6. TasksFirst'
  BY <1>1, <1>2, <1>3 DEF TasksFirst
<1> QED
  BY <1>4, <1>5, <1>6

\* The inductive invariant holds initially and is kept by every step.
LEMMA CreationInvariant ==
    Spec => []CreationInv
<1>1. Init => CreationInv
  BY CreationAssumption
     DEF Init, CreationInv, TypeOK, NothingBeforeKey, AboutTheKey, OneRow, TasksFirst
<1>2. CreationInv /\ [Next]_creationVars => CreationInv'
  <2> SUFFICES ASSUME CreationInv, [Next]_creationVars PROVE CreationInv'
    OBVIOUS
  <2>1. CASE UNCHANGED creationVars
    BY <2>1 DEF creationVars, CreationInv, TypeOK, NothingBeforeKey, AboutTheKey, OneRow,
                TasksFirst
  <2>2. ASSUME NEW c \in Caller, CreateRun(c) PROVE CreationInv'
    <3>1. CASE WriteCheckpoint(c)
      <4>1. pc[c] \notin {"idle", "create"}
        BY <3>1 DEF WriteCheckpoint
      <4>2. /\ key # None /\ copy[c] \in Run
            /\ copy[c].id = key.run /\ RequestOf[c] = key.request
        BY <4>1, WorksForTheKey
      <4> QED
        BY <3>1, <4>2, ReturnKeeps DEF WriteCheckpoint, CreationInv, TypeOK
    <3> QED
      BY <2>2, <3>1, FindKeeps, CreateKeeps, TransitionsKeep, PlanKeeps, TasksKeep
         DEF CreateRun
  <2>3. ASSUME NEW c \in Caller, Fail(c) PROVE CreationInv'
    <3>1. faults' \in 0 .. MaxFaults
      BY <2>3, CreationAssumption DEF Fail, CreationInv, TypeOK
    <3> QED
      BY <2>3, <3>1, ReturnKeeps DEF Fail, Raise
  <2> QED
    BY <2>1, <2>2, <2>3 DEF Next
<1> QED
  BY <1>1, <1>2, PTL DEF Spec

\* Rows, copies and answers of create_run keep their types, and tasks are stored only for
\* a stored plan.
THEOREM CreationTypeCorrect ==
    Spec => []TypeOK
<1>1. CreationInv => TypeOK
  BY DEF CreationInv
<1> QED
  BY <1>1, CreationInvariant, PTL

\* One run per idempotency key, and only for those who asked for it.
THEOREM CreationIsIdempotent ==
    Spec => []OneRunPerKey
<1>1. CreationInv => OneRunPerKey
  BY DEF CreationInv, OneRunPerKey, OneRow, AboutTheKey, NothingBeforeKey
<1> QED
  BY <1>1, CreationInvariant, PTL

\* A RUNNING run has one plan and its tasks.
THEOREM RunningHasPlan ==
    Spec => []RunningIsPlanned
<1>1. CreationInv => RunningIsPlanned
  BY DEF CreationInv, RunningIsPlanned, OneRow, TasksFirst
<1> QED
  BY <1>1, CreationInvariant, PTL
=============================================================================
