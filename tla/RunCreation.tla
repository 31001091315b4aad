----------------------------- MODULE RunCreation -----------------------------
(***************************************************************************)
(* AgentService.create_run (application/service.py) over the idempotency,  *)
(* run, plan and task rows (persistence/store.py), for one                 *)
(* owner and one idempotency key.  Callers are clients that send the       *)
(* request, lose the answer and send it again, to replicas of the service  *)
(* that share only the database.  One step per awaited call; the index,    *)
(* the events and the checkpoint leave no row that the other steps read,   *)
(* and are possible exceptions only (Fail).                                *)
(***************************************************************************)
EXTENDS Integers, FiniteSets

CONSTANTS
    Caller,     \* clients that use the key
    Request,    \* request hashes
    RequestOf,  \* RequestOf[c]: the hash of what c asks for
    MaxFaults   \* bound on the calls that crash or raise at an await

ASSUME CreationAssumption ==
    /\ RequestOf \in [Caller -> Request]
    /\ MaxFaults \in Nat

VARIABLES
    runs,    \* the RunORM rows; a run is named by the caller whose call inserted it
    key,     \* the IdempotencyKeyORM row of the key: none, or [request, run]
    plans,   \* PlanORM rows, all of version 1: [run, planner]
    tasks,   \* the plans whose task rows are stored
    pc,      \* the store call that c is about to make
    copy,    \* copy[c]: the run record c works on
    answer,  \* answer[c]: the run that c was last given
    faults

creationVars == <<runs, key, plans, tasks, pc, copy, answer, faults>>

None == [none |-> TRUE]

Run == [id : Caller, state : {"CREATED", "PLANNING", "RUNNING"}, version : Nat,
        plan : {"none", "active"}]
KeyRow == [request : Request, run : Caller]

NewRun(c) == [id |-> c, state |-> "CREATED", version |-> 1, plan |-> "none"]

Init ==
    /\ runs = {} /\ key = None /\ plans = {} /\ tasks = {}
    /\ pc = [c \in Caller |-> "idle"]
    /\ copy = [c \in Caller |-> None]
    /\ answer = [c \in Caller |-> None]
    /\ faults = 0

Goto(c, label) == pc' = [pc EXCEPT ![c] = label]

\* The call returns or raises.
Return(c, run) ==
    /\ Goto(c, "idle")
    /\ answer' = [answer EXCEPT ![c] = run]
    /\ copy' = [copy EXCEPT ![c] = None]

Raise(c) == Return(c, None)

\* The run that the key is bound to.
Bound(run) == run \in runs /\ run.id = key.run

(***************************************************************************)
(* create_run.                                                             *)
(***************************************************************************)

\* find_idempotent_run: a replay returns the run as it is.
FindIdempotentRun(c) ==
    /\ pc[c] = "idle"
    /\ \/ /\ key = None
          /\ Goto(c, "create")
          /\ UNCHANGED <<copy, answer>>
       \/ /\ key # None /\ key.request # RequestOf[c]
          /\ Raise(c)
       \/ /\ key # None /\ key.request = RequestOf[c]
          /\ \E run \in runs : Bound(run) /\ Return(c, run)
    /\ UNCHANGED <<runs, key, plans, tasks, faults>>

\* Mutant: the second of two concurrent requests is not compared with the first.
CreateRowUnchecked(c) ==
    /\ pc[c] = "create"
    /\ \/ /\ key = None
          /\ runs' = runs \cup {NewRun(c)}
          /\ key' = [request |-> RequestOf[c], run |-> c]
          /\ copy' = [copy EXCEPT ![c] = NewRun(c)]
          /\ Goto(c, "planning")
          /\ UNCHANGED answer
       \/ /\ key # None
          /\ \E run \in runs :
                /\ Bound(run)
                /\ IF run.plan = "active" THEN Return(c, run)
                   ELSE /\ copy' = [copy EXCEPT ![c] = run]
                        /\ Goto(c, "planning")
                        /\ UNCHANGED answer
          /\ UNCHANGED <<runs, key>>
    /\ UNCHANGED <<plans, tasks, faults>>

\* store.create_run: run and key are inserted in one transaction, or the run of an equal
\* concurrent request is loaded; a run that has no plan yet is planned by this call too.
CreateRow(c) ==
    /\ pc[c] = "create"
    /\ \/ /\ key = None
          /\ runs' = runs \cup {NewRun(c)}
          /\ key' = [request |-> RequestOf[c], run |-> c]
          /\ copy' = [copy EXCEPT ![c] = NewRun(c)]
          /\ Goto(c, "planning")
          /\ UNCHANGED answer
       \/ /\ key # None /\ key.request # RequestOf[c]
          /\ Raise(c)
          /\ UNCHANGED <<runs, key>>
       \/ /\ key # None /\ key.request = RequestOf[c]
          /\ \E run \in runs :
                /\ Bound(run)
                /\ IF run.plan = "active" THEN Return(c, run)
                   ELSE /\ copy' = [copy EXCEPT ![c] = run]
                        /\ Goto(c, "planning")
                        /\ UNCHANGED answer
          /\ UNCHANGED <<runs, key>>
    /\ UNCHANGED <<plans, tasks, faults>>

\* update_run compares the version with the row.
Fresh(c) == \E run \in runs : run.id = copy[c].id /\ run.version = copy[c].version

Moved(run, state, plan) ==
    [id |-> run.id, state |-> state, version |-> run.version + 1, plan |-> plan]

UpdateRun(c, new) ==
    /\ runs' = {run \in runs : run.id # new.id} \cup {new}
    /\ copy' = [copy EXCEPT ![c] = new]

\* The run becomes PLANNING; transition_run lets a PLANNING run become PLANNING again.
StartPlanning(c) ==
    /\ pc[c] = "planning"
    /\ \/ /\ Fresh(c)
          /\ UpdateRun(c, Moved(copy[c], "PLANNING", copy[c].plan))
          /\ Goto(c, "plan")
          /\ UNCHANGED answer
       \/ ~ Fresh(c) /\ Raise(c) /\ UNCHANGED runs
    /\ UNCHANGED <<key, plans, tasks, faults>>

\* Mutant: the run starts before its tasks are stored.
SavePlanAndStart(c) ==
    /\ pc[c] = "plan"
    /\ \/ /\ \A p \in plans : p.run # copy[c].id
          /\ plans' = plans \cup {[run |-> copy[c].id, planner |-> c]}
          /\ Goto(c, "running")
          /\ UNCHANGED <<copy, answer>>
       \/ /\ \E p \in plans : p.run = copy[c].id
          /\ Raise(c)
          /\ UNCHANGED plans
    /\ UNCHANGED <<runs, key, tasks, faults>>

\* save_plan: (run_id, version) is unique.
SavePlan(c) ==
    /\ pc[c] = "plan"
    /\ \/ /\ \A p \in plans : p.run # copy[c].id
          /\ plans' = plans \cup {[run |-> copy[c].id, planner |-> c]}
          /\ Goto(c, "tasks")
          /\ UNCHANGED <<copy, answer>>
       \/ /\ \E p \in plans : p.run = copy[c].id
          /\ Raise(c)
          /\ UNCHANGED plans
    /\ UNCHANGED <<runs, key, tasks, faults>>

SaveTasks(c) ==
    /\ pc[c] = "tasks"
    /\ tasks' = tasks \cup {[run |-> copy[c].id, planner |-> c]}
    /\ Goto(c, "running")
    /\ UNCHANGED <<runs, key, plans, copy, answer, faults>>

StartRunning(c) ==
    /\ pc[c] = "running"
    /\ \/ /\ Fresh(c)
          /\ UpdateRun(c, Moved(copy[c], "RUNNING", "active"))
          /\ Goto(c, "checkpoint")
          /\ UNCHANGED answer
       \/ ~ Fresh(c) /\ Raise(c) /\ UNCHANGED runs
    /\ UNCHANGED <<key, plans, tasks, faults>>

\* The first checkpoint and the last event are written, and the run returned.
WriteCheckpoint(c) ==
    /\ pc[c] = "checkpoint"
    /\ Return(c, copy[c])
    /\ UNCHANGED <<runs, key, plans, tasks, faults>>

\* The process dies, or an awaited call (indexing, the planner, an event) raises.
Fail(c) ==
    /\ pc[c] # "idle"
    /\ faults < MaxFaults
    /\ faults' = faults + 1
    /\ Raise(c)
    /\ UNCHANGED <<runs, key, plans, tasks>>

CreateRun(c) ==
    \/ FindIdempotentRun(c) \/ CreateRow(c) \/ StartPlanning(c) \/ SavePlan(c)
    \/ SaveTasks(c) \/ StartRunning(c) \/ WriteCheckpoint(c)

Next == \E c \in Caller : CreateRun(c) \/ Fail(c)

Spec == Init /\ [][Next]_creationVars

(***************************************************************************)
(* Properties.                                                             *)
(***************************************************************************)

TypeOK ==
    /\ runs \subseteq Run
    /\ key \in KeyRow \cup {None}
    /\ plans \subseteq [run : Caller, planner : Caller] /\ tasks \subseteq plans
    /\ pc \in [Caller -> {"idle", "create", "planning", "plan", "tasks", "running",
                          "checkpoint"}]
    /\ copy \in [Caller -> Run \cup {None}]
    /\ answer \in [Caller -> Run \cup {None}]
    /\ faults \in 0 .. MaxFaults

\* "Replaying the same request returns the existing run; reusing the key for a different
\* request is a conflict": however requests race and are sent again, one run exists for
\* the key, and whoever is given it asked for what it was created from.
OneRunPerKey ==
    /\ \A r, s \in runs : r = s
    /\ \A c \in Caller :
          answer[c] # None => /\ answer[c].id = key.run
                              /\ RequestOf[c] = key.request

\* A RUNNING run has exactly one plan, with its tasks stored, although several calls may
\* plan the same run at once.
RunningIsPlanned ==
    \A run \in runs :
        run.state = "RUNNING" => /\ \E p \in tasks : p.run = run.id
                                 /\ \A p, q \in plans : p = q
=============================================================================
