------------------------------ MODULE TaskGraph ------------------------------
(***************************************************************************)
(* The graph algorithms of domain/plan.py: topological_order (Kahn's       *)
(* algorithm with a first-in first-out queue), the depth check of          *)
(* validate_plan and the levels of parallel_batches.  The loops are steps, *)
(* one for each task taken from the queue or given its depth.  A task is   *)
(* its position in task_id order; 0 is an id that no task of the plan has. *)
(***************************************************************************)
EXTENDS Integers, FiniteSets, Sequences, SequencesExt

CONSTANTS
    N,            \* number of tasks of the plan
    MaximumDepth  \* validate_plan's maximum_depth

ASSUME GraphAssumption == N \in Nat /\ MaximumDepth \in Nat

Task == 1 .. N

VARIABLES
    dependencies,  \* TaskSpec.dependencies of the plan under validation
    pc,            \* "check", "order", "depth", or the outcome
    indegree,
    queue,
    result,
    depth          \* depth[t], for the tasks of the longest prefix of result done

graphVars == <<dependencies, pc, indegree, queue, result, depth>>

\* A task never names itself (TaskSpec.reject_self_dependency) and names a dependency
\* once (unique_ordered_values).
Plans == {d \in [Task -> SUBSET (0 .. N)] : \A t \in Task : t \notin d[t]}

Init ==
    /\ dependencies \in Plans
    /\ pc = "check"
    /\ indegree = [t \in Task |-> 0]
    /\ queue = << >> /\ result = << >>
    /\ depth = [t \in {} |-> 0]

InIdOrder(S) == CHOOSE q \in SetToSeqs(S) : \A i, j \in DOMAIN q : i < j => q[i] < q[j]

\* Missing dependencies are rejected; otherwise the edges are counted and the tasks
\* without a dependency queued.
Check ==
    /\ pc = "check"
    /\ \/ /\ \E t \in Task : dependencies[t] \ Task # {}
          /\ pc' = "missing"
          /\ UNCHANGED <<indegree, queue>>
       \/ /\ \A t \in Task : dependencies[t] \subseteq Task
          /\ pc' = "order"
          /\ indegree' = [t \in Task |-> Cardinality(dependencies[t])]
          /\ queue' = InIdOrder({t \in Task : dependencies[t] = {}})
    /\ UNCHANGED <<dependencies, result, depth>>

\* Mutant: a task is queued with its first finished dependency.
PopEager ==
    /\ pc = "order" /\ queue # << >>
    /\ LET freed == {t \in Task : Head(queue) \in dependencies[t]} IN
       /\ indegree' = [t \in Task |-> indegree[t] - IF t \in freed THEN 1 ELSE 0]
       /\ queue' = Tail(queue) \o InIdOrder(freed \ (ToSet(queue) \cup ToSet(result)))
    /\ result' = Append(result, Head(queue))
    /\ UNCHANGED <<dependencies, pc, depth>>

\* One round of the loop: the dependents of the task that leaves the queue lose an edge,
\* and those without one left are queued in id order.
Pop ==
    /\ pc = "order" /\ queue # << >>
    /\ LET freed == {t \in Task : Head(queue) \in dependencies[t]} IN
       /\ indegree' = [t \in Task |-> indegree[t] - IF t \in freed THEN 1 ELSE 0]
       /\ queue' = Tail(queue) \o InIdOrder({t \in freed : indegree[t] = 1})
    /\ result' = Append(result, Head(queue))
    /\ UNCHANGED <<dependencies, pc, depth>>

\* Mutant: what the queue left behind is not counted.
EndOfOrderUncounted ==
    /\ pc = "order" /\ queue = << >>
    /\ pc' = "depth"
    /\ UNCHANGED <<dependencies, indegree, queue, result, depth>>

\* Tasks that never left the queue's reach are reported as a cycle.
EndOfOrder ==
    /\ pc = "order" /\ queue = << >>
    /\ pc' = IF Len(result) = N THEN "depth" ELSE "cycle"
    /\ UNCHANGED <<dependencies, indegree, queue, result, depth>>

Deepest(S) == IF S = {} THEN 0 ELSE CHOOSE n \in S : \A m \in S : m <= n

\* Mutant: the depth follows the last dependency only.
NextDepthOfOne ==
    LET t == result[Cardinality(DOMAIN depth) + 1]
        last == {depth[d] : d \in {d \in dependencies[t] : \A e \in dependencies[t] : e <= d}}
    IN depth' = [u \in DOMAIN depth \cup {t} |-> IF u = t THEN 1 + Deepest(last) ELSE depth[u]]

NextDepth ==
    LET t == result[Cardinality(DOMAIN depth) + 1] IN
    depth' = [u \in DOMAIN depth \cup {t} |->
                 IF u = t THEN 1 + Deepest({depth[d] : d \in dependencies[t]})
                          ELSE depth[u]]

Measure ==
    /\ pc = "depth" /\ DOMAIN depth # Task
    /\ NextDepth
    /\ UNCHANGED <<dependencies, pc, indegree, queue, result>>

EndOfDepth ==
    /\ pc = "depth" /\ DOMAIN depth = Task
    /\ pc' = IF Deepest({depth[t] : t \in Task}) > MaximumDepth THEN "deep" ELSE "valid"
    /\ UNCHANGED <<dependencies, indegree, queue, result, depth>>

\* parallel_batches: the tasks of one level; a batch is listed in the order of result.
Batch(n) == {result[i] : i \in {j \in DOMAIN result : depth[result[j]] = n}}

ParallelBatches == [n \in 1 .. Deepest({depth[t] : t \in Task}) |-> Batch(n)]

Next == Check \/ Pop \/ EndOfOrder \/ Measure \/ EndOfDepth

Spec == Init /\ [][Next]_graphVars

(***************************************************************************)
(* Properties.                                                             *)
(***************************************************************************)

TypeOK ==
    /\ dependencies \in [Task -> SUBSET (0 .. N)]
    /\ pc \in {"check", "missing", "order", "cycle", "depth", "deep", "valid"}
    /\ indegree \in [Task -> Nat]
    /\ queue \in Seq(Task) /\ result \in Seq(Task)
    /\ DOMAIN depth \subseteq Task

\* The reference: while some tasks are left, one of them has all its dependencies done,
\* which is what the orchestrator's loop needs in order to find a ready task.
Executable ==
    \A done \in SUBSET Task :
        done # Task => \E t \in Task \ done : dependencies[t] \subseteq done

\* The reference for depth: the tasks that end a chain of n + 1 tasks.
EndsChain == [n \in 0 .. N |->
    LET ends[m \in 0 .. N] ==
            IF m = 0 THEN Task
            ELSE {t \in Task : \E d \in dependencies[t] : d \in ends[m - 1]}
    IN ends[n]]

\* topological_order lists a task once and after all its dependencies, at every moment of
\* the loop.
OrderRespectsDependencies ==
    /\ \A i, j \in DOMAIN result : result[i] = result[j] => i = j
    /\ \A i \in DOMAIN result : dependencies[result[i]] \subseteq {result[j] : j \in 1 .. i - 1}

\* A plan is reported as cyclic exactly if it could not be executed to the end.
CycleIffNotExecutable ==
    /\ pc = "cycle" => ~ Executable
    /\ pc \in {"depth", "deep", "valid"} => Executable

\* The depth that validate_plan compares with maximum_depth is the length of the longest
\* chain of dependencies, although each task is visited once; and parallel_batches
\* partitions the tasks into levels that can run together: a batch needs only what is in
\* earlier batches, and each of its tasks needs something of the batch before.
LevelsAreChains ==
    /\ pc \in {"deep", "valid"} =>
          \A t \in Task : \A n \in 0 .. N : (t \in EndsChain[n]) <=> (n < depth[t])
    /\ pc = "valid" =>
          LET batches == ParallelBatches
              Before(n) == UNION {batches[m] : m \in 1 .. n - 1}
          IN /\ UNION {batches[n] : n \in DOMAIN batches} = Task
             /\ \A n \in DOMAIN batches : \A t \in batches[n] :
                   /\ dependencies[t] \subseteq Before(n)
                   /\ t \notin Before(n)
                   /\ n > 1 => dependencies[t] \cap batches[n - 1] # {}
=============================================================================
