--------------------------- MODULE MCDurableAgent ---------------------------
EXTENDS DurableAgent, TLC

CONSTANTS w1, w2, w3, c1, c2

FlatPriority == [t \in Task |-> 100]
Serial == [t \in Task |-> FALSE]
Parallel == [t \in Task |-> TRUE]
NoDependencies == [t \in Task |-> {}]
OneAttempt == [t \in Task |-> 1]
TwoAttempts == [t \in Task |-> 2]
AllRetry == [t \in Task |-> "RETRY"]
AllReview == [t \in Task |-> "MANUAL_REVIEW"]

\* Two tasks in a chain.
ChainDependencies == 1 :> {} @@ 2 :> {1}
ChainPolicy == 1 :> "SKIP_DEPENDENTS" @@ 2 :> "MANUAL_REVIEW"

\* Two parallel tasks, one of them with a dependent; every failure policy but FAIL_RUN.
ForkDependencies == 1 :> {} @@ 2 :> {} @@ 3 :> {1}
ForkParallel == 1 :> TRUE @@ 2 :> TRUE @@ 3 :> FALSE
ForkAttempts == 1 :> 1 @@ 2 :> 1 @@ 3 :> 2
ForkPolicy == 1 :> "SKIP_DEPENDENTS" @@ 2 :> "MANUAL_REVIEW" @@ 3 :> "RETRY"

Symmetry == Permutations(Worker)
=============================================================================
