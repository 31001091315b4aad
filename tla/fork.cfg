SPECIFICATION TimelySpec
CONSTANTS
    w1 = w1
    w2 = w2
    w3 = w3
    c1 = c1
    c2 = c2
    Worker = {w1, w2}
    Client = {c1}
    NoOwner = NoOwner
    Task = {1, 2, 3}
    Dependencies <- ForkDependencies
    Priority <- FlatPriority
    Parallelizable <- ForkParallel
    MaximumAttempts <- ForkAttempts
    Policy <- ForkPolicy
    MaximumConcurrency = 2
    RetryMaximumAttempts = 3
    Budget = {1, 4}
    MaxRequests = 2
SYMMETRY Symmetry
INVARIANTS TypeOK OpenAttemptIsCurrent ExecutesOnlyWhileRunning
PROPERTIES RowsFollowLifecycle
