SPECIFICATION Spec
CONSTANTS
    w1 = w1
    w2 = w2
    w3 = w3
    c1 = c1
    c2 = c2
    Worker = {w1, w2}
    Client = {c1}
    NoOwner = NoOwner
    Task = {1, 2}
    Dependencies <- ChainDependencies
    Priority <- FlatPriority
    Parallelizable <- Serial
    MaximumAttempts <- OneAttempt
    Policy <- ChainPolicy
    MaximumConcurrency = 1
    RetryMaximumAttempts = 3
    Budget = {3}
    MaxRequests = 1
SYMMETRY Symmetry
INVARIANTS CompletedMeansDone CancelledMeansSettled DependenciesFirst
