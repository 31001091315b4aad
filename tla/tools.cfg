SPECIFICATION Spec
CONSTANTS
    e1 = e1
    e2 = e2
    e3 = e3
    r1 = r1
    c1 = c1
    c2 = c2
    Executor = {e1, e2}
    Reconciler = {r1}
    Call = {c1, c2}
    RetrySafe = {c1}
    Observable = {c1, c2}
    MaxAttempts = 2
SYMMETRY Symmetry
INVARIANTS AttemptCoversEffects NonRetrySafeOnce ResultIsObserved
PROPERTY CompletedStaysCompleted
