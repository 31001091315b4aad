SPECIFICATION Spec
CONSTANTS
    p1 = p1
    p2 = p2
    c1 = c1
    c2 = c2
    Publisher = {p1, p2}
    Compactor = {c1, c2}
    MaxEvents = 3
    MaxAttempts = 2
SYMMETRY Symmetry
CHECK_DEADLOCK FALSE
INVARIANTS PlacedOnce CausalOrder DeletionsAccounted
