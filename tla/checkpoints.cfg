SPECIFICATION Spec
CONSTANTS
    w1 = w1
    w2 = w2
    Writer = {w1, w2}
    Retain = 3
    MaxSequence = 6
    MaxCorruptions = 2
SYMMETRY Symmetry
INVARIANTS WindowKept IntactIsRecoverable NewestSelected
