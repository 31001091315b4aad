SPECIFICATION Spec
CONSTANTS
    w1 = w1
    w2 = w2
    None = None
    Worker = {w1, w2}
    Available = 9
    CompressionAt = 5
    Reserve = 3
    Minimum = 1
    StateTokens = 1
    NoteTokens = {1, 3}
    HeaderTokens = 1
    MaxTasks = 5
    MaxLoads = 3
SYMMETRY Symmetry
CHECK_DEADLOCK FALSE
INVARIANTS HistoryReachable RunSummaryIsFinal 
