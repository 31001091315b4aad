SPECIFICATION Spec
CONSTANTS
    w1 = w1
    w2 = w2
    None = None
    Worker = {w1, w2}
    NumPaths = 1
    Sensitive = {1}
    DriftPolicies = {"FAIL", "REINDEX"}
    MaxEdits = 1
    MaxResumes = 1
SYMMETRY Symmetry
CHECK_DEADLOCK FALSE
INVARIANTS EvidenceIsTrue WritesAgree ChangeIsIndexedAndTested SnapshotsResolve 
