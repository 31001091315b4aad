----------------------------- MODULE MCEventLog -----------------------------
EXTENDS EventLog, TLC

CONSTANTS p1, p2, c1, c2

Symmetry == Permutations(Publisher) \cup Permutations(Compactor)
=============================================================================
