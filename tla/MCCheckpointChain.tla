------------------------- MODULE MCCheckpointChain -------------------------
EXTENDS CheckpointChain, TLC

CONSTANTS w1, w2

Symmetry == Permutations(Writer)
=============================================================================
