------------------------------- MODULE MCLease -------------------------------
EXTENDS Lease, TLC

CONSTANTS w1, w2, w3

Symmetry == Permutations(Worker)
=============================================================================
