---------------------------- MODULE MCWorkerRun ----------------------------
EXTENDS WorkerRun, TLC

CONSTANTS w1, w2

Symmetry == Permutations(Worker)
=============================================================================
