------------------------- MODULE MCContextAssembly -------------------------
EXTENDS ContextAssembly

CONSTANTS w1, w2

Symmetry == Permutations(Worker)
=============================================================================
