---------------------------- MODULE MCToolJournal ----------------------------
EXTENDS ToolJournal, TLC

CONSTANTS e1, e2, e3, r1, c1, c2

Symmetry == Permutations(Executor)
=============================================================================
