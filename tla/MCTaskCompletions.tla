-------------------------- MODULE MCTaskCompletions --------------------------
EXTENDS TaskCompletions, TLC

Symmetry == Permutations(Tasks)
=============================================================================
