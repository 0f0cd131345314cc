-------------------------- MODULE MCCircularQueue --------------------------
EXTENDS CircularQueue, TLC

Symmetry == Permutations(Threads) \cup Permutations(Values)
=============================================================================
