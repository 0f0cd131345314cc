---------------------------- MODULE MCSignalSlot ----------------------------
EXTENDS SignalSlot, TLC

Symmetry == Permutations(Fns)
=============================================================================
