---------------------------- MODULE MCExercises ----------------------------
EXTENDS Exercises

MCStamps == {<<26000, 4711>>}
=============================================================================
