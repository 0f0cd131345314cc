------------------------------ MODULE MCDemos ------------------------------
EXTENDS Frames

MCPositions == {1, 3}
=============================================================================
