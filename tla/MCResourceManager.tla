------------------------- MODULE MCResourceManager -------------------------
(* Model checking of ResourceManager: identical clients are interchangeable. *)
EXTENDS ResourceManager, TLC

Symmetry == Permutations(Clients)
=============================================================================
