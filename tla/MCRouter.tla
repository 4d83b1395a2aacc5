------------------------------ MODULE MCRouter ------------------------------
(* Router for TLC, with the symmetry of the turns.                          *)
EXTENDS RouterRefinement, TLC

TurnSymmetry == Permutations(Turns)
=============================================================================
