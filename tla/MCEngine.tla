------------------------------ MODULE MCEngine ------------------------------
(* The instance of Engine for TLC.                                          *)
EXTENDS Engine, TLC
CONSTANTS t1, t2
Symmetry == Permutations({t1, t2})
=============================================================================
