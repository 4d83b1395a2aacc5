--------------------------- MODULE MCCaseSession ---------------------------
(* CaseSession for TLC: the exhibits' unlock conditions and the dimensions. *)
EXTENDS CaseRefinement, TLC

CONSTANTS ex0, ex1, exAsk

(* ex0 opens with the first phase, ex1 with the second, exAsk on request    *)
(* (NPhases stands for an intent-based condition).                          *)
MCOpensAt == [e \in Exhibits |-> CASE e = ex0 -> 0 [] e = ex1 -> 1 [] e = exAsk -> NPhases]

MCDims == <<"structure", "math", "judgment">>
=============================================================================
