----------------------------- MODULE MCTerminal -----------------------------
(* The instance of Terminal that TLC checks: the exhibit data opens with the *)
(* second phase, map when the user asks for it.                             *)
EXTENDS TerminalRefinement, TLC

CONSTANTS data, map

MCOpensAt == (data :> 1) @@ (map :> NPhases)
=============================================================================
