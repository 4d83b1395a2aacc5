------------------------- MODULE TerminalRefinement -------------------------
(* The case of the command line implements CaseProtocol, as the case of the *)
(* web does (CaseRefinement): the rows of the scorecard are the protocol's  *)
(* sheet, and the model answer its end, one with scores if any is stored.   *)
(* A lesson is talk under a case that never leaves its first phase, and a   *)
(* sprint says nothing.                                                     *)
EXTENDS Terminal

Protocol == INSTANCE CaseProtocol WITH
  Dims  <- [d \in 1 .. NDims |-> d],
  at    <- phase,
  log   <- transcript,
  sheet <- card,
  ended <- shown,
  shown <- shown /\ card # <<>>

(* However it is left, a case at the command line keeps the protocol.       *)
ImplementsProtocol == Protocol!Spec
=============================================================================
