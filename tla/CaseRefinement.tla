--------------------------- MODULE CaseRefinement ---------------------------
(* CaseSession implements CaseProtocol when requests do not overlap: the    *)
(* phase, the transcript, the dimensions of the rows that the last attempt  *)
(* to end the case has stored, and the end payload are the protocol's       *)
(* state; every other step is a stutter.                                    *)
EXTENDS CaseSession

(* How many rows the request that stored the last one has stored.           *)
LastRows == IF cards = <<>> THEN 0 ELSE loc[cards[Len(cards)].by].row

Protocol == INSTANCE CaseProtocol WITH
  at    <- phase,
  log   <- transcript,
  sheet <- [k \in 1 .. LastRows |-> cards[Len(cards) - LastRows + k].dim],
  ended <- payload # {},
  shown <- \E p \in payload : p.feedback

(* Used sequentially, a session keeps the protocol.                         *)
ImplementsProtocol == Protocol!Spec
=============================================================================
