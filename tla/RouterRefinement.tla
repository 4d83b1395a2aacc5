-------------------------- MODULE RouterRefinement --------------------------
(* Router implements TurnService.  Trying, backing off and failing over are *)
(* invisible; an error the router does not classify fails an open turn and  *)
(* cuts a streaming one.                                                    *)
EXTENDS Router

Outcome(t) ==
  CASE stage[t] \in {"idle", "calling", "backing_off"} -> "open"
    [] stage[t] = "serving" -> "streaming"
    [] stage[t] = "served"  -> "whole"
    [] stage[t] \in {"broken", "dropped"} /\ record[t] # 0 -> "cut"
    [] OTHER -> "failed"

Service == INSTANCE TurnService WITH
  Permitted <- Eligible,
  outcome   <- [t \in Turns |-> Outcome(t)],
  owner     <- [t \in Turns |-> {record[t]} \ {0}]

(* The router keeps the promise its callers rely on.                        *)
ImplementsTurnService == Service!Spec
=============================================================================
