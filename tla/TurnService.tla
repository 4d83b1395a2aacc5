----------------------------- MODULE TurnService -----------------------------
(***************************************************************************)
(* What the engine may rely on when it asks for a turn (02_ARCHITECTURE §3: *)
(* callers never learn about providers): the turn is open until exactly one *)
(* permitted provider takes it, which then owns the reply to its end, or    *)
(* until it fails.  Nothing reopens a turn.                                 *)
(***************************************************************************)
CONSTANTS Turns, Permitted

VARIABLES outcome,  \* of each turn: "open", "streaming", "whole", "cut", "failed"
          owner     \* the providers that took the turn: at most one

Init ==
  /\ outcome = [t \in Turns |-> "open"]
  /\ owner = [t \in Turns |-> {}]

Take(t, p, o) ==
  /\ outcome[t] = "open"
  /\ outcome' = [outcome EXCEPT ![t] = o]
  /\ owner' = [owner EXCEPT ![t] = {p}]

Finish(t) ==
  /\ outcome[t] = "streaming"
  /\ \E o \in {"whole", "cut"} : outcome' = [outcome EXCEPT ![t] = o]
  /\ UNCHANGED owner

Fail(t) ==
  /\ outcome[t] = "open"
  /\ outcome' = [outcome EXCEPT ![t] = "failed"]
  /\ UNCHANGED owner

Next ==
  \E t \in Turns :
    \/ \E p \in Permitted : Take(t, p, "streaming") \/ Take(t, p, "whole")
    \/ Finish(t)
    \/ Fail(t)

Spec == Init /\ [][Next]_<<outcome, owner>>
=============================================================================
