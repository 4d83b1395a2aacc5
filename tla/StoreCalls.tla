----------------------------- MODULE StoreCalls -----------------------------
(***************************************************************************)
(* What the requests of one session can see of add_turn and add_scorecard   *)
(* of app/db/store.py: execute, commit and lastrowid on a connection that   *)
(* all worker threads share.  Module Store has the steps; here a call is    *)
(* two of them, binding its values and running the statement.               *)
(*                                                                          *)
(* A call that no other overlaps inserts its row and returns.  Of two that  *)
(* overlap either may be refused before its row (BEGIN, bind) or after it   *)
(* (COMMIT), and two of one table may insert the values of the later one    *)
(* twice, for they share a prepared statement.  Calls of other sessions     *)
(* are left to modules Store and Engine.                                    *)
(***************************************************************************)
EXTENDS Naturals, Sequences, FiniteSets

VARIABLES
  call,       \* the state of each caller's call: "none" has bound its values,
              \* "alone" has, and met no other call, "crossed" has met one
  bound,      \* the row bound to the prepared statement of each table
  overlapped  \* history: the callers one of whose calls met another

callVars == <<call, bound, overlapped>>

Tables == {"turns", "scorecards"}

NoneBound == [table \in Tables |-> <<>>]

CallsInit(callers) ==
  /\ call = [t \in callers |-> "none"]
  /\ bound = NoneBound
  /\ overlapped = {}

Others(t) == {s \in DOMAIN call \ {t} : call[s] # "none"}

(* Caller t meets the calls that are under way, if there are any; its own   *)
(* is then in state c.                                                      *)
Meets(t, c) ==
  /\ call' = [s \in DOMAIN call |-> IF s = t THEN c
                                    ELSE IF s \in Others(t) THEN "crossed"
                                    ELSE call[s]]
  /\ overlapped' = IF Others(t) = {} THEN overlapped
                                     ELSE overlapped \cup Others(t) \cup {t}

(* The values replace those another caller has bound and not yet used.      *)
BindRow(t, table, row) ==
  /\ call[t] = "none"
  /\ Meets(t, IF Others(t) = {} THEN "alone" ELSE "crossed")
  /\ bound' = [bound EXCEPT ![table] = <<row>>]

(* BEGIN or bind raises, because of a transaction or a statement that       *)
(* another caller has open.                                                 *)
Refused(t) ==
  /\ call[t] = "none" /\ Others(t) # {}
  /\ Meets(t, "none")
  /\ UNCHANGED bound

(* The statement has run, with the values bound by now.  If failed, COMMIT  *)
(* raises: another caller has committed the row already.                    *)
Returns(t, failed) ==
  /\ call[t] # "none"
  /\ failed => call[t] = "crossed"
  /\ call' = [call EXCEPT ![t] = "none"]
  /\ bound' = IF Others(t) = {} THEN NoneBound ELSE bound
  /\ UNCHANGED overlapped

CallsTypeOK(callers, turnRows, cardRows) ==
  /\ call \in [callers -> {"none", "alone", "crossed"}]
  /\ bound.turns \in Seq(turnRows) /\ bound.scorecards \in Seq(cardRows)
  /\ DOMAIN bound = Tables /\ \A table \in Tables : Len(bound[table]) <= 1
  /\ overlapped \subseteq callers
=============================================================================
