---------------------------- MODULE CaseProtocol ----------------------------
(***************************************************************************)
(* What a case session promises the candidate, whatever happens to the LLM: *)
(* the phases are visited in order; the conversation alternates questions   *)
(* and the replies to them; scores appear only in the last phase, dimension *)
(* by dimension, on a sheet that may be begun anew as long as the session   *)
(* has not ended; an end that comes with scores needs a whole sheet; and    *)
(* after the end nothing is scored.                                         *)
(***************************************************************************)
EXTENDS Naturals, Sequences

CONSTANTS NPhases, Dims, Requests

VARIABLES at, log, sheet, ended, shown

Init == at = 0 /\ log = <<>> /\ sheet = <<>> /\ ended = FALSE /\ shown = FALSE

AtLast == at = NPhases - 1

NextPhase ==
  /\ ~ended /\ ~AtLast
  /\ at' = at + 1
  /\ UNCHANGED <<log, sheet, ended, shown>>

(* Nobody speaks with one voice twice; talk may go on after the end.        *)
Ask(r) ==
  /\ \A k \in 1 .. Len(log) : log[k].by # r
  /\ log' = Append(log, [role |-> "user", by |-> r])
  /\ UNCHANGED <<at, sheet, ended, shown>>

Answer(r) ==
  /\ log # <<>> /\ log[Len(log)] = [role |-> "user", by |-> r]
  /\ log' = Append(log, [role |-> "assistant", by |-> r])
  /\ UNCHANGED <<at, sheet, ended, shown>>

(* The next dimension, or the first one of another attempt.                 *)
Score ==
  /\ ~ended /\ AtLast
  /\ \/ Len(sheet) < Len(Dims) /\ sheet' = Append(sheet, Dims[Len(sheet) + 1])
     \/ sheet' = <<Dims[1]>>
  /\ UNCHANGED <<at, log, ended, shown>>

End ==
  /\ ~ended /\ AtLast
  /\ ended' = TRUE
  /\ shown' \in BOOLEAN /\ (shown' => sheet = Dims)
  /\ UNCHANGED <<at, log, sheet>>

Next == NextPhase \/ Score \/ End \/ \E r \in Requests : Ask(r) \/ Answer(r)

Spec == Init /\ [][Next]_<<at, log, sheet, ended, shown>>
=============================================================================
