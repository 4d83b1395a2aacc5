------------------------------ MODULE CaseFlow ------------------------------
(***************************************************************************)
(* The case state machine, class CaseFlow of app/engine/case_flow.py: the   *)
(* in-memory state of one case and the methods that read and change it.     *)
(* The module has no behaviour of its own; the sessions that drive the flow *)
(* (CaseSession: the web, one thread per request) compose the methods.      *)
(*                                                                          *)
(* Phases are the indexes 0 .. NPhases - 1 of case.phases, as in the code;  *)
(* the texts of prompts, coaching and criteria are left out.  What a turn   *)
(* says is abstracted to the request it came from.                          *)
(***************************************************************************)
EXTENDS Naturals, Sequences

CONSTANTS
  NPhases,    \* len(case.phases)
  Mode,       \* the session's mode: "standard", "guided" or "cold"
  Coached,    \* the phases with a coaching block
  Timed,      \* the phases with a time_budget (only those can be overrun)
  Exhibits,   \* ids of the case's exhibits
  OpensAt,    \* OpensAt[e]: the phase p of e's "phase:<p>" unlock condition,
              \* NPhases when the condition is intent-based
  Requests    \* the requests of the session; a turn is named by its request

(* __init__ refuses a case without phases and guided mode without coaching. *)
ASSUME CaseAssumption ==
  /\ NPhases \in Nat \ {0}
  /\ Mode \in {"standard", "guided", "cold"}
  /\ Coached \subseteq 0 .. NPhases - 1
  /\ Mode = "guided" => Coached # {}
  /\ Timed \subseteq 0 .. NPhases - 1
  /\ OpensAt \in [Exhibits -> 0 .. NPhases]

VARIABLES
  phase,      \* _i
  attempted,  \* _attempted: has the candidate spoken in this phase?
  unlocked,   \* _unlocked: the exhibits shown so far
  hints,      \* _hints_used
  timings,    \* _timings: one entry per phase closed, with its overrun flag
  transcript  \* _transcript: the conversation as the LLM sees it

flowVars == <<phase, attempted, unlocked, hints, timings, transcript>>

LastPhase == NPhases - 1

(* current_phase raises IndexError when the index is past the last phase.   *)
PhaseExists == phase < NPhases

(* Mutant: the last phase is announced one phase early.                     *)
IsTerminalEarly == phase + 1 >= LastPhase

IsTerminal == phase >= LastPhase

FlowInit ==
  /\ phase = 0
  /\ attempted = FALSE
  /\ unlocked = {e \in Exhibits : OpensAt[e] = 0}
  /\ hints = 0
  /\ timings = <<>>
  /\ transcript = <<>>

-----------------------------------------------------------------------------
(* Methods.  Each constrains the variables it assigns and no other.         *)

(* _close_phase: how long the phase took is up to the candidate, so any     *)
(* phase with a budget may turn out to be overrun.                          *)
ClosePhase ==
  \E over \in BOOLEAN :
    /\ over => phase \in Timed
    /\ timings' = Append(timings, [phase |-> phase, over |-> over])

(* overruns: the entries, among the phases closed so far, that ran over     *)
Overruns(closed) == {k \in 1 .. Len(closed) : closed[k].over}

(* Mutant: the attempt of the phase before still counts.                    *)
EnterNextPhaseAttempted == phase' = phase + 1 /\ UNCHANGED attempted

(* The middle of advance: a fresh attempt is required in each phase.        *)
EnterNextPhase ==
  /\ phase' = phase + 1
  /\ attempted' = FALSE

(* Mutant: only the exhibits of the new phase stay open.                    *)
AutoUnlockOnly == unlocked' = {e \in Exhibits : OpensAt[e] = phase}

AutoUnlock == unlocked' = unlocked \cup {e \in Exhibits : OpensAt[e] = phase}

UnlockExhibit(e) == unlocked' = unlocked \cup {e}

(* record_turn: the candidate's turn is their attempt.                      *)
RecordTurn(role, r) ==
  /\ transcript' = Append(transcript, [role |-> role, by |-> r])
  /\ attempted' = (attempted \/ role = "user")

(* hint: the counter goes up before the phase's criteria are read.          *)
HintsAllowed == Mode # "cold"

TakeHint == hints' = hints + 1

(* coach_reveal succeeds only after an attempt (otherwise CoachError), and  *)
(* context("coach") puts the model approach into the coach's prompt under   *)
(* the same condition.                                                      *)
MayReveal == Mode = "guided" /\ phase \in Coached /\ attempted

-----------------------------------------------------------------------------
Turn == [role : {"user", "assistant"}, by : Requests]

FlowTypeOK ==
  /\ phase \in Nat
  /\ attempted \in BOOLEAN
  /\ unlocked \subseteq Exhibits
  /\ hints \in Nat
  /\ timings \in Seq([phase : Nat, over : BOOLEAN])
  /\ transcript \in Seq(Turn)
=============================================================================
