---------------------------- MODULE GuessSession ----------------------------
(***************************************************************************)
(* One guesstimate behind the web API: GuessFlow of                         *)
(* app/engine/guess_flow.py, driven by LiveGuessSession of app/main.py.     *)
(*                                                                          *)
(* Steps and segments are the indexes _step_i and _seg_i of the code.  An   *)
(* estimate is abstracted to the segment it is recorded for and the one its *)
(* value is checked against.  An estimate out of step, and a value that     *)
(* float() refuses, change nothing and are left out; so is the reply, which *)
(* only reads.                                                              *)
(***************************************************************************)
EXTENDS Conversation

CONSTANT NSegments   \* len(guess.approach.tree); __init__ refuses an empty tree

ASSUME GuessAssumption == NSegments \in Nat \ {0}

NSteps == 5          \* STEPS: clarify, approach, segmentation, estimation,
Estimation == 3      \*        sanity_check
Sanity == 4

VARIABLES
  step,       \* _step_i; NSteps and above is "complete"
  segment,    \* _seg_i
  estimates,  \* _estimates
  locals      \* the locals of the threads in act and submit_estimate

flowVars == <<step, segment, estimates>>
guessVars == <<pc, talkVars, flowVars, locals, waited>>

GuessLocals ==
  [shown : 0 .. NSegments - 1,   \* act: the segment the value is checked for
   taken : 0 .. NSegments - 1]   \* submit_estimate: the one it is recorded for

GuessPlaces ==
  TalkPlaces \cup
  {"leaving", "submitting", "recording", "counting", "closing"}

GuessInit ==
  /\ TalkInit
  /\ step = 0 /\ segment = 0 /\ estimates = <<>>
  /\ locals = [t \in Threads |-> [shown |-> 0, taken |-> 0]]

(* The segment can be read: _require_estimation passes and the index is one *)
(* of the tree's.                                                           *)
Estimating == step = Estimation /\ segment < NSegments

-----------------------------------------------------------------------------
(* "advance": GuessFlow.advance tests is_complete ...                       *)
AdvanceGuess(t) ==
  /\ pc[t] = "idle"
  /\ step < NSteps
  /\ Goto(t, "leaving")
  /\ UNCHANGED <<talkVars, flowVars, locals>>

(* ... which ends the request with GuessComplete.                           *)
AdvanceRefused(t) ==
  /\ pc[t] = "idle"
  /\ step >= NSteps
  /\ UNCHANGED guessVars

(* Mutant: advance leaves the estimation as any other step.                 *)
LeaveAnyStep(t) ==
  /\ pc[t] = "leaving"
  /\ step' = step + 1
  /\ Goto(t, "idle")
  /\ UNCHANGED <<talkVars, segment, estimates, locals>>

(* ... and then the step, which it leaves unless it is the estimation.  If  *)
(* another thread has completed the session meanwhile, the step is either   *)
(* read as "complete" and left, or its index is past STEPS (IndexError).    *)
LeaveStep(t) ==
  /\ pc[t] = "leaving"
  /\ \/ step # Estimation /\ step' = step + 1
     \/ step = Estimation /\ UNCHANGED step
     \/ step >= NSteps /\ UNCHANGED step
  /\ Goto(t, "idle")
  /\ UNCHANGED <<talkVars, segment, estimates, locals>>

-----------------------------------------------------------------------------
(* "estimate": act captures the segment, to check the value against.        *)
Estimate(t) ==
  /\ pc[t] = "idle"
  /\ Estimating
  /\ locals' = [locals EXCEPT ![t].shown = segment]
  /\ Goto(t, "submitting")
  /\ UNCHANGED <<talkVars, flowVars>>

(* submit_estimate reads the segment again ...                              *)
TakeSegment(t) ==
  /\ pc[t] = "submitting"
  /\ IF Estimating
       THEN /\ locals' = [locals EXCEPT ![t].taken = segment]
            /\ Goto(t, "recording")
       ELSE UNCHANGED locals /\ Goto(t, "idle")
  /\ UNCHANGED <<talkVars, flowVars>>

(* ... appends the estimate ...                                             *)
RecordEstimate(t) ==
  /\ pc[t] = "recording"
  /\ estimates' = Append(estimates, [segment |-> locals[t].taken,
                                     shown   |-> locals[t].shown])
  /\ Goto(t, "counting")
  /\ UNCHANGED <<talkVars, step, segment, locals>>

(* Mutant: the segment is not counted, and would be asked again.            *)
CountNoSegment(t) ==
  /\ pc[t] = "counting"
  /\ Len(estimates) <= NSegments
  /\ UNCHANGED segment
  /\ Goto(t, IF Len(estimates) >= NSegments THEN "closing" ELSE "idle")
  /\ UNCHANGED <<talkVars, step, estimates, locals>>

(* ... moves on to the next segment ...                                     *)
CountSegment(t) ==
  /\ pc[t] = "counting"
  /\ segment' = segment + 1
  /\ Goto(t, IF segment + 1 >= NSegments THEN "closing" ELSE "idle")
  /\ UNCHANGED <<talkVars, step, estimates, locals>>

(* ... and after the last one sets the step.                                *)
CloseEstimation(t) ==
  /\ pc[t] = "closing"
  /\ step' = Sanity
  /\ Goto(t, "idle")
  /\ UNCHANGED <<talkVars, segment, estimates, locals>>

-----------------------------------------------------------------------------
GuessStep(t) ==
  \/ AdvanceGuess(t) \/ AdvanceRefused(t) \/ LeaveStep(t)
  \/ Estimate(t) \/ TakeSegment(t) \/ RecordEstimate(t) \/ CountSegment(t)
  \/ CloseEstimation(t)

(* A message is labelled "complete" whatever the index past the last step.  *)
GuessMessage(t) ==
  /\ \/ SendMessage(t, IF step < NSteps THEN step ELSE NSteps)
     \/ TalkStep(t)
  /\ UNCHANGED <<flowVars, locals>>

GuessNext == \E t \in Threads : GuessStep(t) \/ GuessMessage(t)

GuessSpec == GuessInit /\ [][GuessNext]_guessVars

-----------------------------------------------------------------------------
(* Types.  The session of app/main.py keeps indexes, never a missing step.  *)
GuessTypeOK ==
  /\ pc \in [Threads -> GuessPlaces]
  /\ TalkTypeOK
  /\ step \in Nat /\ segment \in Nat
  /\ estimates \in
       Seq([segment : 0 .. NSegments - 1, shown : 0 .. NSegments - 1])
  /\ locals \in [Threads -> GuessLocals]
  /\ waited \in BOOLEAN

(* Whatever the interleaving, advance, submit_estimate and the jump to the  *)
(* sanity check never leave the estimation with fewer estimates than the    *)
(* tree has segments.                                                       *)
EstimationNotSkipped == step > Estimation => Len(estimates) >= NSegments

(* For a user who has waited: submit_estimate walks the tree, so estimate k *)
(* is of segment k, act checks it against that segment, and there is no     *)
(* other.                                                                   *)
TreeWalkedInOrder ==
  waited =>
    /\ Len(estimates) <= NSegments
    /\ \A k \in 1 .. Len(estimates) :
         estimates[k].segment = k - 1 /\ estimates[k].shown = k - 1
=============================================================================
