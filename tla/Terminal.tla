------------------------------ MODULE Terminal ------------------------------
(***************************************************************************)
(* The command line, app/cli.py: one process, one command, one line read at *)
(* a time.  main runs a case (run_case over CaseFlow), a lesson (run_lesson *)
(* over LessonFlow) or a sprint of drills (run_sprint), and whatever leaves *)
(* a case or a lesson, its finally clause ends the session's row.           *)
(***************************************************************************)
EXTENDS CaseFlow, LessonFlow

CONSTANTS
  NDims,      \* the dimensions of a scorecard
  NDrills,    \* the drills of a sprint ("-n")
  MaxLines    \* no further message or question is typed (a bound of the model)

ASSUME TerminalAssumption ==
  /\ NDims \in Nat /\ NDrills \in Nat /\ MaxLines \in Nat
  /\ Requests = 1 .. MaxLines

VARIABLES
  command,   \* what argv asks for: "case", "lesson" or "drills"
  at,        \* where that command is
  line,      \* the messages typed so far; a turn is named by its message
  turns,     \* the session's rows of table turns
  card,      \* its rows of table scorecards
  coached,   \* history: the phases whose model approach was shown
  shown,     \* has the model answer been shown?
  posed,     \* the drills answered
  recorded   \* is there a row of the sprint in table drill_results?

ownVars == <<at, line, turns, card, coached, shown, posed, recorded>>
vars == <<command, flowVars, lessonVars, ownVars>>
caseOnly == <<command, phase, attempted, unlocked, hints, timings, card, coached,
              shown, posed, recorded>>

Prompts == {"phase", "teaching", "quiz", "drill"}
Calls == {"reply", "asking", "answering", "scoring"}
Places == Prompts \cup Calls \cup {"storing", "revealing", "leaving", "over"}

Init ==
  /\ FlowInit /\ LessonInit
  /\ command \in {"case", "lesson", "drills"}
  /\ at = CASE command = "case" -> "phase"
            [] command = "lesson" -> "teaching"
            [] command = "drills" -> IF NDrills > 0 THEN "drill" ELSE "storing"
  /\ line = 0 /\ turns = <<>> /\ card = <<>>
  /\ coached = {} /\ shown = FALSE
  /\ posed = 0 /\ recorded = FALSE

Goes(place) == at' = place

(* The label of a row: the name of the case's phase, the heading of the     *)
(* lesson's section, or "quiz".                                             *)
Under == IF command = "case" THEN phase
         ELSE IF stage = Quiz THEN NSections ELSE section

Persist(role, by) == turns' = Append(turns, [role |-> role, by |-> by, under |-> Under])

-----------------------------------------------------------------------------
(* _phase_loop: a message, which is recorded and stored ...                 *)
Say ==
  /\ at = "phase" /\ line < MaxLines
  /\ line' = line + 1
  /\ RecordTurn("user", line') /\ Persist("user", line')
  /\ Goes("reply")
  /\ UNCHANGED <<command, phase, unlocked, hints, timings, lessonVars, card, coached,
                 shown, posed, recorded>>

(* ... before the reply is asked for.                                       *)
Reply ==
  /\ at = "reply"
  /\ RecordTurn("assistant", line) /\ Persist("assistant", line)
  /\ Goes("phase")
  /\ UNCHANGED <<command, phase, unlocked, hints, timings, lessonVars, line, card,
                 coached, shown, posed, recorded>>

(* "/reveal": otherwise CoachError, and its message is shown instead.       *)
CoachReveal ==
  /\ at = "phase" /\ MayReveal
  /\ coached' = coached \cup {phase}
  /\ UNCHANGED <<command, flowVars, lessonVars, at, line, turns, card, shown, posed,
                 recorded>>

(* "/exhibit": any exhibit of the case, whatever its condition.             *)
ShowExhibit ==
  /\ at = "phase"
  /\ \E e \in Exhibits : UnlockExhibit(e)
  /\ UNCHANGED <<command, phase, attempted, hints, timings, transcript, lessonVars,
                 ownVars>>

(* "/next": run_case scores the case after its last phase, whose time is    *)
(* not taken, and otherwise advances.                                       *)
NextPhase ==
  /\ at = "phase"
  /\ IF IsTerminal
       THEN /\ Goes("scoring")
            /\ UNCHANGED flowVars
       ELSE /\ ClosePhase /\ EnterNextPhase
            /\ unlocked' = unlocked \cup {e \in Exhibits : OpensAt[e] = phase'}
            /\ UNCHANGED <<hints, transcript, at>>
  /\ UNCHANGED <<command, lessonVars, line, turns, card, coached, shown, posed,
                 recorded>>

(* _end_feedback: a scorecard, or none when its JSON cannot be read.        *)
Score ==
  /\ at = "scoring"
  /\ \E parsed \in BOOLEAN : Goes(IF parsed /\ NDims > 0 THEN "storing" ELSE "revealing")
  /\ UNCHANGED <<command, flowVars, lessonVars, line, turns, card, coached, shown,
                 posed, recorded>>

(* persist_scorecard: a row, and a commit, per dimension, after the scores  *)
(* have been printed.                                                       *)
StoreScore ==
  /\ at = "storing" /\ command = "case"
  /\ card' = Append(card, Len(card) + 1)
  /\ Goes(IF Len(card') = NDims THEN "revealing" ELSE "storing")
  /\ UNCHANGED <<command, flowVars, lessonVars, line, turns, coached, shown, posed,
                 recorded>>

(* Before the first row assemble_feedback raises if a rubric has no         *)
(* anchors; and evidence that cannot be joined raises between two rows.     *)
ResultsFail ==
  /\ at = "storing" /\ command = "case"
  /\ Goes("leaving")
  /\ UNCHANGED <<caseOnly, transcript, lessonVars, line, turns>>

ShowAnswer ==
  /\ at = "revealing"
  /\ shown' = TRUE
  /\ Goes("leaving")
  /\ UNCHANGED <<command, flowVars, lessonVars, line, turns, card, coached, posed,
                 recorded>>

-----------------------------------------------------------------------------
(* The loops of run_lesson follow the stage of the flow.                    *)
NextLoop ==
  Goes(CASE stage' = Teaching -> "teaching"
         [] stage' = Quiz -> "quiz"
         [] stage' = Complete -> "leaving")

(* _teach_loop: a question about the section ...                            *)
Ask ==
  /\ at = "teaching" /\ line < MaxLines
  /\ line' = line + 1
  /\ transcript' = Append(transcript, [role |-> "user", by |-> line'])
  /\ Persist("user", line')
  /\ Goes("asking")
  /\ UNCHANGED <<caseOnly, lessonVars>>

(* ... and its answer.                                                      *)
Explain ==
  /\ at = "asking"
  /\ transcript' = Append(transcript, [role |-> "assistant", by |-> line])
  /\ Persist("assistant", line)
  /\ Goes("teaching")
  /\ UNCHANGED <<caseOnly, lessonVars, line>>

(* "/next"                                                                  *)
NextSection ==
  /\ at = "teaching"
  /\ IF MoreSections THEN OpenSection ELSE CloseTeaching
  /\ NextLoop
  /\ UNCHANGED <<caseOnly, transcript, line, turns>>

(* The quiz loop stores the line before it is graded ...                    *)
TypeAnswer ==
  /\ at = "quiz"
  /\ Persist("user", 0)
  /\ Goes("answering")
  /\ UNCHANGED <<caseOnly, transcript, lessonVars, line>>

(* ... with answer, which finishes the lesson after the last question.      *)
GradeAnswer ==
  /\ at = "answering"
  /\ \E right \in BOOLEAN :
       /\ correct' = IF right THEN correct + 1 ELSE correct
       /\ answers' = Append(answers, [item |-> question, seen |-> question,
                                      right |-> right])
  /\ question' = question + 1
  /\ stage' = IF LastQuestion THEN Complete ELSE stage
  /\ NextLoop
  /\ UNCHANGED <<caseOnly, transcript, freeForm, section, ended, line, turns>>

-----------------------------------------------------------------------------
(* run_sprint: a line that is no number counts as a wrong answer.           *)
AnswerDrill ==
  /\ at = "drill"
  /\ posed' = posed + 1
  /\ Goes(IF posed' = NDrills THEN "storing" ELSE "drill")
  /\ UNCHANGED <<command, flowVars, lessonVars, line, turns, card, coached, shown,
                 recorded>>

RecordSprint ==
  /\ at = "storing" /\ command = "drills"
  /\ recorded' = TRUE
  /\ Goes("leaving")
  /\ UNCHANGED <<command, flowVars, lessonVars, line, turns, card, coached, shown, posed>>

-----------------------------------------------------------------------------
(* The calls that may fail: the grader's only for a free-form question.     *)
Fallible == at \in Calls /\ (at = "answering" => question \in freeForm)

(* Mutants: a question that could not be graded is taken as answered; the   *)
(* reply that broke off is kept in the transcript.                          *)
CallFailsSkip ==
  /\ Fallible
  /\ Goes(IF at = "answering" THEN "quiz" ELSE "leaving")
  /\ question' = IF at = "answering" THEN question + 1 ELSE question
  /\ UNCHANGED <<caseOnly, transcript, freeForm, stage, section, correct, answers, ended,
                 line, turns>>
CallFailsHeard ==
  /\ Fallible
  /\ Goes("leaving")
  /\ transcript' = Append(transcript, [role |-> "assistant", by |-> line])
  /\ UNCHANGED <<caseOnly, lessonVars, line, turns>>

(* The LLM call of a reply, of the grader or of the scoring fails, or the   *)
(* user interrupts it: the exception leaves the command.                    *)
CallFails ==
  /\ Fallible
  /\ Goes("leaving")
  /\ UNCHANGED <<caseOnly, transcript, lessonVars, line, turns>>

(* "/quit", the end of the input, or an interrupt, at the prompt or between *)
(* two rows.                                                                *)
Quit ==
  /\ at \in Prompts \/ at = "storing"
  /\ Goes("leaving")
  /\ UNCHANGED <<caseOnly, transcript, lessonVars, line, turns>>

(* The finally clauses: session.end() and store.close(); a sprint has no    *)
(* session.                                                                 *)
EndSession ==
  /\ at = "leaving"
  /\ ended' = (command # "drills")
  /\ Goes("over")
  /\ UNCHANGED <<caseOnly, transcript, freeForm, stage, section, question, correct,
                 answers, line, turns>>

(* The process has exited.                                                  *)
Over == at = "over" /\ UNCHANGED vars

Next ==
  \/ Say \/ Reply \/ CoachReveal \/ ShowExhibit \/ NextPhase
  \/ Score \/ StoreScore \/ ResultsFail \/ ShowAnswer
  \/ Ask \/ Explain \/ NextSection \/ TypeAnswer \/ GradeAnswer
  \/ AnswerDrill \/ RecordSprint
  \/ CallFails \/ Quit \/ EndSession \/ Over

Spec == Init /\ [][Next]_vars

-----------------------------------------------------------------------------
TurnRow == [role : {"user", "assistant"}, by : Nat, under : Nat]

(* Types; every question graded is one of the quiz.                         *)
TypeOK ==
  /\ FlowTypeOK /\ LessonTypeOK
  /\ command \in {"case", "lesson", "drills"}
  /\ at \in Places
  /\ line \in 0 .. MaxLines
  /\ turns \in Seq(TurnRow)
  /\ card \in Seq(1 .. NDims)
  /\ coached \subseteq Coached
  /\ shown \in BOOLEAN /\ recorded \in BOOLEAN
  /\ posed \in 0 .. NDrills

(* _phase_loop and _teach_loop keep two copies of the conversation. Through *)
(* calls that fail and commands in between, the stored one is the one the   *)
(* LLM sees, followed by the answers to the quiz; each reply is filed under *)
(* the phase or section of its message, and rows never go back to one.      *)
StoredAsSaid ==
  /\ \A k \in 1 .. Len(transcript) :
       k \in DOMAIN turns /\ transcript[k] = [role |-> turns[k].role, by |-> turns[k].by]
  /\ \A k \in Len(transcript) + 1 .. Len(turns) : turns[k].under = NSections
  /\ \A k \in 2 .. Len(turns) :
       /\ turns[k - 1].under <= turns[k].under
       /\ turns[k].role = "assistant" =>
            turns[k - 1] = [turns[k] EXCEPT !.role = "user"]

(* The order explain, attempt, reveal at the command line: the model        *)
(* approach of a phase is shown only when a message is stored under it.     *)
RevealIsEarned ==
  \A p \in coached :
    \E k \in DOMAIN turns : turns[k].role = "user" /\ turns[k].under = p

(* What the commands leave is whole: the model answer is shown after every  *)
(* phase, each but the last timed once and in order, with all of the        *)
(* scorecard stored or none of it; a sprint is recorded after its last      *)
(* drill.  (A case that is left between two rows shows no answer; its       *)
(* session is ended all the same, with a part of a card.)                   *)
ResultsAreWhole ==
  /\ shown =>
       /\ phase = LastPhase /\ Len(timings) = LastPhase
       /\ \A k \in 1 .. Len(timings) : timings[k].phase = k - 1
       /\ Len(card) \in {0, NDims}
  /\ recorded => posed = NDrills

(* What the user takes away from a command, however it was left: reveals    *)
(* that were earned, results that are whole, a quiz graded once, and no     *)
(* lesson complete with a section or a question left out.                   *)
OutcomeIsSound ==
  /\ RevealIsEarned /\ ResultsAreWhole
  /\ QuizGradedOnce /\ CompletionCounted /\ EveryQuestionAnswered
=============================================================================
