--------------------------- MODULE LessonSession ---------------------------
(***************************************************************************)
(* One lesson behind the web API: LiveLessonSession of app/main.py with its *)
(* LessonFlow and its conversation.                                         *)
(*                                                                          *)
(* page is what the browser shows, the state in the last answer it got.     *)
(* Its buttons stay enabled while a request runs (web/app.js), so a second  *)
(* click on an option may reach the server after the first has moved on.    *)
(***************************************************************************)
EXTENDS LessonFlow, Conversation

VARIABLES
  page,   \* the stage and the question on the screen
  loc     \* the locals of the threads in act, advance_section and answer

vars == <<pc, talkVars, lessonVars, page, loc, waited>>

Locals ==
  [seen : 0 .. NQuiz,   \* the question on the screen when the user answered
   more : BOOLEAN,      \* advance_section: section < len(sections) - 1
   item : 0 .. NQuiz]   \* answer: the index of the item being graded

Fresh == [seen |-> 0, more |-> FALSE, item |-> 0]

Places == TalkPlaces \cup {"advancing", "moving", "answering", "asked",
                           "grading", "finishing"}

Init ==
  /\ TalkInit
  /\ LessonInit
  /\ page = [stage |-> Teaching, question |-> 0]
  /\ loc = [t \in Threads |-> Fresh]

(* The answer is rendered; current_section and current_question of state()  *)
(* may be out of range, and the browser then shows what it had.             *)
Respond(t) ==
  /\ Goto(t, "idle")
  /\ loc' = [loc EXCEPT ![t] = Fresh]
  /\ page' = IF \/ stage' = Teaching /\ section' >= NSections
                \/ stage' = Quiz /\ question' >= NQuiz
               THEN page
               ELSE [stage |-> stage',
                     question |-> IF stage' = Quiz THEN question' ELSE 0]

(* An exception: the page is left as it is.                                 *)
Fail(t) ==
  /\ Goto(t, "idle")
  /\ loc' = [loc EXCEPT ![t] = Fresh]
  /\ UNCHANGED <<lessonVars, page>>

-----------------------------------------------------------------------------
(* "advance" on a page of the teaching stage; act looks at the stage ...    *)
Advance(t) ==
  /\ pc[t] = "idle" /\ page.stage = Teaching
  /\ IF stage = Teaching
       THEN Goto(t, "advancing") /\ UNCHANGED <<lessonVars, page, loc>>
       ELSE Respond(t) /\ UNCHANGED lessonVars
  /\ UNCHANGED talkVars

(* ... and so does advance_section, which compares the section ...          *)
CompareSection(t) ==
  /\ pc[t] = "advancing"
  /\ IF stage = Teaching
       THEN /\ loc' = [loc EXCEPT ![t].more = MoreSections]
            /\ Goto(t, "moving")
            /\ UNCHANGED <<lessonVars, page>>
       ELSE Fail(t)
  /\ UNCHANGED talkVars

(* ... and moves on.                                                        *)
LeaveSection(t) ==
  /\ pc[t] = "moving"
  /\ IF loc[t].more THEN OpenSection ELSE CloseTeaching
  /\ Respond(t)
  /\ UNCHANGED talkVars

-----------------------------------------------------------------------------
(* "answer" on a page of the quiz; act looks at the stage ...               *)
Answer(t) ==
  /\ pc[t] = "idle" /\ page.stage = Quiz
  /\ IF stage = Quiz
       THEN /\ loc' = [loc EXCEPT ![t].seen = page.question]
            /\ Goto(t, "answering")
            /\ UNCHANGED <<lessonVars, page>>
       ELSE Respond(t) /\ UNCHANGED lessonVars
  /\ UNCHANGED talkVars

(* ... and reads current_question, for the explanation in its reply ...     *)
ReadQuestion(t) ==
  /\ pc[t] = "answering"
  /\ IF Asking
       THEN Goto(t, "asked") /\ UNCHANGED <<lessonVars, page, loc>>
       ELSE Fail(t)
  /\ UNCHANGED talkVars

(* ... and so does answer ...                                               *)
TakeItem(t) ==
  /\ pc[t] = "asked"
  /\ IF Asking
       THEN /\ loc' = [loc EXCEPT ![t].item = question]
            /\ Goto(t, "grading")
            /\ UNCHANGED <<lessonVars, page>>
       ELSE Fail(t)
  /\ UNCHANGED talkVars

(* A question without options has no grader here: RuntimeError.             *)
NoGrader(t) ==
  /\ pc[t] = "grading" /\ loc[t].item \in freeForm
  /\ Fail(t)
  /\ UNCHANGED talkVars

(* ... which grades the item and counts it ...                              *)
Grade(t) ==
  /\ pc[t] = "grading" /\ loc[t].item \notin freeForm
  /\ \E right \in BOOLEAN : CountAnswer(loc[t].item, loc[t].seen, right)
  /\ IF LastQuestion
       THEN Goto(t, "finishing") /\ UNCHANGED <<page, loc>>
       ELSE Respond(t)
  /\ UNCHANGED talkVars

(* ... and after the last question completes the lesson.                    *)
FinishQuiz(t) ==
  /\ pc[t] = "finishing"
  /\ Finish
  /\ Respond(t)
  /\ UNCHANGED talkVars

-----------------------------------------------------------------------------
(* The page hides the composer in the quiz and after it.                    *)
Message(t) ==
  /\ \/ page.stage = Teaching /\ SendMessage(t, stage)
     \/ TalkStep(t)
  /\ UNCHANGED <<lessonVars, page, loc>>

ActStep(t) ==
  \/ Advance(t) \/ CompareSection(t) \/ LeaveSection(t)
  \/ Answer(t) \/ ReadQuestion(t) \/ TakeItem(t) \/ NoGrader(t) \/ Grade(t)
  \/ FinishQuiz(t)

(* A page of a complete lesson has no button.                               *)
Over == Quiet /\ page.stage = Complete /\ UNCHANGED vars

Next == Over \/ \E t \in Threads : ActStep(t) \/ Message(t)

Spec == Init /\ [][Next]_vars

-----------------------------------------------------------------------------
(* Types; every question graded is one of the quiz.                         *)
TypeOK ==
  /\ pc \in [Threads -> Places]
  /\ TalkTypeOK
  /\ LessonTypeOK
  /\ page \in [stage : {Teaching, Quiz, Complete}, question : 0 .. NQuiz]
  /\ loc \in [Threads -> Locals]
  /\ waited \in BOOLEAN

(* In spite of answers and advances that overlap, a lesson is complete only *)
(* in the last section and after as many answers as it has questions (two   *)
(* clicks at once may both grade one question and pass over the next); for  *)
(* a user who has waited, every question has been answered.                 *)
CompletionIsWhole == CompletionCounted /\ (waited => EveryQuestionAnswered)

(* The web grades each question once, in order, and the one on the page, as *)
(* long as the user has waited for each answer.                             *)
GradedInTurn == waited => QuizGradedOnce

(* "Quiz -> coverage recorded" (docs/02_ARCHITECTURE.md): once a lesson is  *)
(* complete and nothing is under way, its concepts count as taught.         *)
CompleteIsTaught == stage = Complete /\ Quiet => Taught
=============================================================================
