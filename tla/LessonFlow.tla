----------------------------- MODULE LessonFlow -----------------------------
(***************************************************************************)
(* The lesson state machine, class LessonFlow of app/engine/lesson_flow.py, *)
(* and what app/engine/progress.py makes of a lesson's row.  The module has *)
(* no behaviour of its own: LessonSession (the web) and Terminal (the       *)
(* command line) drive it.  Sections and questions are indexes, as in the   *)
(* code; their texts are left out.                                          *)
(***************************************************************************)
EXTENDS Naturals, Sequences, FiniteSets

CONSTANTS
  NSections,   \* len(lesson.sections)
  NQuiz        \* len(lesson.quiz)

(* __init__ refuses a lesson without sections.                              *)
ASSUME LessonAssumption ==
  /\ NSections \in Nat \ {0}
  /\ NQuiz \in Nat

Teaching == 0
Quiz == 1
Complete == 2

VARIABLES
  freeForm,  \* the lesson's questions without options, which need a grader:
             \* chosen with the lesson, and never changed
  stage,     \* _stage, in the order of the lesson
  section,   \* _section_i
  question,  \* _quiz_i
  correct,   \* _quiz_correct
  answers,   \* history: each answer counted, with the question it was graded
             \* for, the question the user was answering, and the verdict
  ended      \* has the lesson's row of table sessions an ended_at?

AnswerRow == [item : 0 .. NQuiz - 1, seen : 0 .. NQuiz, right : BOOLEAN]

lessonVars == <<freeForm, stage, section, question, correct, answers, ended>>

LessonInit ==
  /\ freeForm \in SUBSET (0 .. NQuiz - 1)
  /\ stage = Teaching
  /\ section = 0 /\ question = 0 /\ correct = 0
  /\ answers = <<>>
  /\ ended = FALSE

(* advance_section: is there another section to move to? ...                *)
MoreSections == section < NSections - 1

(* ... then it is opened ...                                                *)
OpenSection ==
  /\ section' = section + 1
  /\ UNCHANGED <<freeForm, stage, question, correct, answers, ended>>

(* ... or else the quiz, if there is one.                                   *)
CloseTeaching ==
  /\ stage' = IF NQuiz > 0 THEN Quiz ELSE Complete
  /\ UNCHANGED <<freeForm, section, question, correct, answers, ended>>

(* There is a current question: _require and the index of the quiz pass.    *)
Asking == stage = Quiz /\ question < NQuiz

(* Mutant: every answer counts.                                             *)
CountEveryAnswer(item, seen, right) ==
  /\ correct' = correct + 1
  /\ question' = question + 1
  /\ answers' = Append(answers, [item |-> item, seen |-> seen, right |-> right])
  /\ UNCHANGED <<freeForm, stage, section, ended>>

(* answer, once the item is graded: the two counters.                       *)
CountAnswer(item, seen, right) ==
  /\ correct' = IF right THEN correct + 1 ELSE correct
  /\ question' = question + 1
  /\ answers' = Append(answers, [item |-> item, seen |-> seen, right |-> right])
  /\ UNCHANGED <<freeForm, stage, section, ended>>

(* A mutant: the quiz is over one question early.                           *)
LastQuestionEarly == question + 2 >= NQuiz

(* answer: was the question just counted the last one?                      *)
LastQuestion == question + 1 >= NQuiz

(* answer, after the last question.                                         *)
Finish ==
  /\ stage' = Complete
  /\ UNCHANGED <<freeForm, section, question, correct, answers, ended>>

(* build_coverage counts the concepts of the lesson as taught.              *)
Taught == ended

-----------------------------------------------------------------------------
LessonTypeOK ==
  /\ freeForm \subseteq 0 .. NQuiz - 1
  /\ stage \in {Teaching, Quiz, Complete}
  /\ section \in Nat /\ question \in Nat /\ correct \in Nat
  /\ answers \in Seq(AnswerRow)
  /\ ended \in BOOLEAN

(* Of a user who has waited: the quiz asks each question once, in order,    *)
(* grades the one on the page, and its score is the number of right ones.   *)
QuizGradedOnce ==
  /\ Len(answers) <= NQuiz
  /\ \A k \in 1 .. Len(answers) :
       answers[k].item = k - 1 /\ answers[k].seen = k - 1
  /\ correct = Cardinality({k \in 1 .. Len(answers) : answers[k].right})

(* A lesson is complete only in the last section, and after as many answers *)
(* as the quiz has questions ...                                            *)
CompletionCounted ==
  stage = Complete => section >= NSections - 1 /\ Len(answers) >= NQuiz

(* ... which are answers to all of them.                                    *)
EveryQuestionAnswered ==
  stage = Complete =>
    \A q \in 0 .. NQuiz - 1 : \E k \in 1 .. Len(answers) : answers[k].item = q
=============================================================================
