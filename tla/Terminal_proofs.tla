-------------------------- MODULE Terminal_proofs --------------------------
(***************************************************************************)
(* Proofs about Terminal, for every case, lesson, rubric and sprint: what   *)
(* the command line stores and shows, wherever a call fails or the user     *)
(* leaves.  The parts of the inductive invariant follow the parts of the    *)
(* state: the place in the program, the phases and results of a case, the   *)
(* quiz, the two copies of the conversation, and the reveals.               *)
(***************************************************************************)
EXTENDS TerminalRefinement, FiniteSetTheorems, TLAPS

(* Each loop runs under its own command, and a result is stored only where  *)
(* there is one left to store.                                              *)
PlaceInv ==
  /\ at \in {"phase", "reply", "scoring", "revealing"} => command = "case"
  /\ at \in {"teaching", "asking"} => command = "lesson" /\ stage = Teaching
  /\ at \in {"quiz", "answering"} => command = "lesson" /\ stage = Quiz
  /\ at = "drill" => command = "drills" /\ posed < NDrills
  /\ at = "storing" => \/ command = "case" /\ Len(card) < NDims
                       \/ command = "drills" /\ posed = NDrills
  /\ command # "lesson" => stage = Teaching
  /\ recorded => posed = NDrills

(* Each phase left has its time, in order; the case is scored in its last,  *)
(* and the answer is the last thing it shows.                               *)
CaseInv ==
  /\ phase <= LastPhase
  /\ Len(timings) = phase
  /\ \A k \in 1 .. Len(timings) : timings[k].phase = k - 1
  /\ command = "case" /\ at \in {"scoring", "storing", "revealing"}
       => phase = LastPhase
  /\ shown => /\ phase = LastPhase /\ Len(card) \in {0, NDims}
              /\ at \in {"leaving", "over"}
  /\ at \in {"phase", "reply", "scoring"} => card = <<>>
  /\ at = "revealing" => Len(card) \in {0, NDims}

(* The question is the number of answers; the quiz begins after the last    *)
(* section and ends after its last question.                                *)
QuizInv ==
  /\ section < NSections
  /\ question = Len(answers) /\ question <= NQuiz
  /\ QuizGradedOnce
  /\ stage = Teaching => question = 0
  /\ stage = Quiz => question < NQuiz
  /\ stage # Teaching => section = NSections - 1
  /\ stage = Complete => question = NQuiz

(* No row is filed under more than what was reached.                        *)
Reached == IF command = "case" THEN phase
           ELSE IF stage = Teaching THEN section ELSE NSections

(* The copies differ by the answers to the quiz only; while a reply is on   *)
(* its way, the last row is its message.                                    *)
SaidInv ==
  /\ StoredAsSaid
  /\ Len(transcript) <= Len(turns)
  /\ stage = Teaching => Len(transcript) = Len(turns)
  /\ \A k \in 1 .. Len(turns) : turns[k].under <= Reached
  /\ at \in {"reply", "asking"} =>
       /\ line > 0 /\ Len(turns) > 0
       /\ turns[Len(turns)] = [role |-> "user", by |-> line, under |-> Under]

(* An attempt is a message stored under the phase.                          *)
Earned(p) == \E k \in 1 .. Len(turns) : turns[k].role = "user" /\ turns[k].under = p

EarnedInv == (\A p \in coached : Earned(p)) /\ (attempted => Earned(phase))

IInv == TypeOK /\ PlaceInv /\ CaseInv /\ QuizInv /\ SaidInv /\ EarnedInv

(* The stages are three different numbers.                                  *)
LEMMA Stages == Teaching # Quiz /\ Teaching # Complete /\ Quiz # Complete
BY DEF Teaching, Quiz, Complete

-----------------------------------------------------------------------------
(* The program starts in the loop of its command, with nothing stored.      *)
LEMMA TerminalInit == Init => IInv
<1> SUFFICES ASSUME Init PROVE IInv OBVIOUS
<1> USE CaseAssumption, LessonAssumption, TerminalAssumption, Stages
<1>1. TypeOK
  <2>1. FlowInit /\ LessonInit BY DEF Init
  <2>2. FlowTypeOK
    <3>1. timings \in Seq([phase : Nat, over : BOOLEAN]) BY <2>1 DEF FlowInit
    <3>2. transcript \in Seq(Turn) BY <2>1 DEF FlowInit
    <3> QED BY <2>1, <3>1, <3>2 DEF FlowInit, FlowTypeOK
  <2>3. LessonTypeOK
    <3>1. /\ freeForm \subseteq 0 .. NQuiz - 1
          /\ section \in Nat /\ question \in Nat /\ correct \in Nat
      BY <2>1 DEF LessonInit
    <3>2. answers \in Seq(AnswerRow) BY <2>1 DEF LessonInit
    <3>3. stage \in {Teaching, Quiz, Complete} /\ ended \in BOOLEAN
      BY <2>1 DEF LessonInit
    <3> QED BY <3>1, <3>2, <3>3 DEF LessonTypeOK
  <2>4. at \in Places
    <3>1. \/ command = "case" /\ at = "phase"
          \/ command = "lesson" /\ at = "teaching"
          \/ command = "drills" /\ at \in {"drill", "storing"}
      BY DEF Init
    <3> QED BY <3>1 DEF Places, Prompts, Calls
  <2>5. command \in {"case", "lesson", "drills"} /\ coached = {} BY DEF Init
  <2>6. line \in 0 .. MaxLines /\ posed \in 0 .. NDrills BY DEF Init
  <2>7. turns \in Seq(TurnRow) /\ card \in Seq(1 .. NDims) BY DEF Init
  <2>8. shown \in BOOLEAN /\ recorded \in BOOLEAN BY DEF Init
  <2> QED BY <2>2, <2>3, <2>4, <2>5, <2>6, <2>7, <2>8 DEF TypeOK
<1>2. PlaceInv BY DEF Init, FlowInit, LessonInit, PlaceInv
<1>3. CaseInv BY DEF Init, FlowInit, LessonInit, CaseInv, LastPhase
<1>4. QuizInv
  <2>1. {k \in 1 .. Len(answers) : answers[k].right} = {}
    BY DEF Init, LessonInit
  <2> QED BY <2>1, FS_EmptySet DEF Init, LessonInit, QuizInv, QuizGradedOnce
<1>5. SaidInv
  BY DEF Init, FlowInit, LessonInit, SaidInv, StoredAsSaid
<1>6. EarnedInv BY DEF Init, FlowInit, EarnedInv
<1> QED BY <1>1, <1>2, <1>3, <1>4, <1>5, <1>6 DEF IInv

-----------------------------------------------------------------------------
(* The label of a new row is a number.                                      *)
LEMMA UnderType ==
  ASSUME TypeOK
  PROVE  Under \in Nat /\ Reached \in Nat
BY LessonAssumption DEF TypeOK, FlowTypeOK, LessonTypeOK, Under, Reached

(* A row is stored as one more row.                                         *)
LEMMA PersistType ==
  ASSUME TypeOK, NEW role \in {"user", "assistant"}, NEW by \in Nat, Persist(role, by)
  PROVE  turns' \in Seq(TurnRow)
<1>1. [role |-> role, by |-> by, under |-> Under] \in TurnRow BY UnderType DEF TurnRow
<1> QED BY <1>1 DEF TypeOK, Persist

(* So is a turn of the transcript.                                          *)
LEMMA HeardType ==
  ASSUME TypeOK, NEW role \in {"user", "assistant"}, NEW by \in Nat, by > 0,
         by <= MaxLines,
         transcript' = Append(transcript, [role |-> role, by |-> by])
  PROVE  transcript' \in Seq(Turn)
<1>1. [role |-> role, by |-> by] \in Turn BY TerminalAssumption DEF Turn
<1> QED BY <1>1 DEF TypeOK, FlowTypeOK

(* "/next" before the last phase closes the phase and enters the next.      *)
LEMMA NextPhaseMoves ==
  ASSUME NextPhase, ~IsTerminal
  PROVE  /\ ClosePhase /\ EnterNextPhase
         /\ UNCHANGED <<hints, transcript, at, command, lessonVars, line, turns, card,
                       coached, shown, posed, recorded>>
         /\ unlocked' = unlocked \cup {e \in Exhibits : OpensAt[e] = phase'}
BY DEF NextPhase

(* The steps of a case keep the types ...                                   *)
LEMMA CaseTypes ==
  ASSUME IInv, \/ Say \/ Reply \/ CoachReveal \/ ShowExhibit \/ NextPhase \/ Score
               \/ StoreScore \/ ShowAnswer
  PROVE  TypeOK'
<1> USE CaseAssumption, TerminalAssumption
    DEF IInv, TypeOK, FlowTypeOK, LessonTypeOK, Places, Prompts, Calls, Goes, flowVars,
        lessonVars, ownVars
<1>1. CASE Say
  <2>1. line' \in Nat /\ line' > 0 /\ line' <= MaxLines BY <1>1 DEF Say
  <2>2. turns' \in Seq(TurnRow) BY <1>1, <2>1, PersistType DEF Say
  <2>3. transcript' \in Seq(Turn) BY <1>1, <2>1, HeardType DEF Say, RecordTurn
  <2> QED BY <1>1, <2>1, <2>2, <2>3 DEF Say, RecordTurn
<1>2. CASE Reply
  <2>1. line \in Nat /\ line > 0 /\ line <= MaxLines BY <1>2 DEF Reply, SaidInv
  <2>2. turns' \in Seq(TurnRow) BY <1>2, <2>1, PersistType DEF Reply
  <2>3. transcript' \in Seq(Turn) BY <1>2, <2>1, HeardType DEF Reply, RecordTurn
  <2> QED BY <1>2, <2>1, <2>2, <2>3 DEF Reply, RecordTurn
<1>3. CASE CoachReveal BY <1>3 DEF CoachReveal, MayReveal
<1>4. CASE ShowExhibit BY <1>4 DEF ShowExhibit, UnlockExhibit
<1>5. CASE NextPhase
  <2>1. CASE IsTerminal BY <1>5, <2>1 DEF NextPhase
  <2>2. CASE ~IsTerminal
    <3>1. ClosePhase /\ EnterNextPhase
          /\ UNCHANGED <<hints, transcript, at, command, lessonVars, line, turns, card,
                        coached, shown, posed, recorded>>
          /\ unlocked' = unlocked \cup {e \in Exhibits : OpensAt[e] = phase'}
      BY <1>5, <2>2, NextPhaseMoves
    <3>2. PICK over \in BOOLEAN :
            timings' = Append(timings, [phase |-> phase, over |-> over])
      BY <3>1 DEF ClosePhase
    <3>3. [phase |-> phase, over |-> over] \in [phase : Nat, over : BOOLEAN]
      OBVIOUS
    <3>4. timings' \in Seq([phase : Nat, over : BOOLEAN]) BY <3>2, <3>3
    <3>5. phase' \in Nat BY <3>1 DEF EnterNextPhase
    <3>6. attempted' \in BOOLEAN BY <3>1 DEF EnterNextPhase
    <3> QED BY <3>1, <3>4, <3>5, <3>6
  <2> QED BY <2>1, <2>2
<1>6. CASE Score BY <1>6 DEF Score
<1>7. CASE StoreScore
  <2>1. Len(card) + 1 \in 1 .. NDims BY <1>7 DEF StoreScore, PlaceInv
  <2>2. card' \in Seq(1 .. NDims) BY <1>7, <2>1 DEF StoreScore
  <2> QED BY <1>7, <2>2 DEF StoreScore
<1>8. CASE ShowAnswer BY <1>8 DEF ShowAnswer
<1> QED BY <1>1, <1>2, <1>3, <1>4, <1>5, <1>6, <1>7, <1>8

(* ... and so do those of a lesson ...                                      *)
LEMMA LessonTypes ==
  ASSUME IInv, \/ Ask \/ Explain \/ NextSection \/ TypeAnswer \/ GradeAnswer
  PROVE  TypeOK'
<1> USE TerminalAssumption, LessonAssumption
    DEF IInv, TypeOK, FlowTypeOK, LessonTypeOK, Places, Prompts, Calls, Goes, lessonVars,
        caseOnly
<1>1. CASE Ask
  <2>1. line' \in Nat /\ line' > 0 /\ line' <= MaxLines BY <1>1 DEF Ask
  <2>2. turns' \in Seq(TurnRow) BY <1>1, <2>1, PersistType DEF Ask
  <2>3. transcript' \in Seq(Turn) BY <1>1, <2>1, HeardType DEF Ask
  <2> QED BY <1>1, <2>1, <2>2, <2>3 DEF Ask
<1>2. CASE Explain
  <2>1. line \in Nat /\ line > 0 /\ line <= MaxLines BY <1>2 DEF Explain, SaidInv
  <2>2. turns' \in Seq(TurnRow) BY <1>2, <2>1, PersistType DEF Explain
  <2>3. transcript' \in Seq(Turn) BY <1>2, <2>1, HeardType DEF Explain
  <2> QED BY <1>2, <2>1, <2>2, <2>3 DEF Explain
<1>3. CASE NextSection
  <2>1. stage' \in {Teaching, Quiz, Complete}
    BY <1>3 DEF NextSection, OpenSection, CloseTeaching
  <2>2. at' \in {"teaching", "quiz", "leaving"}
    BY <1>3, <2>1 DEF NextSection, NextLoop
  <2>3. section' \in Nat BY <1>3 DEF NextSection, MoreSections, OpenSection, CloseTeaching
  <2> QED
    BY <1>3, <2>1, <2>2, <2>3 DEF NextSection, MoreSections, OpenSection, CloseTeaching
<1>4. CASE TypeAnswer
  <2>1. turns' \in Seq(TurnRow) BY <1>4, PersistType DEF TypeAnswer
  <2> QED BY <1>4, <2>1 DEF TypeAnswer
<1>5. CASE GradeAnswer
  <2>1. stage' \in {Teaching, Quiz, Complete} BY <1>5 DEF GradeAnswer
  <2>2. at' \in {"teaching", "quiz", "leaving"}
    BY <1>5, <2>1 DEF GradeAnswer, NextLoop
  <2>3. question < NQuiz BY <1>5 DEF GradeAnswer, PlaceInv, QuizInv
  <2>4. \A right \in BOOLEAN :
          [item |-> question, seen |-> question, right |-> right] \in AnswerRow
    BY <2>3 DEF AnswerRow
  <2>5. answers' \in Seq(AnswerRow) /\ correct' \in Nat /\ question' \in Nat
    BY <1>5, <2>4 DEF GradeAnswer
  <2> QED BY <1>5, <2>1, <2>2, <2>5 DEF GradeAnswer
<1> QED BY <1>1, <1>2, <1>3, <1>4, <1>5

(* ... of a sprint, and those that leave a command.                         *)
LEMMA OtherTypes ==
  ASSUME IInv, \/ AnswerDrill \/ RecordSprint \/ CallFails \/ ResultsFail \/ Quit
               \/ EndSession
  PROVE  TypeOK'
<1> USE TerminalAssumption
    DEF IInv, TypeOK, FlowTypeOK, LessonTypeOK, Places, Prompts, Calls, Goes, flowVars,
        lessonVars, caseOnly
<1>1. CASE AnswerDrill BY <1>1 DEF AnswerDrill, PlaceInv
<1>2. CASE RecordSprint BY <1>2 DEF RecordSprint
<1>3. CASE CallFails BY <1>3 DEF CallFails
<1>4. CASE Quit BY <1>4 DEF Quit
<1>5. CASE EndSession BY <1>5 DEF EndSession
<1>6. CASE ResultsFail BY <1>6 DEF ResultsFail
<1> QED BY <1>1, <1>2, <1>3, <1>4, <1>5, <1>6

-----------------------------------------------------------------------------
(* Where the program is.                                                    *)
LEMMA PlaceStep == IInv /\ Next => PlaceInv'
<1> SUFFICES ASSUME IInv, Next PROVE PlaceInv' OBVIOUS
<1> USE Stages, TerminalAssumption DEF IInv, PlaceInv, Goes, flowVars, lessonVars, ownVars, caseOnly
<1>1. CASE Say BY <1>1 DEF Say
<1>2. CASE Reply BY <1>2 DEF Reply
<1>3. CASE CoachReveal BY <1>3 DEF CoachReveal
<1>4. CASE ShowExhibit BY <1>4 DEF ShowExhibit
<1>5. CASE NextPhase BY <1>5 DEF NextPhase
<1>6. CASE Score
  <2>1. card = <<>> /\ NDims \in Nat BY <1>6 DEF Score, CaseInv
  <2> QED BY <1>6, <2>1 DEF Score
<1>7. CASE StoreScore
  <2>1. Len(card') = Len(card) + 1 /\ Len(card) \in Nat
    BY <1>7 DEF StoreScore, TypeOK
  <2>2. Len(card) < NDims BY <1>7 DEF StoreScore
  <2> QED BY <1>7, <2>1, <2>2 DEF StoreScore
<1>8. CASE ShowAnswer BY <1>8 DEF ShowAnswer
<1>9. CASE Ask BY <1>9 DEF Ask
<1>10. CASE Explain BY <1>10 DEF Explain
<1>11. CASE NextSection
  <2>1. stage' \in {Teaching, Quiz, Complete}
    BY <1>11 DEF NextSection, MoreSections, OpenSection, CloseTeaching
  <2> QED BY <1>11, <2>1 DEF NextSection, NextLoop
<1>12. CASE TypeAnswer BY <1>12 DEF TypeAnswer
<1>13. CASE GradeAnswer
  <2>1. stage' \in {Quiz, Complete} BY <1>13 DEF GradeAnswer
  <2> QED BY <1>13, <2>1 DEF GradeAnswer, NextLoop
<1>14. CASE AnswerDrill
  <2>1. posed' \in Nat /\ posed' <= NDrills BY <1>14 DEF AnswerDrill, TypeOK
  <2>2. ~recorded BY <1>14 DEF AnswerDrill
  <2> QED BY <1>14, <2>1, <2>2 DEF AnswerDrill
<1>15. CASE RecordSprint BY <1>15 DEF RecordSprint
<1>16. CASE CallFails BY <1>16 DEF CallFails
<1>17. CASE Quit BY <1>17 DEF Quit
<1>18. CASE EndSession BY <1>18 DEF EndSession
<1>19. CASE Over BY <1>19 DEF Over, vars
<1>20. CASE ResultsFail BY <1>20 DEF ResultsFail
<1> QED
  BY <1>1, <1>2, <1>3, <1>4, <1>5, <1>6, <1>7, <1>8, <1>9, <1>10, <1>11, <1>12, <1>13,
     <1>14, <1>15, <1>16, <1>17, <1>18, <1>19, <1>20 DEF Next

(* The phases and the results of a case.                                    *)
LEMMA CaseStep == IInv /\ Next => CaseInv'
<1> SUFFICES ASSUME IInv, Next PROVE CaseInv' OBVIOUS
<1> USE Stages, CaseAssumption, TerminalAssumption
    DEF IInv, PlaceInv, CaseInv, LastPhase, Goes, flowVars, lessonVars, ownVars, caseOnly
<1>0. phase \in Nat /\ LastPhase \in Nat BY DEF TypeOK, FlowTypeOK
<1>1. CASE Say BY <1>1 DEF Say
<1>2. CASE Reply BY <1>2 DEF Reply
<1>3. CASE CoachReveal BY <1>3 DEF CoachReveal
<1>4. CASE ShowExhibit BY <1>4 DEF ShowExhibit
<1>5. CASE NextPhase
  <2>1. CASE IsTerminal
    <3>1. phase = LastPhase BY <1>0, <2>1 DEF IsTerminal
    <3> QED BY <1>5, <2>1, <3>1 DEF NextPhase
  <2>2. CASE ~IsTerminal
    <3>1. ClosePhase /\ EnterNextPhase /\ UNCHANGED <<at, command, card, shown>>
      BY <1>5, <2>2, NextPhaseMoves
    <3>2. PICK over \in BOOLEAN :
            timings' = Append(timings, [phase |-> phase, over |-> over])
      BY <3>1 DEF ClosePhase
    <3>3. timings \in Seq([phase : Nat, over : BOOLEAN]) BY DEF TypeOK, FlowTypeOK
    <3>4. Len(timings') = Len(timings) + 1 BY <3>2, <3>3
    <3>5. \A k \in 1 .. Len(timings) : timings'[k] = timings[k] BY <3>2, <3>3
    <3>6. timings'[Len(timings) + 1] = [phase |-> phase, over |-> over] BY <3>2, <3>3
    <3>7. \A k \in 1 .. Len(timings') : timings'[k].phase = k - 1
      BY <1>0, <3>4, <3>5, <3>6
    <3>8. phase' = phase + 1 /\ phase' <= LastPhase
      BY <1>0, <2>2, <3>1 DEF EnterNextPhase, IsTerminal
    <3>9. at = "phase" BY <1>5 DEF NextPhase
    <3> QED BY <1>0, <3>1, <3>4, <3>7, <3>8, <3>9
  <2> QED BY <2>1, <2>2
<1>6. CASE Score BY <1>6 DEF Score
<1>7. CASE StoreScore
  <2>1. Len(card') = Len(card) + 1 /\ Len(card) \in Nat
    BY <1>7 DEF StoreScore, TypeOK
  <2>2. UNCHANGED <<phase, timings, command, shown>> /\ at = "storing" /\ command = "case"
    BY <1>7 DEF StoreScore
  <2>3. \/ at' = "revealing" /\ Len(card') = NDims
        \/ at' = "storing"
    BY <1>7 DEF StoreScore
  <2> QED BY <2>1, <2>2, <2>3
<1>8. CASE ShowAnswer BY <1>8 DEF ShowAnswer
<1>9. CASE Ask BY <1>9 DEF Ask
<1>10. CASE Explain BY <1>10 DEF Explain
<1>11. CASE NextSection
  <2>1. stage' \in {Teaching, Quiz, Complete} /\ command = "lesson"
    BY <1>11 DEF NextSection, MoreSections, OpenSection, CloseTeaching
  <2> QED BY <1>11, <2>1 DEF NextSection, NextLoop
<1>12. CASE TypeAnswer BY <1>12 DEF TypeAnswer
<1>13. CASE GradeAnswer
  <2>1. stage' \in {Quiz, Complete} /\ command = "lesson" BY <1>13 DEF GradeAnswer
  <2> QED BY <1>13, <2>1 DEF GradeAnswer, NextLoop
<1>14. CASE AnswerDrill BY <1>14 DEF AnswerDrill
<1>15. CASE RecordSprint BY <1>15 DEF RecordSprint
<1>16. CASE CallFails BY <1>16 DEF CallFails
<1>17. CASE Quit BY <1>17 DEF Quit
<1>18. CASE EndSession BY <1>18 DEF EndSession
<1>19. CASE Over BY <1>19 DEF Over, vars
<1>20. CASE ResultsFail BY <1>20 DEF ResultsFail
<1> QED
  BY <1>1, <1>2, <1>3, <1>4, <1>5, <1>6, <1>7, <1>8, <1>9, <1>10, <1>11, <1>12, <1>13,
     <1>14, <1>15, <1>16, <1>17, <1>18, <1>19, <1>20 DEF Next
-----------------------------------------------------------------------------
(* A verdict more: the answers stay in order, and their right ones are      *)
(* counted.                                                                 *)
LEMMA GradedOnceMore ==
  ASSUME TypeOK, QuizInv, NEW right \in BOOLEAN, question < NQuiz,
         correct' = IF right THEN correct + 1 ELSE correct,
         answers' = Append(answers, [item |-> question, seen |-> question,
                                     right |-> right])
  PROVE  QuizGradedOnce' /\ Len(answers') = Len(answers) + 1
<1> DEFINE Right(seq) == {k \in 1 .. Len(seq) : seq[k].right}
<1>1. answers \in Seq(AnswerRow) /\ Len(answers) \in Nat BY DEF TypeOK, LessonTypeOK
<1>2. NQuiz \in Nat BY LessonAssumption
<1>3. Len(answers') = Len(answers) + 1 BY <1>1
<1>4. \A k \in 1 .. Len(answers) : answers'[k] = answers[k] BY <1>1
<1>5. answers'[Len(answers) + 1] = [item |-> question, seen |-> question, right |-> right]
  BY <1>1
<1>6. Len(answers') <= NQuiz BY <1>1, <1>2, <1>3 DEF QuizInv
<1>7. \A k \in 1 .. Len(answers') :
        answers'[k].item = k - 1 /\ answers'[k].seen = k - 1
  BY <1>1, <1>3, <1>4, <1>5 DEF QuizInv, QuizGradedOnce
<1>8. IsFiniteSet(Right(answers))
  <2>1. IsFiniteSet(1 .. Len(answers)) BY <1>1, FS_Interval
  <2>2. Right(answers) \subseteq 1 .. Len(answers) OBVIOUS
  <2> QED BY <2>1, <2>2, FS_Subset
<1>9. correct' = Cardinality(Right(answers'))
  <2>1. CASE right
    <3>1. Right(answers') = Right(answers) \cup {Len(answers) + 1}
      BY <1>1, <1>3, <1>4, <1>5, <2>1
    <3>2. Len(answers) + 1 \notin Right(answers) BY <1>1
    <3>3. Cardinality(Right(answers')) = Cardinality(Right(answers)) + 1
      BY <1>8, <3>1, <3>2, FS_AddElement
    <3> QED BY <2>1, <3>3 DEF QuizInv, QuizGradedOnce
  <2>2. CASE ~right
    <3>1. Right(answers') = Right(answers) BY <1>1, <1>3, <1>4, <1>5, <2>2
    <3> QED BY <2>2, <3>1 DEF QuizInv, QuizGradedOnce
  <2> QED BY <2>1, <2>2
<1> QED BY <1>3, <1>6, <1>7, <1>9 DEF QuizGradedOnce

(* Nothing else touches the quiz.                                           *)
LEMMA QuizFrame ==
  ASSUME QuizInv, UNCHANGED <<stage, section, question, correct, answers>>
  PROVE  QuizInv'
BY DEF QuizInv, QuizGradedOnce

(* The sections and the quiz of a lesson.                                   *)
LEMMA QuizStep == IInv /\ Next => QuizInv'
<1> SUFFICES ASSUME IInv, Next PROVE QuizInv' OBVIOUS
<1> USE DEF IInv
<1>1. CASE NextSection
  <2>1. stage = Teaching BY <1>1 DEF NextSection, PlaceInv
  <2>2. /\ section \in Nat /\ section < NSections /\ NSections \in Nat
        /\ question = 0 /\ NQuiz \in Nat
    BY <2>1, LessonAssumption DEF QuizInv, TypeOK, LessonTypeOK
  <2>3. UNCHANGED <<question, correct, answers>>
    BY <1>1 DEF NextSection, OpenSection, CloseTeaching
  <2>4. QuizGradedOnce' BY <2>3 DEF QuizInv, QuizGradedOnce
  <2>5. question' = Len(answers') /\ question' <= NQuiz BY <2>3 DEF QuizInv
  <2>6. CASE MoreSections
    <3>1. section' = section + 1 /\ stage' = Teaching
      BY <1>1, <2>1, <2>6 DEF NextSection, OpenSection
    <3>2. section' < NSections BY <2>2, <2>6, <3>1 DEF MoreSections
    <3> QED BY Stages, <2>2, <2>3, <2>4, <2>5, <3>1, <3>2 DEF QuizInv
  <2>7. CASE ~MoreSections
    <3>1. section' = section /\ stage' = IF NQuiz > 0 THEN Quiz ELSE Complete
      BY <1>1, <2>7 DEF NextSection, CloseTeaching
    <3>2. section' = NSections - 1 /\ section' < NSections
      BY <2>2, <2>7, <3>1 DEF MoreSections
    <3>3. stage' = Quiz => question' < NQuiz BY Stages, <2>2, <2>3, <3>1
    <3>4. stage' = Complete => question' = NQuiz BY Stages, <2>2, <2>3, <3>1
    <3> QED BY <2>2, <2>3, <2>4, <2>5, <3>1, <3>2, <3>3, <3>4 DEF QuizInv
  <2> QED BY <2>6, <2>7
<1>2. CASE GradeAnswer
  <2>1. stage = Quiz BY <1>2 DEF GradeAnswer, PlaceInv
  <2>2. /\ question \in Nat /\ question < NQuiz /\ NQuiz \in Nat
        /\ section = NSections - 1 /\ section < NSections
        /\ question = Len(answers)
    BY Stages, <2>1, LessonAssumption DEF QuizInv, TypeOK, LessonTypeOK
  <2>3. PICK right \in BOOLEAN :
          /\ correct' = IF right THEN correct + 1 ELSE correct
          /\ answers' = Append(answers, [item |-> question, seen |-> question,
                                         right |-> right])
    BY <1>2 DEF GradeAnswer
  <2>4. QuizGradedOnce' /\ Len(answers') = Len(answers) + 1
    BY <2>2, <2>3, GradedOnceMore
  <2>5. question' = question + 1 /\ section' = section
    BY <1>2 DEF GradeAnswer
  <2>6. stage' = IF LastQuestion THEN Complete ELSE Quiz
    BY <1>2, <2>1 DEF GradeAnswer
  <2>7. stage' = Quiz => question' < NQuiz
    BY Stages, <2>2, <2>5, <2>6 DEF LastQuestion
  <2>8. stage' = Complete => question' = NQuiz
    BY Stages, <2>2, <2>5, <2>6 DEF LastQuestion
  <2>9. stage' # Teaching BY Stages, <2>6
  <2>10. question' = Len(answers') /\ question' <= NQuiz BY <2>2, <2>4, <2>5
  <2> QED BY <2>2, <2>4, <2>5, <2>7, <2>8, <2>9, <2>10 DEF QuizInv
<1>3. CASE Say \/ Reply \/ CoachReveal \/ ShowExhibit \/ NextPhase \/ Score \/ StoreScore
           \/ ShowAnswer \/ Ask \/ Explain \/ TypeAnswer
  BY <1>3, QuizFrame
     DEF Say, Reply, CoachReveal, ShowExhibit, NextPhase, Score, StoreScore, ShowAnswer,
         Ask, Explain, TypeAnswer, lessonVars
<1>4. CASE AnswerDrill \/ RecordSprint \/ CallFails \/ ResultsFail \/ Quit \/ EndSession \/ Over
  BY <1>4, QuizFrame
     DEF AnswerDrill, RecordSprint, CallFails, ResultsFail, Quit, EndSession, Over, vars, lessonVars
<1> QED BY <1>1, <1>2, <1>3, <1>4 DEF Next
-----------------------------------------------------------------------------
(* A row more, behind the rows there were.                                  *)
LEMMA PersistAppends ==
  ASSUME TypeOK, NEW role \in {"user", "assistant"}, NEW by \in Nat, Persist(role, by)
  PROVE  /\ Len(turns) \in Nat /\ Len(turns') = Len(turns) + 1
         /\ \A k \in 1 .. Len(turns) : turns'[k] = turns[k] /\ turns[k] \in TurnRow
         /\ turns'[Len(turns) + 1] = [role |-> role, by |-> by, under |-> Under]
<1>1. turns \in Seq(TurnRow) BY DEF TypeOK
<1>2. turns' = Append(turns, [role |-> role, by |-> by, under |-> Under])
  BY DEF Persist
<1> QED BY <1>1, <1>2

(* Rows are filed in the order of phases and sections, and a reply follows  *)
(* its message.                                                             *)
InOrder ==
  \A k \in 2 .. Len(turns) :
    /\ turns[k - 1].under <= turns[k].under
    /\ turns[k].role = "assistant" =>
         turns[k - 1] = [turns[k] EXCEPT !.role = "user"]

(* The order survives a row under what was reached, if the row is a message *)
(* or the reply to the last one (_persist of the loops).                    *)
(* The order survives a row under what was reached, if the row is a message *)
(* or the reply to the last one (_persist of the loops).                    *)
(* The order survives a row under what was reached, if the row is a message *)
(* or the reply to the last one (_persist of the loops).                    *)
(* The order survives a row under what was reached, if the row is a message *)
(* or the reply to the last one (_persist of the loops).                    *)
LEMMA OrderKept ==
  ASSUME TypeOK, SaidInv, Under = Reached,
         NEW role \in {"user", "assistant"}, NEW by \in Nat, Persist(role, by),
         role = "assistant" =>
           /\ Len(turns) > 0
           /\ turns[Len(turns)] = [role |-> "user", by |-> by, under |-> Under]
  PROVE  /\ InOrder'
         /\ \A k \in 1 .. Len(turns') : turns'[k].under <= Reached
<1> DEFINE n == Len(turns)
           row == [role |-> role, by |-> by, under |-> Under]
<1>1. /\ n \in Nat /\ Len(turns') = n + 1
      /\ \A k \in 1 .. n : turns'[k] = turns[k] /\ turns[k] \in TurnRow
      /\ turns'[n + 1] = row
  BY PersistAppends
<1>2. row.under = Reached /\ row.role = role /\ Reached \in Nat BY UnderType
<1>3. [row EXCEPT !.role = "user"] = [role |-> "user", by |-> by, under |-> Under]
  OBVIOUS
<1> HIDE DEF row
<1>4. \A k \in 1 .. n : turns[k].under <= Reached BY DEF SaidInv
<1>5. \A k \in 1 .. Len(turns') : turns'[k].under <= Reached
  BY <1>1, <1>2, <1>4
<1>6. ASSUME NEW k \in 2 .. Len(turns')
      PROVE  /\ turns'[k - 1].under <= turns'[k].under
             /\ turns'[k].role = "assistant" =>
                  turns'[k - 1] = [turns'[k] EXCEPT !.role = "user"]
  <2>1. CASE k \in 2 .. n
    <3>1. turns'[k] = turns[k] /\ turns'[k - 1] = turns[k - 1] BY <1>1, <2>1
    <3> QED BY <2>1, <3>1 DEF SaidInv, StoredAsSaid
  <2>2. CASE k = n + 1
    <3>1. n \in 1 .. n /\ turns'[k] = row /\ turns'[k - 1] = turns[n] BY <1>1, <2>2
    <3>2. turns[n].under <= Reached BY <1>4, <3>1
    <3>3. role = "assistant" => turns[n] = [row EXCEPT !.role = "user"] BY <1>3
    <3> QED BY <1>2, <3>1, <3>2, <3>3
  <2> QED BY <1>1, <2>1, <2>2
<1> QED BY <1>5, <1>6 DEF InOrder

(* A turn that is heard and stored keeps the two copies equal.              *)
LEMMA SaidOnceMore ==
  ASSUME TypeOK, SaidInv, stage = Teaching, Under = Reached,
         NEW role \in {"user", "assistant"}, NEW by \in Nat, Persist(role, by),
         transcript' = Append(transcript, [role |-> role, by |-> by]),
         role = "assistant" =>
           /\ Len(turns) > 0
           /\ turns[Len(turns)] = [role |-> "user", by |-> by, under |-> Under]
  PROVE  /\ StoredAsSaid' /\ Len(transcript') = Len(turns') /\ Len(turns') \in Nat
         /\ \A k \in 1 .. Len(turns') : turns'[k].under <= Reached
         /\ Len(turns') > 0
         /\ turns'[Len(turns')] = [role |-> role, by |-> by, under |-> Under]
<1> DEFINE n == Len(turns)
           row == [role |-> role, by |-> by, under |-> Under]
<1>1. /\ n \in Nat /\ Len(turns') = n + 1
      /\ \A k \in 1 .. n : turns'[k] = turns[k]
      /\ turns'[n + 1] = row
  BY PersistAppends
<1>2. transcript \in Seq(Turn) /\ Len(transcript) = n
  BY DEF TypeOK, FlowTypeOK, SaidInv
<1>3. /\ Len(transcript') = n + 1
      /\ \A k \in 1 .. n : transcript'[k] = transcript[k]
      /\ transcript'[n + 1] = [role |-> role, by |-> by]
  BY <1>2
<1>4. turns' \in Seq(TurnRow) BY PersistType
<1>5. ASSUME NEW k \in 1 .. Len(transcript')
      PROVE  /\ k \in DOMAIN turns'
             /\ transcript'[k] = [role |-> turns'[k].role, by |-> turns'[k].by]
  <2>1. k \in DOMAIN turns' BY <1>1, <1>3, <1>4
  <2>2. CASE k \in 1 .. n
    <3>1. transcript[k] = [role |-> turns[k].role, by |-> turns[k].by]
      BY <1>2, <2>2 DEF SaidInv, StoredAsSaid
    <3> QED BY <1>1, <1>3, <2>1, <2>2, <3>1
  <2>3. CASE k = n + 1 BY <1>1, <1>3, <2>1, <2>3
  <2> QED BY <1>1, <1>3, <2>2, <2>3
<1>6. \A k \in Len(transcript') + 1 .. Len(turns') : turns'[k].under = NSections
  BY <1>1, <1>3
<1>7. InOrder' /\ \A k \in 1 .. Len(turns') : turns'[k].under <= Reached
  BY OrderKept
<1> QED BY <1>1, <1>3, <1>5, <1>6, <1>7 DEF StoredAsSaid, InOrder

(* A step that says nothing, and goes forward if it goes anywhere.          *)
LEMMA SaidFrame ==
  ASSUME SaidInv, TypeOK, UNCHANGED <<transcript, turns>>, Reached' \in Nat,
         Reached <= Reached', stage' = Teaching => stage = Teaching,
         at' \notin {"reply", "asking"}
  PROVE  SaidInv'
<1>1. Reached \in Nat BY UnderType
<1>2. \A k \in 1 .. Len(turns) : turns[k].under \in Nat
  <2>1. \A k \in 1 .. Len(turns) : turns[k] \in TurnRow BY DEF TypeOK
  <2> QED BY <2>1 DEF TurnRow
<1>3. \A k \in 1 .. Len(turns') : turns'[k].under <= Reached'
  BY <1>1, <1>2 DEF SaidInv
<1>4. StoredAsSaid' BY DEF SaidInv, StoredAsSaid
<1> QED BY <1>3, <1>4 DEF SaidInv

(* The conversation and its copy.                                           *)
LEMMA SaidStep == IInv /\ Next => SaidInv'
<1> SUFFICES ASSUME IInv, Next PROVE SaidInv' OBVIOUS
<1> USE DEF IInv
<1>0. line \in Nat BY TerminalAssumption DEF TypeOK
<1>1. CASE Say
  <2>1. /\ at' = "reply" /\ line' = line + 1 /\ UNCHANGED <<phase, command, stage>>
        /\ Persist("user", line')
        /\ transcript' = Append(transcript, [role |-> "user", by |-> line'])
    BY <1>1 DEF Say, Goes, RecordTurn, lessonVars
  <2>2. command = "case" /\ stage = Teaching
    BY <1>1 DEF Say, PlaceInv
  <2>3. Under = Reached /\ Under' = Under /\ Reached' = Reached
    BY <2>1, <2>2 DEF Under, Reached
  <2>4. line' \in Nat /\ line' > 0 BY <1>0, <2>1
  <2>5. /\ StoredAsSaid' /\ Len(transcript') = Len(turns') /\ Len(turns') \in Nat
        /\ \A k \in 1 .. Len(turns') : turns'[k].under <= Reached
        /\ Len(turns') > 0
        /\ turns'[Len(turns')] = [role |-> "user", by |-> line', under |-> Under]
    BY <2>1, <2>2, <2>3, <2>4, SaidOnceMore
  <2> QED BY <2>3, <2>4, <2>5 DEF SaidInv
<1>2. CASE Reply
  <2>1. /\ at' = "phase" /\ UNCHANGED <<phase, command, stage>>
        /\ Persist("assistant", line)
        /\ transcript' = Append(transcript, [role |-> "assistant", by |-> line])
        /\ at = "reply"
    BY <1>2 DEF Reply, Goes, RecordTurn, lessonVars
  <2>2. command = "case" /\ stage = Teaching BY <2>1 DEF PlaceInv
  <2>3. Under = Reached /\ Reached' = Reached
    BY <2>1, <2>2 DEF Under, Reached
  <2>4. /\ Len(turns) > 0
        /\ turns[Len(turns)] = [role |-> "user", by |-> line, under |-> Under]
    BY <2>1 DEF SaidInv
  <2>5. /\ StoredAsSaid' /\ Len(transcript') = Len(turns') /\ Len(turns') \in Nat
        /\ \A k \in 1 .. Len(turns') : turns'[k].under <= Reached
    BY <1>0, <2>1, <2>2, <2>3, <2>4, SaidOnceMore
  <2> QED BY <2>1, <2>3, <2>5 DEF SaidInv
<1>3. CASE Ask
  <2>1. /\ at' = "asking" /\ line' = line + 1
        /\ UNCHANGED <<phase, command, stage, section>>
        /\ Persist("user", line')
        /\ transcript' = Append(transcript, [role |-> "user", by |-> line'])
    BY <1>3 DEF Ask, Goes, lessonVars, caseOnly
  <2>2. command = "lesson" /\ stage = Teaching
    BY <1>3 DEF Ask, PlaceInv
  <2>3. Under = Reached /\ Under' = Under /\ Reached' = Reached
    BY <2>1, <2>2, Stages DEF Under, Reached
  <2>4. line' \in Nat /\ line' > 0 BY <1>0, <2>1
  <2>5. /\ StoredAsSaid' /\ Len(transcript') = Len(turns') /\ Len(turns') \in Nat
        /\ \A k \in 1 .. Len(turns') : turns'[k].under <= Reached
        /\ Len(turns') > 0
        /\ turns'[Len(turns')] = [role |-> "user", by |-> line', under |-> Under]
    BY <2>1, <2>2, <2>3, <2>4, SaidOnceMore
  <2> QED BY <2>3, <2>4, <2>5 DEF SaidInv
<1>4. CASE Explain
  <2>1. /\ at' = "teaching" /\ UNCHANGED <<phase, command, stage, section>>
        /\ Persist("assistant", line)
        /\ transcript' = Append(transcript, [role |-> "assistant", by |-> line])
        /\ at = "asking"
    BY <1>4 DEF Explain, Goes, lessonVars, caseOnly
  <2>2. command = "lesson" /\ stage = Teaching BY <2>1 DEF PlaceInv
  <2>3. Under = Reached /\ Reached' = Reached
    BY <2>1, <2>2, Stages DEF Under, Reached
  <2>4. /\ Len(turns) > 0
        /\ turns[Len(turns)] = [role |-> "user", by |-> line, under |-> Under]
    BY <2>1 DEF SaidInv
  <2>5. /\ StoredAsSaid' /\ Len(transcript') = Len(turns') /\ Len(turns') \in Nat
        /\ \A k \in 1 .. Len(turns') : turns'[k].under <= Reached
    BY <1>0, <2>1, <2>2, <2>3, <2>4, SaidOnceMore
  <2> QED BY <2>1, <2>3, <2>5 DEF SaidInv
<1>5. CASE TypeAnswer
  <2>1. /\ at' = "answering" /\ UNCHANGED <<phase, command, stage, section, transcript>>
        /\ Persist("user", 0)
    BY <1>5 DEF TypeAnswer, Goes, lessonVars, caseOnly
  <2>2. command = "lesson" /\ stage = Quiz BY <1>5 DEF TypeAnswer, PlaceInv
  <2>3. Under = NSections /\ Under = Reached /\ Reached' = Reached
    BY <2>1, <2>2, Stages DEF Under, Reached
  <2>4. /\ Len(turns) \in Nat /\ Len(turns') = Len(turns) + 1
        /\ \A k \in 1 .. Len(turns) : turns'[k] = turns[k]
        /\ turns'[Len(turns) + 1] = [role |-> "user", by |-> 0, under |-> Under]
    BY <2>1, PersistAppends
  <2>5. InOrder' /\ \A k \in 1 .. Len(turns') : turns'[k].under <= Reached
    BY <2>1, <2>3, OrderKept
  <2>6. transcript \in Seq(Turn) /\ Len(transcript) \in Nat /\ Len(transcript) <= Len(turns)
    BY DEF TypeOK, FlowTypeOK, SaidInv
  <2>7. turns \in Seq(TurnRow) /\ turns' \in Seq(TurnRow)
    BY <2>1, PersistType DEF TypeOK
  <2>8. ASSUME NEW k \in 1 .. Len(transcript')
        PROVE  /\ k \in DOMAIN turns'
               /\ transcript'[k] = [role |-> turns'[k].role, by |-> turns'[k].by]
    <3>1. transcript[k] = [role |-> turns[k].role, by |-> turns[k].by]
      BY <2>1 DEF SaidInv, StoredAsSaid
    <3>2. transcript' = transcript /\ k \in 1 .. Len(turns) BY <2>1, <2>4, <2>6
    <3>3. turns'[k] = turns[k] /\ k \in 1 .. Len(turns') BY <2>4, <3>2
    <3>4. DOMAIN turns' = 1 .. Len(turns') BY <2>7
    <3> QED BY <3>1, <3>2, <3>3, <3>4
  <2>9. \A k \in Len(transcript') + 1 .. Len(turns') : turns'[k].under = NSections
    <3>1. \A k \in Len(transcript) + 1 .. Len(turns) : turns[k].under = NSections
      BY DEF SaidInv, StoredAsSaid
    <3> QED BY <2>1, <2>3, <2>4, <2>6, <3>1
  <2>10. StoredAsSaid' BY <2>5, <2>8, <2>9 DEF StoredAsSaid, InOrder
  <2> QED BY <2>1, <2>2, <2>3, <2>4, <2>5, <2>6, <2>10, Stages DEF SaidInv
<1>6. CASE NextPhase
  <2>1. phase \in Nat /\ phase' \in Nat /\ phase <= phase'
    <3>1. phase \in Nat BY DEF TypeOK, FlowTypeOK
    <3>2. CASE IsTerminal BY <1>6, <3>1, <3>2 DEF NextPhase, flowVars
    <3>3. CASE ~IsTerminal BY <1>6, <3>1, <3>3, NextPhaseMoves DEF EnterNextPhase
    <3> QED BY <3>2, <3>3
  <2>2. /\ UNCHANGED <<command, stage, transcript, turns>> /\ command = "case"
        /\ at' \in {"phase", "scoring"}
    <3>1. command = "case" /\ at = "phase" BY <1>6 DEF NextPhase, PlaceInv
    <3>2. CASE IsTerminal
      BY <1>6, <3>1, <3>2 DEF NextPhase, flowVars, lessonVars, Goes
    <3>3. CASE ~IsTerminal BY <1>6, <3>1, <3>3, NextPhaseMoves DEF lessonVars
    <3> QED BY <3>2, <3>3
  <2>3. Reached = phase /\ Reached' = phase' BY <2>2 DEF Reached
  <2> QED BY <2>1, <2>2, <2>3, SaidFrame
<1>7. CASE NextSection
  <2>1. command = "lesson" /\ stage = Teaching BY <1>7 DEF NextSection, PlaceInv
  <2>2. UNCHANGED <<command, transcript, turns>>
    BY <1>7 DEF NextSection, caseOnly
  <2>3. \/ stage' = Teaching /\ section' = section + 1
        \/ stage' \in {Quiz, Complete}
    BY <1>7, <2>1 DEF NextSection, MoreSections, OpenSection, CloseTeaching
  <2>4. at' \notin {"reply", "asking"} BY <1>7, <2>3 DEF NextSection, NextLoop, Goes
  <2>5. section \in Nat /\ NSections \in Nat /\ section < NSections
    BY LessonAssumption DEF TypeOK, LessonTypeOK, QuizInv
  <2>6. /\ Reached = section
        /\ Reached' = IF stage' = Teaching THEN section' ELSE NSections
    BY <2>1, <2>2 DEF Reached
  <2>7. Reached' \in Nat /\ Reached <= Reached' BY <2>3, <2>5, <2>6, Stages
  <2> QED BY <2>1, <2>2, <2>4, <2>7, SaidFrame
<1>8. CASE GradeAnswer
  <2>1. command = "lesson" /\ stage = Quiz BY <1>8 DEF GradeAnswer, PlaceInv
  <2>2. UNCHANGED <<command, transcript, turns, section>>
    BY <1>8 DEF GradeAnswer, caseOnly
  <2>3. stage' \in {Quiz, Complete} BY <1>8, <2>1 DEF GradeAnswer
  <2>4. at' \notin {"reply", "asking"} BY <1>8, <2>3 DEF GradeAnswer, NextLoop, Goes
  <2>5. Reached = NSections /\ Reached' = NSections /\ NSections \in Nat
    BY <2>1, <2>2, <2>3, Stages, LessonAssumption DEF Reached
  <2> QED BY <2>2, <2>3, <2>4, <2>5, Stages, SaidFrame
<1>9. CASE CoachReveal \/ ShowExhibit \/ Score \/ StoreScore \/ ShowAnswer \/ AnswerDrill
           \/ RecordSprint \/ CallFails \/ ResultsFail \/ Quit \/ EndSession \/ Over
  <2>1. UNCHANGED <<transcript, turns, phase, command, stage, section>>
    BY <1>9
       DEF CoachReveal, ShowExhibit, Score, StoreScore, ShowAnswer, AnswerDrill,
           RecordSprint, CallFails, ResultsFail, Quit, EndSession, Over, vars, flowVars, lessonVars,
           ownVars, caseOnly
  <2>2. at' \notin {"reply", "asking"}
    BY <1>9
       DEF CoachReveal, ShowExhibit, Score, StoreScore, ShowAnswer, AnswerDrill,
           RecordSprint, CallFails, ResultsFail, Quit, EndSession, Over, vars, ownVars, Goes
  <2>3. Reached' = Reached /\ Reached \in Nat BY <2>1, UnderType DEF Reached
  <2> QED BY <2>1, <2>2, <2>3, SaidFrame
<1> QED BY <1>1, <1>2, <1>3, <1>4, <1>5, <1>6, <1>7, <1>8, <1>9 DEF Next
-----------------------------------------------------------------------------
(* Rows are never taken back, so a phase that was earned stays earned.      *)
LEMMA EarnedStays ==
  ASSUME TypeOK, NEW role \in {"user", "assistant"}, NEW by \in Nat, Persist(role, by)
  PROVE  /\ \A p : Earned(p) => Earned(p)'
         /\ role = "user" =>
              \E k \in 1 .. Len(turns') :
                turns'[k].role = "user" /\ turns'[k].under = Under
<1> DEFINE n == Len(turns)
<1>1. /\ n \in Nat /\ Len(turns') = n + 1
      /\ \A k \in 1 .. n : turns'[k] = turns[k]
      /\ turns'[n + 1] = [role |-> role, by |-> by, under |-> Under]
  BY PersistAppends
<1>2. ASSUME NEW p, Earned(p) PROVE Earned(p)'
  <2>1. PICK k \in 1 .. n : turns[k].role = "user" /\ turns[k].under = p
    BY <1>2 DEF Earned
  <2>2. k \in 1 .. Len(turns') /\ turns'[k] = turns[k] BY <1>1
  <2> QED BY <2>1, <2>2 DEF Earned
<1>3. ASSUME role = "user"
      PROVE  \E k \in 1 .. Len(turns') :
               turns'[k].role = "user" /\ turns'[k].under = Under
  <2>1. n + 1 \in 1 .. Len(turns') BY <1>1
  <2> QED BY <1>1, <1>3, <2>1
<1> QED BY <1>2, <1>3

(* A step that shows no approach and counts no attempt.                     *)
LEMMA EarnedFrame ==
  ASSUME EarnedInv, \A p : Earned(p) => Earned(p)', coached' = coached,
         \/ UNCHANGED <<attempted, phase>>
         \/ ~attempted'
  PROVE  EarnedInv'
BY DEF EarnedInv

(* An approach is shown after an attempt, and an attempt is a stored row.   *)
LEMMA EarnedStep == IInv /\ Next => EarnedInv'
<1> SUFFICES ASSUME IInv, Next PROVE EarnedInv' OBVIOUS
<1> USE DEF IInv
<1>0. line \in Nat BY TerminalAssumption DEF TypeOK
<1>1. CASE Say
  <2>1. Persist("user", line') /\ line' \in Nat BY <1>0, <1>1 DEF Say
  <2>2. UNCHANGED <<coached, phase>> BY <1>1 DEF Say
  <2>3. Under = phase BY <1>1 DEF Say, PlaceInv, Under
  <2>4. /\ \A p : Earned(p) => Earned(p)'
        /\ Earned(phase)'
    BY <2>1, <2>2, <2>3, EarnedStays DEF Earned
  <2> QED BY <2>2, <2>4 DEF EarnedInv
<1>2. CASE Reply
  <2>1. Persist("assistant", line) /\ coached' = coached /\ phase' = phase
    BY <1>2 DEF Reply
  <2>2. attempted' = attempted BY <1>2 DEF Reply, RecordTurn, TypeOK, FlowTypeOK
  <2>3. \A p : Earned(p) => Earned(p)' BY <1>0, <2>1, EarnedStays
  <2> QED BY <2>1, <2>2, <2>3, EarnedFrame
<1>3. CASE Ask
  <2>1. Persist("user", line') /\ line' \in Nat BY <1>0, <1>3 DEF Ask
  <2>2. \A p : Earned(p) => Earned(p)' BY <2>1, EarnedStays
  <2> QED BY <1>3, <2>2, EarnedFrame DEF Ask, caseOnly
<1>4. CASE Explain
  <2>1. \A p : Earned(p) => Earned(p)' BY <1>0, <1>4, EarnedStays DEF Explain
  <2> QED BY <1>4, <2>1, EarnedFrame DEF Explain, caseOnly
<1>5. CASE TypeAnswer
  <2>1. \A p : Earned(p) => Earned(p)' BY <1>5, EarnedStays DEF TypeAnswer
  <2> QED BY <1>5, <2>1, EarnedFrame DEF TypeAnswer, caseOnly
<1>6. CASE CoachReveal
  <2>1. /\ coached' = coached \cup {phase} /\ attempted
        /\ UNCHANGED <<phase, attempted, turns>>
    BY <1>6 DEF CoachReveal, MayReveal, flowVars
  <2>2. Earned(phase) BY <2>1 DEF EarnedInv
  <2> QED BY <2>1, <2>2 DEF EarnedInv, Earned
<1>7. CASE NextPhase
  <2>1. turns' = turns /\ coached' = coached BY <1>7 DEF NextPhase
  <2>2. \A p : Earned(p) => Earned(p)' BY <2>1 DEF Earned
  <2>3. CASE IsTerminal BY <1>7, <2>1, <2>2, <2>3, EarnedFrame DEF NextPhase, flowVars
  <2>4. CASE ~IsTerminal
    <3>1. ~attempted' BY <1>7, <2>4, NextPhaseMoves DEF EnterNextPhase
    <3> QED BY <2>1, <2>2, <3>1, EarnedFrame
  <2> QED BY <2>3, <2>4
<1>8. CASE ShowExhibit \/ Score \/ StoreScore \/ ShowAnswer \/ NextSection \/ GradeAnswer
           \/ AnswerDrill \/ RecordSprint \/ CallFails \/ ResultsFail \/ Quit \/ EndSession \/ Over
  <2>1. UNCHANGED <<turns, coached, attempted, phase>>
    BY <1>8
       DEF ShowExhibit, Score, StoreScore, ShowAnswer, NextSection, GradeAnswer,
           AnswerDrill, RecordSprint, CallFails, ResultsFail, Quit, EndSession, Over, vars, flowVars,
           lessonVars, ownVars, caseOnly
  <2> QED BY <2>1, EarnedFrame DEF Earned
<1> QED BY <1>1, <1>2, <1>3, <1>4, <1>5, <1>6, <1>7, <1>8 DEF Next

-----------------------------------------------------------------------------
(* The inductive invariant: in every behaviour the program is in one of the *)
(* loops of its command, and each loop has left the state as it should.     *)
THEOREM TerminalInvariant == Spec => []IInv
<1>1. IInv /\ [Next]_vars => IInv'
  <2>1. ASSUME IInv, Next PROVE TypeOK'
    <3>1. CASE Over
      BY <2>1, <3>1
         DEF Over, vars, flowVars, lessonVars, ownVars, IInv, TypeOK, FlowTypeOK,
             LessonTypeOK
    <3> QED BY <2>1, <3>1, CaseTypes, LessonTypes, OtherTypes DEF Next
  <2>2. IInv /\ Next => IInv'
    BY <2>1, PlaceStep, CaseStep, QuizStep, SaidStep, EarnedStep DEF IInv
  <2>3. ASSUME IInv, UNCHANGED vars PROVE IInv'
    <3> USE <2>3 DEF vars, flowVars, lessonVars, ownVars, IInv
    <3>1. TypeOK' BY DEF TypeOK, FlowTypeOK, LessonTypeOK
    <3>2. PlaceInv' BY DEF PlaceInv
    <3>3. CaseInv' BY DEF CaseInv
    <3>4. QuizInv' BY QuizFrame
    <3>5. SaidInv' BY DEF SaidInv, StoredAsSaid, Reached, Under
    <3>6. EarnedInv' BY DEF EarnedInv, Earned
    <3> QED BY <3>1, <3>2, <3>3, <3>4, <3>5, <3>6
  <2> QED BY <2>2, <2>3
<1> QED BY TerminalInit, <1>1, PTL DEF Spec

(* Every variable of the command line keeps its type: no row of a scorecard *)
(* beyond the rubric, no answer for a question that the quiz does not have. *)
THEOREM TerminalTypes == Spec => []TypeOK
<1>1. IInv => TypeOK BY DEF IInv
<1> QED BY TerminalInvariant, <1>1, PTL

(* Whatever call fails, the stored conversation is the one the LLM was      *)
(* shown, each reply is filed with its message, and rows are in the order   *)
(* of phases and sections (_phase_loop, _teach_loop).                       *)
THEOREM ConversationIsStored == Spec => []StoredAsSaid
<1>1. IInv => StoredAsSaid BY DEF IInv, SaidInv
<1> QED BY TerminalInvariant, <1>1, PTL

(* However the user leaves, what was shown and stored is whole: reveals     *)
(* were earned by a stored message, the answer came after every phase and   *)
(* with the whole scorecard or none, the quiz was graded once and in order, *)
(* and a complete lesson left nothing out (run_case, run_lesson).           *)
THEOREM OutcomesAreSound == Spec => []OutcomeIsSound
<1>1. IInv => OutcomeIsSound
  <2> SUFFICES ASSUME IInv PROVE OutcomeIsSound OBVIOUS
  <2>1. RevealIsEarned
    <3>1. turns \in Seq(TurnRow) BY DEF IInv, TypeOK
    <3>2. DOMAIN turns = 1 .. Len(turns) BY <3>1
    <3> QED BY <3>2 DEF IInv, EarnedInv, Earned, RevealIsEarned
  <2>2. ResultsAreWhole BY DEF IInv, PlaceInv, CaseInv, ResultsAreWhole
  <2>3. QuizGradedOnce BY DEF IInv, QuizInv
  <2>4. ASSUME stage = Complete
        PROVE  section = NSections - 1 /\ Len(answers) = NQuiz
    BY <2>4, Stages DEF IInv, QuizInv
  <2>5. section \in Nat /\ NSections \in Nat /\ NQuiz \in Nat
    BY LessonAssumption DEF IInv, TypeOK, LessonTypeOK
  <2>6. CompletionCounted BY <2>4, <2>5 DEF CompletionCounted
  <2>7. EveryQuestionAnswered
    <3> SUFFICES ASSUME stage = Complete, NEW q \in 0 .. NQuiz - 1
                 PROVE  \E k \in 1 .. Len(answers) : answers[k].item = q
      BY DEF EveryQuestionAnswered
    <3>1. q + 1 \in 1 .. Len(answers) /\ (q + 1) - 1 = q BY <2>4, <2>5
    <3>2. answers[q + 1].item = (q + 1) - 1 BY <2>3, <3>1 DEF QuizGradedOnce
    <3> QED BY <3>1, <3>2
  <2> QED BY <2>1, <2>2, <2>3, <2>6, <2>7 DEF OutcomeIsSound
<1> QED BY TerminalInvariant, <1>1, PTL
-----------------------------------------------------------------------------
(* The case of the command line implements CaseProtocol.                    *)

Dims == [d \in 1 .. NDims |-> d]
Scores == shown /\ card # <<>>

(* Messages are numbered as they are typed, and dimensions are stored in    *)
(* the rubric's order.                                                      *)
CountedInv ==
  /\ \A k \in 1 .. Len(transcript) : transcript[k].by <= line
  /\ \A k \in 1 .. Len(card) : card[k] = k

(* Neither has begun at the start.                                          *)
LEMMA CountedInit == Init => CountedInv
BY DEF Init, FlowInit, CountedInv

(* One turn more, by the last message or by the one that is typed now.      *)
LEMMA CountedTurn ==
  ASSUME TypeOK, CountedInv, line' \in Nat, line <= line', UNCHANGED card,
         NEW role \in {"user", "assistant"},
         transcript' = Append(transcript, [role |-> role, by |-> line'])
  PROVE  CountedInv'
<1> DEFINE n == Len(transcript)
<1>1. transcript \in Seq(Turn) /\ n \in Nat BY DEF TypeOK, FlowTypeOK
<1>2. \A k \in 1 .. n : transcript[k].by \in Nat
  <2>1. \A k \in 1 .. n : transcript[k] \in Turn BY <1>1
  <2> QED BY <2>1, TerminalAssumption DEF Turn
<1>3. line \in Nat BY TerminalAssumption DEF TypeOK
<1>4. /\ Len(transcript') = n + 1
      /\ \A k \in 1 .. n : transcript'[k] = transcript[k]
      /\ transcript'[n + 1] = [role |-> role, by |-> line']
  BY <1>1
<1>5. \A k \in 1 .. n : transcript[k].by <= line BY DEF CountedInv
<1>6. \A k \in 1 .. n : transcript'[k].by <= line' BY <1>2, <1>3, <1>4, <1>5
<1>7. transcript'[n + 1].by <= line' BY <1>4
<1>8. \A k \in 1 .. n + 1 : k \in 1 .. n \/ k = n + 1 BY <1>1
<1>9. \A k \in 1 .. Len(transcript') : transcript'[k].by <= line'
  BY <1>4, <1>6, <1>7, <1>8
<1> QED BY <1>9 DEF CountedInv

(* The numbering survives every step.                                       *)
LEMMA CountedStep == IInv /\ CountedInv /\ Next => CountedInv'
<1> SUFFICES ASSUME IInv, CountedInv, Next PROVE CountedInv' OBVIOUS
<1> USE DEF IInv
<1>0. line \in Nat BY TerminalAssumption DEF TypeOK
<1>1. CASE Say
  <2>1. line' \in Nat /\ line <= line' BY <1>0, <1>1 DEF Say
  <2> QED BY <1>1, <2>1, CountedTurn DEF Say, RecordTurn
<1>2. CASE Reply
  <2>1. transcript' = Append(transcript, [role |-> "assistant", by |-> line'])
    BY <1>2 DEF Reply, RecordTurn
  <2> QED BY <1>0, <1>2, <2>1, CountedTurn DEF Reply
<1>3. CASE Ask
  <2>1. line' \in Nat /\ line <= line' BY <1>0, <1>3 DEF Ask
  <2> QED BY <1>3, <2>1, CountedTurn DEF Ask, caseOnly
<1>4. CASE Explain
  <2>1. transcript' = Append(transcript, [role |-> "assistant", by |-> line'])
    BY <1>4 DEF Explain
  <2> QED BY <1>0, <1>4, <2>1, CountedTurn DEF Explain, caseOnly
<1>5. CASE StoreScore
  <2>1. card' = Append(card, Len(card) + 1) /\ UNCHANGED <<transcript, line>>
    BY <1>5 DEF StoreScore, flowVars
  <2>2. card \in Seq(1 .. NDims) BY DEF TypeOK
  <2>3. \A k \in 1 .. Len(card') : card'[k] = k BY <2>1, <2>2 DEF CountedInv
  <2> QED BY <2>1, <2>3 DEF CountedInv
<1>6. CASE CoachReveal \/ ShowExhibit \/ NextPhase \/ Score \/ ShowAnswer \/ NextSection
           \/ TypeAnswer \/ GradeAnswer
  <2>1. UNCHANGED <<transcript, card, line>>
    BY <1>6
       DEF CoachReveal, ShowExhibit, NextPhase, Score, ShowAnswer, NextSection,
           TypeAnswer, GradeAnswer, flowVars, ownVars, caseOnly
  <2> QED BY <2>1 DEF CountedInv
<1>7. CASE AnswerDrill \/ RecordSprint \/ CallFails \/ ResultsFail \/ Quit \/ EndSession \/ Over
  <2>1. UNCHANGED <<transcript, card, line>>
    BY <1>7
       DEF AnswerDrill, RecordSprint, CallFails, ResultsFail, Quit, EndSession, Over, vars, flowVars,
           ownVars, caseOnly
  <2> QED BY <2>1 DEF CountedInv
<1> QED BY <1>1, <1>2, <1>3, <1>4, <1>5, <1>6, <1>7 DEF Next

(* The numbering holds of every behaviour.                                  *)
LEMMA CountedInvariant == Spec => []CountedInv
<1>1. CountedInv /\ UNCHANGED vars => CountedInv'
  BY DEF CountedInv, vars, flowVars, ownVars
<1>2. IInv /\ CountedInv /\ [Next]_vars => CountedInv' BY <1>1, CountedStep
<1> QED BY CountedInit, TerminalInvariant, <1>2, PTL DEF Spec

(* A message is a question of the protocol: nobody has used its number.     *)
LEMMA MessageAsks ==
  ASSUME TypeOK, CountedInv, line < MaxLines, line' = line + 1,
         transcript' = Append(transcript, [role |-> "user", by |-> line']),
         UNCHANGED <<phase, card, shown>>
  PROVE  Protocol!Next
<1>1. line' \in Requests BY TerminalAssumption DEF TypeOK
<1>2. \A k \in 1 .. Len(transcript) : transcript[k].by # line'
  <2>1. \A k \in 1 .. Len(transcript) : transcript[k] \in Turn
    BY DEF TypeOK, FlowTypeOK
  <2>2. \A k \in 1 .. Len(transcript) : transcript[k].by \in Nat
    BY <2>1, TerminalAssumption DEF Turn
  <2>3. line \in Nat BY TerminalAssumption DEF TypeOK
  <2> QED BY <2>2, <2>3 DEF CountedInv
<1>3. Protocol!Ask(line') BY <1>2 DEF Protocol!Ask, Scores
<1> QED BY <1>1, <1>3 DEF Protocol!Next

(* A reply answers it: the last turn is the message.                        *)
LEMMA ReplyAnswers ==
  ASSUME IInv, at \in {"reply", "asking"}, stage = Teaching,
         transcript' = Append(transcript, [role |-> "assistant", by |-> line]),
         UNCHANGED <<phase, card, shown>>
  PROVE  Protocol!Next
<1>1. /\ Len(turns) > 0 /\ line > 0 /\ Len(transcript) = Len(turns)
      /\ turns[Len(turns)] = [role |-> "user", by |-> line, under |-> Under]
  BY DEF IInv, SaidInv
<1>2. transcript \in Seq(Turn) /\ Len(transcript) \in Nat
  BY DEF IInv, TypeOK, FlowTypeOK
<1>3. Len(transcript) \in 1 .. Len(transcript) BY <1>1, <1>2
<1>4. transcript[Len(transcript)] = [role |-> turns[Len(transcript)].role,
                                     by |-> turns[Len(transcript)].by]
  BY <1>3 DEF IInv, SaidInv, StoredAsSaid
<1>5. transcript[Len(transcript)] = [role |-> "user", by |-> line]
  BY <1>1, <1>4
<1>6. transcript # <<>> BY <1>1
<1>7. line \in Requests BY <1>1, TerminalAssumption DEF IInv, TypeOK
<1>8. Protocol!Answer(line) BY <1>5, <1>6 DEF Protocol!Answer, Scores
<1> QED BY <1>7, <1>8 DEF Protocol!Next

(* A row of the scorecard is a score of the protocol ...                    *)
LEMMA RowScores ==
  ASSUME IInv, StoreScore
  PROVE  Protocol!Next
<1>1. /\ at = "storing" /\ command = "case"
      /\ card' = Append(card, Len(card) + 1)
      /\ UNCHANGED <<phase, transcript, shown>>
  BY DEF StoreScore, flowVars
<1>2. phase = LastPhase /\ ~shown /\ Len(card) < NDims
  BY <1>1 DEF IInv, CaseInv, PlaceInv
<1>3. Len(card) \in Nat /\ NDims \in Nat BY TerminalAssumption DEF IInv, TypeOK
<1>4. Len(Dims) = NDims /\ Dims[Len(card) + 1] = Len(card) + 1
  BY <1>2, <1>3 DEF Dims
<1>5. Protocol!Score
  BY <1>1, <1>2, <1>4 DEF Protocol!Score, Protocol!AtLast, LastPhase, Dims, Scores
<1> QED BY <1>5 DEF Protocol!Next

(* ... and the model answer ends it, with the whole card or none.           *)
LEMMA AnswerEnds ==
  ASSUME IInv, CountedInv, ShowAnswer
  PROVE  Protocol!Next
<1>1. at = "revealing" /\ command = "case" /\ shown' = TRUE
      /\ UNCHANGED <<phase, transcript, card>>
  BY DEF ShowAnswer, IInv, PlaceInv, flowVars
<1>2. phase = LastPhase /\ ~shown /\ Len(card) \in {0, NDims}
  BY <1>1 DEF IInv, CaseInv
<1>3. card \in Seq(1 .. NDims) /\ NDims \in Nat BY TerminalAssumption DEF IInv, TypeOK
<1>4. card \in {<<>>, Dims}
  <2>1. CASE Len(card) = 0 BY <1>3, <2>1
  <2>2. CASE Len(card) = NDims
    <3>1. card = [k \in 1 .. NDims |-> card[k]] BY <1>3, <2>2
    <3>2. \A k \in 1 .. NDims : card[k] = k BY <2>2 DEF CountedInv
    <3>3. card = Dims BY <3>1, <3>2 DEF Dims
    <3> QED BY <3>3
  <2> QED BY <1>2, <2>1, <2>2
<1>5. Protocol!End
  BY <1>1, <1>2, <1>4 DEF Protocol!End, Protocol!AtLast, LastPhase, Dims, Scores
<1> QED BY <1>5 DEF Protocol!Next

(* Every step is a step of the protocol or a stutter.                       *)
LEMMA StepSimulates ==
  ASSUME IInv, CountedInv, Next
  PROVE  Protocol!Next \/ UNCHANGED <<phase, transcript, card, shown, Scores>>
<1> USE DEF IInv, Scores
<1>1. CASE Say
  BY <1>1, MessageAsks DEF Say, RecordTurn
<1>2. CASE Ask
  BY <1>2, MessageAsks DEF Ask, caseOnly
<1>3. CASE Reply
  BY <1>3, ReplyAnswers DEF Reply, RecordTurn, PlaceInv
<1>4. CASE Explain
  BY <1>4, ReplyAnswers DEF Explain, caseOnly, PlaceInv
<1>5. CASE NextPhase
  <2>1. CASE IsTerminal BY <1>5, <2>1 DEF NextPhase, flowVars
  <2>2. CASE ~IsTerminal
    <3>1. phase' = phase + 1 /\ UNCHANGED <<transcript, card, shown>>
      BY <1>5, <2>2, NextPhaseMoves DEF EnterNextPhase
    <3>2. at = "phase" /\ ~shown BY <1>5 DEF NextPhase, CaseInv
    <3>3. phase # NPhases - 1
      BY <2>2, CaseAssumption DEF IsTerminal, LastPhase, TypeOK, FlowTypeOK
    <3>4. Protocol!NextPhase
      BY <3>1, <3>2, <3>3 DEF Protocol!NextPhase, Protocol!AtLast
    <3> QED BY <3>4 DEF Protocol!Next
  <2> QED BY <2>1, <2>2
<1>6. CASE StoreScore BY <1>6, RowScores
<1>7. CASE ShowAnswer BY <1>7, AnswerEnds
<1>8. CASE CoachReveal \/ ShowExhibit \/ Score \/ NextSection \/ TypeAnswer \/ GradeAnswer
  BY <1>8
     DEF CoachReveal, ShowExhibit, Score, NextSection, TypeAnswer, GradeAnswer, flowVars,
         ownVars, caseOnly
<1>9. CASE AnswerDrill \/ RecordSprint \/ CallFails \/ ResultsFail \/ Quit \/ EndSession \/ Over
  BY <1>9
     DEF AnswerDrill, RecordSprint, CallFails, ResultsFail, Quit, EndSession, Over, vars, flowVars,
         ownVars, caseOnly
<1> QED BY <1>1, <1>2, <1>3, <1>4, <1>5, <1>6, <1>7, <1>8, <1>9 DEF Next

(* A case at the command line implements CaseProtocol, the specification    *)
(* that the web's case implements too: phases in order, replies to the      *)
(* message they answer, scores in the last phase, and an end with the whole *)
(* sheet or none, after which nothing changes but the talk.                 *)
THEOREM CommandLineImplementsProtocol == Spec => ImplementsProtocol
<1>1. Init => Protocol!Init BY DEF Init, FlowInit, Protocol!Init, Scores
<1>2. IInv /\ CountedInv /\ [Next]_vars
        => [Protocol!Next]_<<phase, transcript, card, shown, Scores>>
  <2>1. UNCHANGED vars => UNCHANGED <<phase, transcript, card, shown, Scores>>
    BY DEF vars, flowVars, ownVars, Scores
  <2> QED BY <2>1, StepSimulates
<1> QED
  BY <1>1, <1>2, TerminalInvariant, CountedInvariant, PTL
     DEF Spec, ImplementsProtocol, Protocol!Spec, Scores
=============================================================================
