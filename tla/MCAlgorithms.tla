---------------------------- MODULE MCAlgorithms ----------------------------
(* The instance of the algorithm modules that TLC checks in one run: the    *)
(* subject, chosen at the start, is the one module that takes steps.        *)
EXTENDS Sentences, Numbers, Scorecard, Sprint, Progress, Content, TLC

VARIABLE subject

MCUnits ==
  ("zero" :> 0) @@ ("five" :> 5) @@ ("fifteen" :> 15) @@ ("fifty" :> 50)
MCScales == "thousand" :> 1000
MCHomophone == ("fifteen" :> "fifty") @@ ("fifty" :> "fifteen")
MCErrors == <<20, 5>>

MCRubrics == {{1, 3, 5}, {2, 3}, {5}, {}}
MCScores == {0, 1, 2, 4, 7}

MCDrills ==
  {[kind |-> "percent", answer |-> 0, tolerance |-> 0],
   [kind |-> "flashcard", answer |-> -100, tolerance |-> 20]}
MCTyped == {0, -80}

MCCaseTopic == ("case-pricing" :> 1) @@ ("case-profit" :> 2)
MCTeaches == "lesson-basics" :> {"profit tree"}
MCDimensions == <<"structure", "math">>

MCFolder ==
  ("case1" :> "cases") @@ ("case2" :> "cases") @@
  ("guess1" :> "guesstimates") @@ ("benchmarks" :> "benchmarks") @@
  ("lesson1" :> "lessons") @@ ("lesson2" :> "lessons")
MCPaths == DOMAIN MCFolder
MCIds ==
  ("cases" :> {"case-a", "case-b"}) @@ ("guesstimates" :> {"guess-a"}) @@
  ("lessons" :> {"lesson-a", "lesson-b"})
MCRefs == ("cases" :> {"lesson-a"}) @@ ("guesstimates" :> {"population"})

vars == <<subject, sentencesVars, numbersVars, scorecardVars, sprintVars,
          progressVars, contentVars>>

(* What only one subject chooses is fixed for the others.                   *)
Init ==
  /\ subject \in {"sentences", "numbers", "scorecard", "sprint", "progress",
                  "content"}
  /\ SentencesInit /\ NumbersInit /\ ScorecardInit /\ SprintInit
  /\ ProgressInit /\ ContentInit
  /\ subject # "scorecard" => hintCost = 10 /\ anchors = {5}
  /\ subject # "progress" => library = {}

Next ==
  /\ UNCHANGED subject
  /\ IF subject = "sentences" THEN SentencesNext ELSE UNCHANGED sentencesVars
  /\ IF subject = "numbers" THEN NumbersNext ELSE UNCHANGED numbersVars
  /\ IF subject = "scorecard" THEN ScorecardNext ELSE UNCHANGED scorecardVars
  /\ IF subject = "sprint" THEN SprintNext ELSE UNCHANGED sprintVars
  /\ IF subject = "progress" THEN ProgressNext ELSE UNCHANGED progressVars
  /\ IF subject = "content" THEN ContentNext ELSE UNCHANGED contentVars

Spec == Init /\ [][Next]_vars

(* Types; above all, a score that the model gave in the range of one to     *)
(* five is stored in it, however many hints are docked.                     *)
TypeOK ==
  /\ SentencesTypeOK /\ NumbersTypeOK /\ ScorecardTypeOK /\ SprintTypeOK
  /\ ProgressTypeOK /\ ContentTypeOK
=============================================================================
