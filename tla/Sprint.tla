------------------------------- MODULE Sprint -------------------------------
(***************************************************************************)
(* Mental-math sprints and flashcards: how the answers of a sprint are      *)
(* graded, recorded and summed up (engine/drills.py, drill_grade of main.py *)
(* and drill_summary of db/store.py).  The client may send fewer or more    *)
(* answers than drills, and None for one it could not read.                 *)
(***************************************************************************)
EXTENDS Integers, Sequences, SequencesExt

CONSTANTS
  Drills,     \* the drills: [kind, answer, tolerance], in percent
  Typed,      \* the numbers a user types
  MaxDrills, MaxAnswers, MaxSprints   \* bounds of the model

ASSUME SprintAssumption ==
  /\ \A d \in Drills : d.answer \in Int /\ d.tolerance \in Nat
  /\ Typed \subseteq Int
  /\ MaxDrills \in Nat /\ MaxAnswers \in Nat /\ MaxSprints \in Nat

VARIABLES
  posed,    \* the drills of the open sprint
  answers,  \* those that were typed: [given, n]
  results,  \* the rows of drill_results
  okItems,  \* history: the items that were shown as right ...
  allItems  \* ... and the drills that were posed, in graded sprints

sprintVars == <<posed, answers, results, okItems, allItems>>

Answer == [given : {TRUE}, n : Typed] \cup {[given |-> FALSE, n |-> 0]}
Kinds == {d.kind : d \in Drills}

Distance(a, b) == IF a > b THEN a - b ELSE b - a

(* Within the tolerance of the answer; the slack of 1e-6 is equality here.  *)
GradeDrill(drill, n) ==
  Distance(n, drill.answer) * 100
    <= drill.tolerance * Distance(drill.answer, 0)

(* The drills that have an answer at all: zip, not strict.                  *)
Paired(drills, given) ==
  {i \in DOMAIN drills : i \in DOMAIN given}

IsOk(drill, a) == a.given /\ GradeDrill(drill, a.n)

(* The items of the reply: one for each pair, with its verdict.             *)
Items(drills, given) ==
  {[place |-> i, ok |-> IsOk(drills[i], given[i])] :
     i \in Paired(drills, given)}

(* A mutant: an answer that could not be read is graded as a zero.          *)
ScoreSprintZeros(drills, given) ==
  LET kinds == {drills[i].kind : i \in DOMAIN drills}
  IN [kind |-> IF Cardinality(kinds) = 1 THEN CHOOSE k \in kinds : TRUE
               ELSE "mixed",
      total |-> Len(drills),
      correct |-> Cardinality({i \in Paired(drills, given) :
                                 GradeDrill(drills[i], given[i].n)})]

ScoreSprint(drills, given) ==
  LET kinds == {drills[i].kind : i \in DOMAIN drills}
  IN [kind |-> IF Cardinality(kinds) = 1 THEN CHOOSE k \in kinds : TRUE
               ELSE "mixed",
      total |-> Len(drills),
      correct |-> Cardinality({i \in Paired(drills, given) :
                                 IsOk(drills[i], given[i])})]

SprintInit ==
  /\ posed = <<>> /\ answers = <<>> /\ results = <<>>
  /\ okItems = 0 /\ allItems = 0

Pose(drill) ==
  /\ answers = <<>> /\ Len(posed) < MaxDrills /\ Len(results) < MaxSprints
  /\ posed' = Append(posed, drill)
  /\ UNCHANGED <<answers, results, okItems, allItems>>

TypeIn(a) ==
  /\ Len(results) < MaxSprints /\ Len(answers) < MaxAnswers
  /\ answers' = Append(answers, a)
  /\ UNCHANGED <<posed, results, okItems, allItems>>

(* drill_grade: the sprint is scored, its row is added, its items are shown.*)
GradeSprint ==
  /\ Len(results) < MaxSprints
  /\ results' = Append(results, ScoreSprint(posed, answers))
  /\ okItems' = okItems +
                Cardinality({item \in Items(posed, answers) : item.ok})
  /\ allItems' = allItems + Len(posed)
  /\ posed' = <<>> /\ answers' = <<>>

SprintNext ==
  \/ GradeSprint
  \/ \E drill \in Drills : Pose(drill)
  \/ \E a \in Answer : TypeIn(a)

SprintTypeOK ==
  /\ posed \in Seq(Drills) /\ answers \in Seq(Answer)
  /\ results \in Seq([kind : Kinds \cup {"mixed"}, total : Nat, correct : Nat])
  /\ okItems \in Nat /\ allItems \in Nat

(* The rollup of the progress view, by kind.                                *)
SumOf(kind, field) ==
  FoldLeft(LAMBDA sum, r : IF r.kind = kind THEN sum + r[field] ELSE sum,
           0, results)
DrillSummary ==
  [k \in {results[i].kind : i \in DOMAIN results} |->
     [attempts |-> SumOf(k, "total"), correct |-> SumOf(k, "correct")]]
SumBy(field) ==
  FoldSet(LAMBDA k, sum : sum + DrillSummary[k][field], 0, DOMAIN DrillSummary)

(* The progress view counts each drill of a graded sprint once, under one   *)
(* kind, and as correct exactly those that the user was shown as right,     *)
(* with however many answers the sprint came back; so no accuracy exceeds   *)
(* one (score_sprint, the items of drill_grade, drill_summary).             *)
SummaryCountsItems ==
  /\ SumBy("attempts") = allItems /\ SumBy("correct") = okItems
  /\ \A k \in DOMAIN DrillSummary :
       DrillSummary[k].correct <= DrillSummary[k].attempts
=============================================================================
