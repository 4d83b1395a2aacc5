------------------------------ MODULE Progress ------------------------------
(***************************************************************************)
(* What the stored sessions say about the learner: coverage                 *)
(* (engine/progress.py), the recommended next step (engine/ladder.py) and   *)
(* the flags of the dashboard (engine/dashboard.py).  Nothing is kept but   *)
(* the store's rows: each is computed from them and from the library that   *)
(* is loaded, whose files come and go between two runs.                     *)
(*                                                                          *)
(* A topic is a number, which stands for its place in the alphabet.         *)
(***************************************************************************)
EXTENDS Integers, Sequences, SequencesExt

CONSTANTS
  CaseTopic,    \* the cases and their topics
  Teaches,      \* the lessons and the concepts they teach
  Modes,        \* the modes of a case; "none" is a missing one
  Dimensions,   \* of a scorecard, in their order
  Given,        \* the scores a case may get
  Bar,          \* graduation_min_avg
  MaxRows       \* bound of the model: the sessions of the store

ASSUME ProgressAssumption ==
  /\ \A c \in DOMAIN CaseTopic : CaseTopic[c] \in Nat
  /\ DOMAIN CaseTopic \cap DOMAIN Teaches = {}
  /\ Dimensions \in Seq(STRING)
  /\ Given \subseteq 1..5 /\ Bar \in Nat /\ MaxRows \in Nat

VARIABLES
  rows,     \* the sessions, in the order in which they were created
  library   \* the content that is loaded

progressVars == <<rows, library>>

Contents == DOMAIN CaseTopic \cup DOMAIN Teaches

ProgressTypeOK ==
  /\ \A i \in DOMAIN rows :
       /\ rows[i].content \in Contents
       /\ rows[i].type \in {"case", "diagnostic", "lesson"}
       /\ rows[i].mode \in Modes \cup {"none"} /\ rows[i].ended \in BOOLEAN
       /\ rows[i].scores \in Seq(Given)
  /\ library \subseteq Contents

-----------------------------------------------------------------------------

Sum(numbers) == FoldLeft(LAMBDA total, n : total + n, 0, numbers)

(* The mean of some scores is compared without division: "at least the bar" *)
(* and "less than another mean".                                            *)
AtLeastBar(scores) == Sum(scores) >= Bar * Len(scores)
LessThan(s, t) == Sum(s) * Len(t) < Sum(t) * Len(s)

Known(i) == rows[i].content \in library
CaseRows == {i \in DOMAIN rows : Known(i) /\ rows[i].type = "case"}
ModeOf(i) == IF rows[i].mode = "none" THEN "standard" ELSE rows[i].mode
TopicOf(i) == CaseTopic[rows[i].content]

(* A mutant: taking a lesson again withdraws it until it is finished.       *)
TaughtUntilRetaken ==
  UNION {Teaches[rows[i].content] :
           i \in {j \in DOMAIN rows :
                    /\ Known(j) /\ rows[j].type = "lesson" /\ rows[j].ended
                    /\ \A k \in j + 1..Len(rows) :
                         rows[k].content # rows[j].content}}

Taught ==
  UNION {Teaches[rows[i].content] :
           i \in {j \in DOMAIN rows :
                    Known(j) /\ rows[j].type = "lesson" /\ rows[j].ended}}

Topics == {TopicOf(i) : i \in CaseRows}
Attempts(topic, mode) ==
  Cardinality({i \in CaseRows : TopicOf(i) = topic /\ ModeOf(i) = mode})

(* The scores of a topic in some modes.                                     *)
ScoresOf(topic, modes) ==
  FoldLeft(LAMBDA all, i : IF i \in CaseRows /\ TopicOf(i) = topic
                              /\ ModeOf(i) \in modes
                           THEN all \o rows[i].scores ELSE all,
           <<>>, [i \in DOMAIN rows |-> i])
StandardScores(topic) == ScoresOf(topic, {"standard"})
AllScores(topic) == ScoresOf(topic, Modes \cup {"standard"})

Graduated ==
  {t \in Topics : StandardScores(t) # <<>> /\ AtLeastBar(StandardScores(t))}

(* A mutant: the scores of standard cases only.                             *)
ScoredStandard == {t \in Topics : StandardScores(t) # <<>>}

Scored == {t \in Topics : AllScores(t) # <<>>}

(* The rules in their order; topic 0 when the rule names none.              *)
Recommend ==
  CASE Taught = {} /\ Topics = {} -> [rule |-> "cold-start", topic |-> 0]
    [] (Taught # {} \/ Topics # {}) /\ Graduated # {} ->
         [rule |-> "graduation",
          topic |-> CHOOSE t \in Graduated : \A u \in Graduated : t <= u]
    [] Topics # {} /\ Graduated = {} /\ Scored # {} ->
         [rule |-> "weakness",
          topic |-> CHOOSE t \in Scored : \A u \in Scored :
                      \/ LessThan(AllScores(t), AllScores(u))
                      \/ /\ ~LessThan(AllScores(u), AllScores(t))
                         /\ t <= u]
    [] OTHER -> [rule |-> "explore", topic |-> 0]

(* The dashboard's series of a dimension: of every session in the store.    *)
Series(d) ==
  FoldLeft(LAMBDA all, row : IF d \in DOMAIN row.scores
                             THEN Append(all, row.scores[d]) ELSE all,
           <<>>, rows)
Weaknesses ==
  {d \in DOMAIN Dimensions : Series(d) # <<>> /\ ~AtLeastBar(Series(d))}

-----------------------------------------------------------------------------

ProgressInit == rows = <<>> /\ library \in SUBSET Contents

(* A session of a case, of the diagnostic or of a lesson is created.        *)
Create(content, type, mode) ==
  /\ content \in library /\ Len(rows) < MaxRows
  /\ rows' = Append(rows, [content |-> content, type |-> type, mode |-> mode,
                           ended |-> FALSE, scores |-> <<>>])
  /\ UNCHANGED library

CreateSession ==
  \/ \E c \in DOMAIN CaseTopic, m \in Modes : Create(c, "case", m)
  \/ \E c \in DOMAIN CaseTopic : Create(c, "diagnostic", "none")
  \/ \E c \in DOMAIN Teaches : Create(c, "lesson", "none")

(* The next dimension of a scorecard; each is stored by a commit of its own.*)
AddScore(i, score) ==
  /\ rows[i].type # "lesson" /\ ~rows[i].ended
  /\ Len(rows[i].scores) < Len(Dimensions)
  /\ rows' = [rows EXCEPT ![i].scores = Append(@, score)]
  /\ UNCHANGED library

Finish(i) ==
  /\ ~rows[i].ended
  /\ rows' = [rows EXCEPT ![i].ended = TRUE]
  /\ UNCHANGED library

(* The next run of the program finds a file more, or one less.              *)
Reload ==
  \E c \in Contents :
    /\ library' = IF c \in library THEN library \ {c} ELSE library \cup {c}
    /\ UNCHANGED rows

ProgressNext ==
  \/ CreateSession \/ Reload
  \/ \E i \in DOMAIN rows :
       Finish(i) \/ \E score \in Given : AddScore(i, score)

-----------------------------------------------------------------------------

(* A recommendation can be defended from the rows, in whatever order        *)
(* sessions were created, scored, ended or lost their file: to graduate, a  *)
(* case was attempted in standard mode; "keep practicing" names a topic     *)
(* whose average is below the bar, at least if it was practiced in standard *)
(* mode only; and who is told to get a first scorecard has none for any     *)
(* case of the library (docs/05_IMPLEMENTATION_PLAN.md:57: "after 5 sessions *)
(* the home screen recommends a defensible next step").                     *)
NextStepDefensible ==
  LET r == Recommend
  IN /\ r.rule = "graduation" => Attempts(r.topic, "standard") > 0
     /\ r.rule = "weakness" =>
          (StandardScores(r.topic) = AllScores(r.topic)
             => ~AtLeastBar(AllScores(r.topic)))
     /\ r.rule \in {"explore", "cold-start"} =>
          \A i \in CaseRows : rows[i].scores = <<>>

(* The ladder and the dashboard agree: if the ladder says that a topic is   *)
(* weak, and standard cases of the library are all that was scored, then    *)
(* the dashboard flags some dimension as weak (ladder.recommend against     *)
(* dashboard.build_dashboard, which average the same rows in two ways).     *)
WeaknessShows ==
  (/\ Recommend.rule = "weakness"
   /\ \A i \in DOMAIN rows : rows[i].scores # <<>> =>
        i \in CaseRows /\ ModeOf(i) = "standard")
    => Weaknesses # {}

(* As long as no content disappears, what was learnt is never unlearnt:     *)
(* concepts stay taught, attempts are never fewer, and nobody is sent back  *)
(* to a cold start (build_coverage).                                        *)
ProgressOnlyGrows ==
  [][library \subseteq library' =>
       /\ Taught \subseteq Taught'
       /\ \A t \in Topics, m \in Modes :
            Attempts(t, m)' >= Attempts(t, m)
       /\ Recommend'.rule = "cold-start" => Recommend.rule = "cold-start"
    ]_progressVars

(* The ladder's advice and the dashboard's flags hold up against the rows.  *)
AdviceHolds == NextStepDefensible /\ WeaknessShows
=============================================================================
