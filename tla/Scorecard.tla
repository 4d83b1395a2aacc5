----------------------------- MODULE Scorecard -----------------------------
(***************************************************************************)
(* The arithmetic of a scorecard (engine/scoring.py): which turns the       *)
(* scoring model is shown, what hints cost, which anchor of the rubric      *)
(* explains a score and what to study next.  A turn is its length in        *)
(* characters; a dimension is its place in the card.                        *)
(***************************************************************************)
EXTENDS Integers, Sequences, SequencesExt

CONSTANTS
  NDims,        \* the dimensions of the rubric
  Budget,       \* the characters of a transcript that fit a scoring call
  TurnLengths,
  HintCosts,    \* the configured costs, in tenths of a point
  Rubrics,      \* the levels a rubric anchors: a table of any integers, or none
  Scores,       \* the integers the model may give, in the range or not
  MaxTurns, MaxHints   \* bounds of the model

ASSUME ScorecardAssumption ==
  /\ NDims \in Nat \ {0} /\ Budget \in Nat /\ TurnLengths \subseteq Nat \ {0}
  /\ HintCosts \subseteq Nat /\ Scores \subseteq Int
  /\ \A r \in Rubrics :
       r \subseteq Int /\ (r = {} \/ \E low \in r : \A k \in r : low <= k)
  /\ MaxTurns \in Nat /\ MaxHints \in Nat

VARIABLES
  turns,    \* the lengths of the transcript's turns
  hints,    \* the hints used
  hintCost, \* the configured cost of a hint
  anchors,  \* the levels the rubric anchors
  judged    \* the scores the model gave, in the rubric's order

scorecardVars == <<turns, hints, hintCost, anchors, judged>>

(* The range the model is asked for, which _parse does not check.           *)
Score == 1..5

Total(lengths) == FoldLeft(LAMBDA sum, n : sum + n, 0, lengths)

(* One step of the loop: a turn over the budget ends it, but for the first. *)
KeepTurn(n, acc) ==
  IF acc.full THEN acc
  ELSE IF Total(acc.kept) + n > Budget /\ acc.kept # <<>>
       THEN [acc EXCEPT !.full = TRUE]
       ELSE [acc EXCEPT !.kept = <<n>> \o @]

(* From the newest turn on, those that fit.                                 *)
FitTranscript(lengths) ==
  FoldRight(KeepTurn, lengths, [kept |-> <<>>, full |-> FALSE]).kept

(* round() of n tenths: to the nearest integer, halves to the even one.     *)
Round(n) ==
  LET q == n \div 10
  IN IF n % 10 > 5 \/ (n % 10 = 5 /\ q % 2 = 1) THEN q + 1 ELSE q

Penalty(used) == Round(used * hintCost)

Lowest(levels) == CHOOSE k \in levels : \A l \in levels : k <= l
Highest(levels) == CHOOSE k \in levels : \A l \in levels : k >= l

(* A mutant: hints cost points, whatever is left.                           *)
DockedBelow(score, used) == score - Penalty(used)

(* A mutant: a score that has no room for the penalty keeps its points.     *)
DockedIfRoom(score, used) ==
  IF score - Penalty(used) < 1 THEN score ELSE score - Penalty(used)

(* A score after the hints are docked, never below 1.                       *)
Docked(score, used) ==
  IF Penalty(used) <= 0 THEN score ELSE Highest({1, score - Penalty(used)})

(* The level whose text explains a score; a table without levels has none,  *)
(* and looking it up raises.                                                *)
AnchorFor(levels, score) ==
  LET below == {k \in levels : k <= score}
  IN IF below # {} THEN Highest(below) ELSE Lowest(levels)

(* The dimensions of the lowest score.                                      *)
StudyNext(scores) ==
  {i \in DOMAIN scores : \A j \in DOMAIN scores : scores[i] <= scores[j]}

ScorecardInit ==
  /\ turns = <<>> /\ hints = 0 /\ judged = <<>>
  /\ hintCost \in HintCosts /\ anchors \in Rubrics

SayTurn(n) ==
  /\ judged = <<>> /\ Len(turns) < MaxTurns
  /\ turns' = Append(turns, n)
  /\ UNCHANGED <<hints, hintCost, anchors, judged>>

TakeHint ==
  /\ judged = <<>> /\ hints < MaxHints
  /\ hints' = hints + 1
  /\ UNCHANGED <<turns, hintCost, anchors, judged>>

(* The model's score for the next dimension: _parse takes any integer.      *)
Judge(score) ==
  /\ Len(judged) < NDims
  /\ judged' = Append(judged, score)
  /\ UNCHANGED <<turns, hints, hintCost, anchors>>

ScorecardNext ==
  \/ TakeHint
  \/ \E n \in TurnLengths : SayTurn(n)
  \/ \E score \in Scores : Judge(score)

(* The card that is stored and shown.                                       *)
Card == [i \in DOMAIN judged |-> Docked(judged[i], hints)]

ScorecardTypeOK ==
  /\ turns \in Seq(TurnLengths) /\ hints \in 0..MaxHints
  /\ hintCost \in HintCosts /\ anchors \in Rubrics
  /\ judged \in Seq(Scores) /\ Card \in Seq(Int)
  /\ \A i \in DOMAIN judged : judged[i] \in Score => Card[i] \in Score

(* The scoring call sees the end of the transcript without a gap: what is   *)
(* kept is a suffix, it is over the budget only if it is a single turn, and *)
(* the turn before it would not have fitted (_fit_transcript).              *)
TranscriptFits ==
  LET kept == FitTranscript(turns)
      cut == Len(turns) - Len(kept)
  IN /\ kept = SubSeq(turns, cut + 1, Len(turns))
     /\ turns # <<>> => kept # <<>>
     /\ Total(kept) <= Budget \/ Len(kept) = 1
     /\ cut > 0 => Total(kept) + turns[cut] > Budget

(* Docking keeps the order of the dimensions: the lowest stay the lowest,   *)
(* so what to study next never loses a dimension to the floor, and hints    *)
(* raise no score, nor does one more (apply_hint_penalty, study_next).  The *)
(* exception is a score below 1, which the model was not asked for: the     *)
(* floor lifts it to 1 with the first point that hints cost.                *)
HintsKeepOrder ==
  /\ \A i, j \in DOMAIN judged : judged[i] <= judged[j] => Card[i] <= Card[j]
  /\ StudyNext(judged) \subseteq StudyNext(Card)
  /\ \A i \in DOMAIN judged :
       judged[i] >= 1 =>
         /\ Card[i] <= judged[i]
         /\ Docked(judged[i], hints + 1) <= Card[i]

(* The feedback of a rubric with levels quotes it and never flatters: the   *)
(* quoted level is one the rubric has, hints never lift it, and it is above *)
(* the score only if the rubric has no level at or below it (_anchor_for).  *)
FeedbackIsAnchored ==
  anchors # {} =>
    \A i \in DOMAIN judged :
      LET quoted == AnchorFor(anchors, Card[i])
      IN /\ quoted \in anchors
         /\ judged[i] >= 1 => quoted <= AnchorFor(anchors, judged[i])
         /\ quoted > Card[i] => \A k \in anchors : k > Card[i]

(* A card is judged from the end of the conversation, docked in order and   *)
(* explained by the rubric.                                                 *)
CardIsFair == TranscriptFits /\ HintsKeepOrder /\ FeedbackIsAnchored
=============================================================================
