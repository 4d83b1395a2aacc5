------------------------------ MODULE Numbers ------------------------------
(***************************************************************************)
(* The numbers of a spoken turn: how a transcript's words are read as       *)
(* numbers, shown, offered for confirmation (engine/stt_postprocess.py) and *)
(* compared with a checkpoint (engine/math_checker.py).                     *)
(*                                                                          *)
(* A token is a record; its word is "figure" for digits, which carry their  *)
(* number.  Numbers count parts, One of which make one; a value is          *)
(* [n, percent]: n parts, or n hundredths of a part.  Punctuation is        *)
(* dropped by the tokenizer.                                                *)
(***************************************************************************)
EXTENDS Integers, Sequences, SequencesExt

CONSTANTS
  One,          \* the parts of one: how fine a figure can be
  Units,        \* the number words and their values
  Scales,       \* the words that close a group, and their factors
  Homophone,    \* fifteen <-> fifty: each word with the one it sounds like
  Figures,      \* the numbers that are spoken as digits, in parts
  Expected, Tolerance, CommonErrors,  \* a checkpoint
  MaxWords, MaxZeros   \* bounds of the model: the tokens of a turn, and ...
                       \* ... the zeros that its multipliers append

ASSUME NumbersAssumption ==
  /\ One \in Nat \ {0}
  /\ \A w \in DOMAIN Units : Units[w] \in Nat
  /\ \A w \in DOMAIN Scales : Scales[w] \in Nat \ {0}
  /\ \A w \in DOMAIN Homophone :
       /\ w \in DOMAIN Units
       /\ Homophone[w] \in DOMAIN Homophone /\ Homophone[Homophone[w]] = w
  /\ DOMAIN Units \cap DOMAIN Scales = {}
  /\ {"figure", "hundred", "%", "percent", "plain"}
       \cap (DOMAIN Units \cup DOMAIN Scales) = {}
  /\ Figures \subseteq Nat
  /\ CommonErrors \in Seq(Int) /\ MaxWords \in Nat /\ MaxZeros \in Nat

VARIABLES
  heard,      \* the raw transcript
  confirmed   \* the values the user has confirmed

numbersVars == <<heard, confirmed>>

Word(w) == [word |-> w, n |-> 0, percent |-> FALSE]
Figure(v) == [word |-> "figure", n |-> v.n, percent |-> v.percent]

(* The words for percent: the sign, and "percent" or "percentage".          *)
PercentWords == {"%", "percent"}

Words ==
  DOMAIN Units \cup DOMAIN Scales \cup PercentWords \cup {"hundred", "plain"}
SpokenToken ==
  {Word(w) : w \in Words} \cup
  {Figure([n |-> n, percent |-> FALSE]) : n \in Figures}

Value == [n : Nat, percent : BOOLEAN]

IsNumToken(t) == t.word # "plain"
OrOne(n) == IF n = 0 THEN One ELSE n

(* One token of a phrase.  The reading so far is what the closed groups add *)
(* up to, the open group, and whether a word for percent was met.           *)
Read(acc, t) ==
  CASE t.word = "figure" ->
         [acc EXCEPT !.current = @ + t.n, !.percent = @ \/ t.percent]
    [] t.word \in DOMAIN Units -> [acc EXCEPT !.current = @ + Units[t.word] * One]
    [] t.word = "hundred" -> [acc EXCEPT !.current = OrOne(@) * 100]
    [] t.word \in DOMAIN Scales ->
         [acc EXCEPT !.total = @ + OrOne(acc.current) * Scales[t.word],
                     !.current = 0]
    [] t.word \in PercentWords -> [acc EXCEPT !.percent = TRUE]

PhraseValue(tokens) ==
  LET end == FoldLeft(Read, [total |-> 0, current |-> 0, percent |-> FALSE],
                      tokens)
  IN [n |-> end.total + end.current, percent |-> end.percent]

(* The readings that are offered, the primary one first: a second one if    *)
(* exactly one word is a homophone and it makes a difference.               *)
Candidates(tokens, value) ==
  LET confusable == {i \in DOMAIN tokens : tokens[i].word \in DOMAIN Homophone}
      i == CHOOSE k \in confusable : TRUE
      alt == PhraseValue([tokens EXCEPT ![i] = Word(Homophone[@.word])])
  IN IF Cardinality(confusable) # 1 \/ alt = value
     THEN <<value>> ELSE <<value, alt>>

(* Where a maximal run of number tokens starts, and the run.                *)
RunStarts(ts) ==
  {i \in DOMAIN ts : IsNumToken(ts[i]) /\ (i = 1 \/ ~IsNumToken(ts[i - 1]))}
RunFrom(ts, i) ==
  SubSeq(ts, i, CHOOSE j \in i..Len(ts) :
                  /\ \A k \in i..j : IsNumToken(ts[k])
                  /\ j = Len(ts) \/ ~IsNumToken(ts[j + 1]))

(* Positions in their order: the k-th is the one with k up to it.           *)
InOrder(positions) ==
  [k \in 1..Cardinality(positions) |->
     CHOOSE i \in positions : Cardinality({j \in positions : j <= i}) = k]

DetectNumbers(ts) ==
  LET starts == InOrder(RunStarts(ts))
      Detected(phrase) ==
        [value |-> PhraseValue(phrase),
         candidates |-> Candidates(phrase, PhraseValue(phrase))]
  IN [k \in DOMAIN starts |-> Detected(RunFrom(ts, starts[k]))]

(* A mutant: each number token is shown as a figure of its own.             *)
CleanWordByWord(ts) ==
  [k \in DOMAIN ts |->
     IF IsNumToken(ts[k]) THEN Figure(PhraseValue(<<ts[k]>>)) ELSE ts[k]]

(* Each phrase becomes one figure.                                          *)
Collapsed(ts) ==
  LET kept == InOrder(RunStarts(ts) \cup
                      {i \in DOMAIN ts : ~IsNumToken(ts[i])})
  IN [k \in DOMAIN kept |->
        IF IsNumToken(ts[kept[k]])
        THEN Figure(PhraseValue(RunFrom(ts, kept[k])))
        ELSE ts[kept[k]]]

(* The parts of one in which a value counts, and does str() print it        *)
(* without an exponent?  It does from 0.0001 on.                            *)
Unit(v) == IF v.percent THEN 100 * One ELSE One
PrintsPlainly(v) == v.n = 0 \/ v.n > (Unit(v) - 1) \div 10000

(* A figure as it is printed: 0.00005 is "5e-05", in which every reader     *)
(* finds the figures 5 and -05 with a letter between them.                  *)
Printed(t) ==
  LET e == CHOOSE k \in 5..Unit(t) :
             t.n * 10^k >= Unit(t) /\ t.n * 10^k < 10 * Unit(t)
      Whole(n) == Figure([n |-> n, percent |-> FALSE])
  IN IF t.word # "figure" \/ PrintsPlainly(t) THEN <<t>>
     ELSE <<Whole((t.n * 10^e * One) \div Unit(t)), Word("plain"),
            Whole(-e * One)>>

(* The text that is shown: the collapsed turn, printed.                     *)
CleanTranscript(ts) ==
  LET shown == Collapsed(ts)
  IN IF \A k \in DOMAIN shown : Printed(shown[k]) = <<shown[k]>> THEN shown
     ELSE FlattenSeq([k \in DOMAIN shown |-> Printed(shown[k])])

(* A figure with the suffix that follows it, in the table _SCALES, which    *)
(* knows the sign for percent but not the words.                            *)
Scaled(figure, next) ==
  [n |-> IF next.word \in DOMAIN Scales
         THEN figure.n * Scales[next.word] ELSE figure.n,
   percent |-> figure.percent \/ next.word = "%"]

(* The numbers the math checker finds in a text: digits only.               *)
ParseNumbers(ts) ==
  LET figures == InOrder({i \in DOMAIN ts : ts[i].word = "figure"})
  IN [k \in DOMAIN figures |->
        Scaled(ts[figures[k]],
               IF figures[k] = Len(ts) THEN Word("plain")
               ELSE ts[figures[k] + 1])]

(* Is the value within the tolerance of the number?                         *)
Near(v, number) ==
  v.n - number * Unit(v) \in -(Tolerance * Unit(v))..(Tolerance * Unit(v))

FirstWhere(seq, P(_)) ==
  LET hits == {i \in DOMAIN seq : P(seq[i])}
  IN IF hits = {} THEN 0 ELSE CHOOSE i \in hits : \A j \in hits : i <= j

(* The verdict: the expected value first, then the known errors in the      *)
(* file's order; error is the place of the one that was hit, 0 for None.    *)
CheckValues(nums) ==
  LET matched == FirstWhere(nums, LAMBDA v : Near(v, Expected)) # 0
  IN [matched |-> matched,
      error |-> IF matched THEN 0
                ELSE FirstWhere(CommonErrors, LAMBDA c :
                       FirstWhere(nums, LAMBDA v : Near(v, c)) # 0)]

NumbersInit == heard = <<>> /\ confirmed = <<>>

(* The zeros that a word appends to a number, for the bound.                *)
Zeros(t) ==
  IF t.word = "hundred" THEN 2 ELSE IF t.word \in DOMAIN Scales THEN 3 ELSE 0

(* The recorder's transcript: one word more.                                *)
HearWord(t) ==
  /\ Len(heard) < MaxWords /\ confirmed = <<>>
  /\ FoldLeft(LAMBDA sum, u : sum + Zeros(u), Zeros(t), heard) <= MaxZeros
  /\ heard' = Append(heard, t)
  /\ UNCHANGED confirmed

(* The user picks one of the readings offered for the next number.          *)
ConfirmNumber ==
  LET detected == DetectNumbers(heard)
      next == Len(confirmed) + 1
  IN /\ next <= Len(detected)
     /\ \E c \in DOMAIN detected[next].candidates :
          confirmed' = Append(confirmed, detected[next].candidates[c])
     /\ UNCHANGED heard

NumbersNext == ConfirmNumber \/ \E t \in SpokenToken : HearWord(t)

NumbersTypeOK ==
  /\ heard \in Seq(SpokenToken) /\ Len(heard) <= MaxWords
  /\ confirmed \in Seq(Value)

Phrases == {RunFrom(heard, i) : i \in RunStarts(heard)}

(* What one is worth at each place of a phrase: it is multiplied by a       *)
(* hundred for each "hundred" from there on in its group, and by the scale  *)
(* that closes the group.                                                   *)
Factor(p) ==
  LET F[i \in 1..Len(p) + 1] ==
        IF i > Len(p) THEN 1
        ELSE IF p[i].word \in DOMAIN Scales THEN Scales[p[i].word]
        ELSE IF p[i].word = "hundred" THEN 100 * F[i + 1] ELSE F[i + 1]
  IN F
Amount(t) ==
  IF t.word = "figure" THEN t.n
  ELSE IF t.word \in DOMAIN Units THEN Units[t.word] * One ELSE 0

(* A hundred or a scale that nothing but zeros precedes in its group counts *)
(* one.                                                                     *)
Implicit(p, i) ==
  /\ p[i].word = "hundred" \/ p[i].word \in DOMAIN Scales
  /\ \A j \in 1..i - 1 :
       (\A k \in j..i - 1 : p[k].word \notin DOMAIN Scales)
         => p[j].word # "hundred" /\ Amount(p[j]) = 0
Counted(p, i) == IF Implicit(p, i) THEN One ELSE Amount(p[i])

(* A phrase is read as the sum of its units, each with the scale it belongs *)
(* to, in whatever order hundreds and scales were spoken (_phrase_value).   *)
PhraseIsSum ==
  \A p \in Phrases :
    PhraseValue(p) =
      [n |-> FoldLeft(LAMBDA sum, n : sum + n, 0,
                      [i \in DOMAIN p |-> Counted(p, i) * Factor(p)[i]]),
       percent |-> \E i \in DOMAIN p : p[i].word \in PercentWords]

(* Fifteen and fifty sound alike: whichever of the two was transcribed, the *)
(* user is offered the same readings (stt_postprocess.py:44, "hearing one,  *)
(* the other is always a plausible correction").                            *)
HeardEitherWay ==
  \A p \in Phrases :
    LET confusable == {i \in DOMAIN p : p[i].word \in DOMAIN Homophone}
        Offered(q) == ToSet(Candidates(q, PhraseValue(q)))
        other == [i \in DOMAIN p |-> IF i \in confusable
                                    THEN Word(Homophone[p[i].word]) ELSE p[i]]
    IN Cardinality(confusable) = 1 => Offered(other) = Offered(p)

(* The text shows the numbers that are offered for confirmation: the math   *)
(* checker and the detector both find in the cleaned text, in order, the    *)
(* values detected in the raw one, and cleaning it again changes nothing.   *)
(* The exception is a turn with a value below 0.0001, as in 0.005 percent:  *)
(* _fmt prints it with an exponent, which nobody reads back (:140).         *)
ShownAsDetected ==
  LET shown == CleanTranscript(heard)
      values == [k \in DOMAIN DetectNumbers(heard) |->
                   DetectNumbers(heard)[k].value]
  IN (\A k \in DOMAIN values : PrintsPlainly(values[k])) =>
       /\ ParseNumbers(shown) = values
       /\ CleanTranscript(shown) = shown

(* Typed or spoken, a figure with a suffix that math_checker's table has is *)
(* the same number: what the detector makes of it is what parse_numbers     *)
(* does, but for a zero, which the detector takes for an amount that was    *)
(* left out.  The words hundred, percent and percentage are the detector's  *)
(* alone: typed, "20 percent" is 20.                                        *)
TypedAsSpoken ==
  \A p \in Phrases :
    (/\ p[1].word = "figure" /\ p[1].n # 0
     /\ \A i \in DOMAIN p \ {1} :
          i = 2 /\ p[i].word \in DOMAIN Scales \cup {"%"})
      => ParseNumbers(p) = <<PhraseValue(p)>>

(* The verdict does not depend on the order in which numbers were said: a   *)
(* number near the expected value wins, and otherwise the first of the      *)
(* known errors that any number hits (check_values).                        *)
VerdictIgnoresOrder ==
  CheckValues(Reverse(confirmed)) = CheckValues(confirmed)

(* Spoken, shown, typed and checked, a number stays the same number, with   *)
(* the exceptions above.                                                    *)
NumbersAgree ==
  /\ PhraseIsSum /\ HeardEitherWay /\ ShownAsDetected /\ TypedAsSpoken
  /\ VerdictIgnoresOrder
=============================================================================
