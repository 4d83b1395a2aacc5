----------------------------- MODULE Sentences -----------------------------
(***************************************************************************)
(* How a reply that streams in token by token is cut into the sentences     *)
(* that are spoken (speech/tts.py, _sse_with_audio of main.py).  A          *)
(* character is of one of four classes: "word", "stop" (. ! ?), "close" (a  *)
(* quote or bracket that closes) and "space".                               *)
(***************************************************************************)
EXTENDS Naturals, Sequences, SequencesExt

CONSTANTS
  MaxText,    \* bounds of the model: the characters of a reply
  MaxToken    \* and of a token

ASSUME SentencesAssumption == MaxText \in Nat /\ MaxToken \in Nat

VARIABLES
  reply,     \* history: the characters streamed so far
  buf,       \* those that are not spoken yet
  said       \* the sentences given to the synthesizer

sentencesVars == <<reply, buf, said>>

Char == {"word", "stop", "close", "space"}
Token == UNION {[1..n -> Char] : n \in 1..MaxToken}

SentencesTypeOK ==
  /\ reply \in Seq(Char) /\ Len(reply) <= MaxText
  /\ buf \in Seq(Char)
  /\ said \in Seq(Seq(Char) \ {<<>>})

AllIn(text, from, to, class) == \A k \in from..to : text[k] = class

(* Stops from i, closers, and spaces up to j, with none left out.           *)
Ending(text, i, j) ==
  \E a \in i..j, b \in i..j :
    /\ a <= b /\ b < j
    /\ AllIn(text, i, a, "stop")
    /\ AllIn(text, a + 1, b, "close")
    /\ AllIn(text, b + 1, j, "space")

(* The match of _SENT from i to j.                                          *)
IsEnd(text, i, j) ==
  Ending(text, i, j) /\ (j = Len(text) \/ text[j + 1] # "space")

Strip(text) ==
  LET ink == {k \in DOMAIN text : text[k] # "space"}
  IN IF ink = {} THEN <<>>
     ELSE SubSeq(text, CHOOSE k \in ink : \A l \in ink : k <= l,
                       CHOOSE k \in ink : \A l \in ink : k >= l)

Flush(text) == IF Strip(text) = <<>> THEN <<>> ELSE <<Strip(text)>>

(* The leftmost match at or after p; 0 when there is none.                  *)
FirstEnd(text, p) ==
  LET starts == {i \in p..Len(text) :
                   \E j \in i..Len(text) : IsEnd(text, i, j)}
      i == CHOOSE k \in starts : \A l \in starts : k <= l
  IN IF starts = {} THEN 0 ELSE CHOOSE j \in i..Len(text) : IsEnd(text, i, j)

(* The complete sentences of a text, and what is left of it.                *)
DrainSentences(text) ==
  LET From[p \in 1..Len(text) + 1] ==
        LET e == FirstEnd(text, p)
        IN IF e = 0 THEN [out |-> <<>>, rest |-> SubSeq(text, p, Len(text))]
           ELSE [From[e + 1] EXCEPT !.out = <<Strip(SubSeq(text, p, e))>> \o @]
  IN From[1]

SplitSentences(text) ==
  LET d == DrainSentences(text) IN d.out \o Flush(d.rest)

SentencesInit == reply = <<>> /\ buf = <<>> /\ said = <<>>

(* A mutant: the token is drained without what the buffer held.             *)
HearTokenAlone(token) ==
  /\ Len(reply) + Len(token) <= MaxText
  /\ reply' = reply \o token
  /\ LET d == DrainSentences(token)
     IN said' = said \o d.out /\ buf' = d.rest

(* The loop over the stream: the token is added, the finished sentences     *)
(* leave the buffer.                                                        *)
HearToken(token) ==
  /\ Len(reply) + Len(token) <= MaxText
  /\ reply' = reply \o token
  /\ LET d == DrainSentences(buf \o token)
     IN said' = said \o d.out /\ buf' = d.rest

SentencesNext == \E token \in Token : HearToken(token)

(* Where a sentence of the whole reply ends: at the last of the spaces that *)
(* follow a stop and any closers.                                           *)
Boundaries(text) ==
  {j \in DOMAIN text :
     /\ text[j] = "space"
     /\ j = Len(text) \/ text[j + 1] # "space"
     /\ \E i \in 1..j - 1, b \in 1..j - 1 :
          /\ i <= b /\ text[i] = "stop"
          /\ AllIn(text, i + 1, b, "close") /\ AllIn(text, b + 1, j, "space")}

(* However the stream cuts the reply into tokens, the sentences that have   *)
(* been spoken and the remainder that the end of the stream flushes are the *)
(* sentences of the whole reply: nothing is lost, said twice or cut in two  *)
(* at a token's edge (the loop of _sse_with_audio and iter_sentences).      *)
SpokenAsWritten == said \o Flush(buf) = SplitSentences(reply)

(* A sentence is spoken with the token that completes it, while the rest    *)
(* streams, and nothing else is: one sentence for each boundary of the text *)
(* so far (drain_sentences: a decimal or a dot inside a word is no end).    *)
SpokenAtOnce == Len(said) = Cardinality(Boundaries(reply))

(* A spoken reply is the written one, sentence by sentence, without delay.  *)
SpeechIsFaithful == SpokenAsWritten /\ SpokenAtOnce
=============================================================================
