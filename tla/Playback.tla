------------------------------ MODULE Playback ------------------------------
(***************************************************************************)
(* Spoken replies in the browser: enqueueAudio, playNextAudio and stopAudio *)
(* of web/app.js.  Sentences are numbered in the order they arrive.  The    *)
(* Audio element (external) calls back when it ends or fails; the module    *)
(* has no behaviour of its own.                                             *)
(***************************************************************************)
EXTENDS Naturals, Sequences, FiniteSets

VARIABLES
  audioQueue,    \* the sentences that wait
  audioPlaying,  \* the flag: is a chain of players running?
  players,       \* the sentences whose Audio element is still playing
  arrived,       \* history: the number of sentences that have arrived
  started        \* history: the sentences in the order they were started

audioVars == <<audioQueue, audioPlaying, players, arrived, started>>

AudioInit ==
  /\ audioQueue = <<>> /\ audioPlaying = FALSE /\ players = {}
  /\ arrived = 0 /\ started = <<>>

(* playNextAudio, with queue and live as its caller has left them.          *)
PlayNext(queue, live) ==
  IF queue = <<>>
    THEN /\ audioQueue' = <<>> /\ audioPlaying' = FALSE
         /\ players' = live /\ UNCHANGED started
    ELSE /\ audioQueue' = Tail(queue) /\ audioPlaying' = TRUE
         /\ players' = live \cup {Head(queue)}
         /\ started' = Append(started, Head(queue))

(* Mutant: the newest sentence goes to the front.                           *)
QueuedFirst == <<arrived + 1>> \o audioQueue

(* Mutant: an index ahead.                                                  *)
QueuedAhead == Append(audioQueue, arrived + 2)

Queued == Append(audioQueue, arrived + 1)

Enqueue ==
  /\ arrived' = arrived + 1
  /\ IF audioPlaying
       THEN audioQueue' = Queued /\ UNCHANGED <<audioPlaying, players, started>>
       ELSE PlayNext(Queued, players)

(* Mutant: a sentence that ends does not start the next one.                *)
PlayerEndsSilently(k) ==
  /\ k \in players
  /\ players' = players \ {k}
  /\ UNCHANGED <<audioQueue, audioPlaying, arrived, started>>

(* onended; or onerror alone, in the middle of a sentence.                  *)
PlayerEnds(k) ==
  /\ k \in players
  /\ PlayNext(audioQueue, players \ {k})
  /\ UNCHANGED arrived

(* A sentence that cannot be played at all: both onerror and the rejected   *)
(* promise of play() call playNextAudio.                                    *)
PlayerRefused(k) ==
  /\ k \in players
  /\ UNCHANGED arrived
  /\ LET n == Len(audioQueue)
         taken == SubSeq(audioQueue, 1, IF n < 2 THEN n ELSE 2)
     IN  /\ audioQueue' = SubSeq(audioQueue, Len(taken) + 1, n)
         /\ audioPlaying' = (n >= 2)
         /\ players' = (players \ {k}) \cup {taken[i] : i \in DOMAIN taken}
         /\ started' = started \o taken

(* stopAudio: the element that is playing is not stopped.                   *)
StopAudio ==
  /\ audioQueue' = <<>> /\ audioPlaying' = FALSE
  /\ UNCHANGED <<players, arrived, started>>

AudioTypeOK ==
  /\ audioQueue \in Seq(1 .. arrived)
  /\ audioPlaying \in BOOLEAN
  /\ players \subseteq 1 .. arrived
  /\ arrived \in Nat
  /\ started \in Seq(1 .. arrived)

(* "Queue so sentences play in order" (app.js:687): in every interleaving   *)
(* no sentence is started before an earlier one, or twice.                  *)
StartedInOrder ==
  \A i, j \in DOMAIN started : i < j => started[i] < started[j]

(* One sentence is heard at a time.                                         *)
OneVoice == Cardinality(players) <= 1
=============================================================================
