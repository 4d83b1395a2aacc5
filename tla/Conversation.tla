---------------------------- MODULE Conversation ----------------------------
(***************************************************************************)
(* POST /message of a session whose reply needs no more than its transcript:*)
(* reply_tokens of LiveLessonSession and LiveGuessSession and the generator *)
(* _stream of app/main.py, run by a set of worker threads.                  *)
(*                                                                          *)
(* A thread that is done with a request is idle and takes the next one, so  *)
(* one thread is a user who waits for each answer and two are requests that *)
(* overlap.  A step runs from one call to the next, and two steps make a    *)
(* call of the store.  A session module extends this one with its flow and  *)
(* tells SendMessage the step or stage the flow is in, a natural number.    *)
(***************************************************************************)
EXTENDS StoreCalls

CONSTANTS
  Threads,   \* the worker threads of the server
  MaxTurns   \* no message is sent once the transcript is that long (a bound
             \* of the model)

ASSUME ThreadAssumption == IsFiniteSet(Threads) /\ MaxTurns \in Nat

VARIABLES
  pc,          \* the call each thread makes next
  label,       \* reply_tokens: the step captured for both turns
  transcript,  \* the flow's _transcript: who spoke
  turns,       \* the session's rows of table turns
  waited       \* history: has no request overlapped another so far?

talkVars == <<label, transcript, turns, callVars>>

Speakers == {"user", "assistant"}
TurnRow == [role : Speakers, phase : Nat]

TalkPlaces == {"idle", "labelled", "heard", "stored", "replied"}

(* Thread t moves on to call l; a user who keeps two threads busy has not   *)
(* waited for an answer.                                                    *)
Goto(t, l) ==
  /\ pc' = [pc EXCEPT ![t] = l]
  /\ waited' = (waited /\ (l = "idle" \/ \A s \in Threads \ {t} : pc[s] = "idle"))

Quiet == \A t \in Threads : pc[t] = "idle"

TalkInit ==
  /\ pc = [t \in Threads |-> "idle"]
  /\ label = [t \in Threads |-> 0]
  /\ transcript = <<>>
  /\ turns = <<>>
  /\ waited = TRUE
  /\ CallsInit(Threads)

RecordTurn(role) == transcript' = Append(transcript, role)

(* The first pull of the generator reads the step.                          *)
SendMessage(t, step) ==
  /\ pc[t] = "idle"
  /\ Len(transcript) < MaxTurns
  /\ label' = [label EXCEPT ![t] = step]
  /\ Goto(t, "labelled")
  /\ UNCHANGED <<transcript, turns, callVars>>

HearUser(t) ==
  /\ pc[t] = "labelled"
  /\ RecordTurn("user")
  /\ Goto(t, "heard")
  /\ UNCHANGED <<label, turns, callVars>>

(* session.record_turn after the flow's own: the store is called with a row *)
(* of the captured label ...                                                *)
BindTurn(t) ==
  /\ \/ pc[t] = "heard"
        /\ BindRow(t, "turns", [role |-> "user", phase |-> label[t]])
     \/ pc[t] = "replied"
        /\ BindRow(t, "turns", [role |-> "assistant", phase |-> label[t]])
  /\ Goto(t, pc[t])
  /\ UNCHANGED <<label, transcript, turns>>

(* ... which it may refuse: the message, or the reply, is in the transcript *)
(* and the request ends.                                                    *)
TurnRefused(t) ==
  /\ pc[t] \in {"heard", "replied"}
  /\ Refused(t)
  /\ Goto(t, "idle")
  /\ UNCHANGED <<label, transcript, turns>>

(* ... or insert, and then return or raise.                                 *)
StoreTurn(t, l) ==
  /\ turns' = turns \o bound.turns
  /\ \E failed \in BOOLEAN :
       Returns(t, failed) /\ Goto(t, IF failed THEN "idle" ELSE l)
  /\ UNCHANGED <<label, transcript>>

StoreUser(t) == pc[t] = "heard" /\ StoreTurn(t, "stored")

(* Mutant: what was streamed before the break joins the transcript only.    *)
ReplyFailsHeard(t) ==
  /\ pc[t] = "stored"
  /\ RecordTurn("assistant")
  /\ Goto(t, "idle")
  /\ UNCHANGED <<label, turns, callVars>>

(* The context cannot be built, no provider serves, the stream breaks off,  *)
(* or the client is gone: the message stays, without a reply.               *)
ReplyFails(t) ==
  /\ pc[t] = "stored"
  /\ Goto(t, "idle")
  /\ UNCHANGED talkVars

HearReply(t) ==
  /\ pc[t] = "stored"
  /\ RecordTurn("assistant")
  /\ Goto(t, "replied")
  /\ UNCHANGED <<label, turns, callVars>>

StoreReply(t) == pc[t] = "replied" /\ StoreTurn(t, "idle")

(* The steps of a message after the first.                                  *)
TalkStep(t) ==
  \/ HearUser(t) \/ BindTurn(t) \/ TurnRefused(t) \/ StoreUser(t)
  \/ ReplyFails(t) \/ HearReply(t) \/ StoreReply(t)

TalkTypeOK ==
  /\ label \in [Threads -> Nat]
  /\ transcript \in Seq(Speakers)
  /\ turns \in Seq(TurnRow)
  /\ CallsTypeOK(Threads, TurnRow, {})

(* record_turn of the flow and of the session manager are two calls, a      *)
(* stream may break anywhere, and calls of the store that overlap may be    *)
(* refused or insert one row twice.  In every interleaving the table has no *)
(* more turns than the LLM is shown; as long as no two calls of the store   *)
(* have met, it has as many whenever no request is under way; and for a     *)
(* user who has waited they are the same turns in the same order.           *)
ConversationStored ==
  /\ Len(turns) <= Len(transcript)
  /\ Quiet /\ overlapped = {} => Len(turns) = Len(transcript)
  /\ Quiet /\ waited => [k \in 1 .. Len(turns) |-> turns[k].role] = transcript
=============================================================================
