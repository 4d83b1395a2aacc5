---------------------------- MODULE CaseSession ----------------------------
(***************************************************************************)
(* One case session behind the web API: LiveCaseSession of app/main.py with *)
(* its CaseFlow, its SessionManager and the rows they leave in the store.   *)
(*                                                                          *)
(* FastAPI runs every request of the session in a worker thread, and a      *)
(* reply is streamed by a generator whose body runs only when the response  *)
(* is pulled.  A request is a thread with a program counter pc[r]; a step   *)
(* runs from one point where the thread can lose the processor (a database  *)
(* call, a call to the LLM, a call into the flow) to the next, and two      *)
(* steps make a call of the store.  Each request id is used once, so        *)
(* Requests bounds the length of a session; MaxInFlight bounds how many     *)
(* requests overlap.                                                        *)
(*                                                                          *)
(* With Sequential the user waits for each answer before the next request,  *)
(* which is what app/db/store.py and docs/decisions.md assume.  Nothing in  *)
(* the server or in web/app.js enforces it.                                 *)
(***************************************************************************)
EXTENDS CaseFlow, StoreCalls, SequencesExt

CONSTANTS
  Sequential,  \* does the user wait for each answer?
  MaxInFlight, \* bound: requests under way at once
  Dims,        \* CASE_DIMENSIONS, a sequence
  HintCost,    \* config.scoring.hint_cost, points per hint
  ShowScores   \* config.score_visibility

ASSUME SessionAssumption ==
  /\ Sequential \in BOOLEAN /\ MaxInFlight \in Nat \ {0}
  /\ Dims \in Seq(STRING) /\ Len(Dims) > 0
  /\ \A m, n \in 1 .. Len(Dims) : Dims[m] = Dims[n] => m = n
  /\ HintCost \in Nat
  /\ ShowScores \in BOOLEAN

VARIABLES
  pc,        \* where the thread of each request is
  loc,       \* the local variables of that thread
  payload,   \* _end_payload: {} for None, else a set of one payload
  turns,     \* the session's rows of table turns, by id
  cards,     \* the session's rows of table scorecards, by id
  revealed   \* history: the phases whose model approach has left the engine

tableVars == <<turns, cards, callVars>>
vars == <<flowVars, pc, loc, payload, tableVars, revealed>>

-----------------------------------------------------------------------------
Finished == {"done", "failed", "dropped"}
InFlight == {r \in Requests : pc[r] \notin Finished \cup {"idle"}}

(* score_case works through the dimensions in groups of two (_groups).      *)
NGroups == (Len(Dims) + 1) \div 2

Locals ==
  [sentIn   : Nat,       \* history: the phase when the request was sent
   label    : Nat,       \* reply_tokens: the phase captured for the turns
   late     : SUBSET Nat, \* _end: the overruns it reports
   group    : Nat,       \* score_case: the groups scored so far
   retried  : BOOLEAN,   \* score_case: was the reformat retry used?
   penalty  : Nat,       \* apply_hint_penalty
   scored   : BOOLEAN,   \* is there a scorecard (card is not None)?
   row      : Nat]       \* persist_scorecard: the rows written so far

Fresh == [sentIn |-> 0, label |-> 0, late |-> {}, group |-> 0,
          retried |-> FALSE, penalty |-> 0, scored |-> FALSE, row |-> 0]

Init ==
  /\ FlowInit
  /\ pc = [r \in Requests |-> "idle"]
  /\ loc = [r \in Requests |-> Fresh]
  /\ payload = {}
  /\ turns = <<>>
  /\ cards = <<>>
  /\ CallsInit(Requests)
  /\ revealed = {}

(* A request takes a fresh id; which one makes no difference.               *)
Arrives(r) ==
  /\ pc[r] = "idle" /\ r = CHOOSE x \in Requests : pc[x] = "idle"
  /\ Sequential => InFlight = {}
  /\ Cardinality(InFlight) < MaxInFlight

Goto(r, l) == pc' = [pc EXCEPT ![r] = l]

(* state() needs a current phase as long as there is no end payload; its    *)
(* IndexError becomes a 500.                                                *)
StateFails == payload = {} /\ ~PhaseExists

-----------------------------------------------------------------------------
(* Calls of the store: the row of the request at its place in the code.     *)
Turns(r, role, label) == [role |-> role, phase |-> label, by |-> r]

(* Mutant: the phase is read when the reply is stored.                      *)
TurnOfLate(r) ==
  CASE pc[r] = "heard"   -> Turns(r, "user", loc[r].label)
    [] pc[r] = "replied" -> Turns(r, "assistant", phase)
    [] pc[r] = "closed"  -> Turns(r, "system", NPhases)

TurnOf(r) ==
  CASE pc[r] = "heard"   -> Turns(r, "user", loc[r].label)
    [] pc[r] = "replied" -> Turns(r, "assistant", loc[r].label)
    [] pc[r] = "closed"  -> Turns(r, "system", NPhases)

(* Mutant: each row is docked by the hints used when it is written.         *)
CardOfDocked(r) ==
  [dim |-> Dims[loc[r].row + 1], penalty |-> HintCost * hints, by |-> r]

(* persist_scorecard: the next dimension, docked by the penalty of the run. *)
CardOf(r) ==
  [dim |-> Dims[loc[r].row + 1], penalty |-> loc[r].penalty, by |-> r]

StoresTurn(r) ==
  pc[r] \in {"heard", "replied"} \/ (pc[r] = "closed" /\ loc[r].late # {})

(* A call begins: the row is bound ...                                      *)
BindStored(r) ==
  /\ \/ StoresTurn(r) /\ BindRow(r, "turns", TurnOf(r))
     \/ pc[r] = "persisting" /\ BindRow(r, "scorecards", CardOf(r))
  /\ UNCHANGED <<flowVars, pc, loc, payload, turns, cards, revealed>>

(* ... or is refused, and the request fails: what the flow has recorded     *)
(* stays, and so do the rows before it.                                     *)
StoreRefuses(r) ==
  /\ StoresTurn(r) \/ pc[r] = "persisting"
  /\ Refused(r)
  /\ Goto(r, "failed")
  /\ UNCHANGED <<flowVars, loc, payload, turns, cards, revealed>>

(* ... and ends: request r goes on to l, or fails.                          *)
StoreReturns(r, l) ==
  \E failed \in BOOLEAN : Returns(r, failed) /\ Goto(r, IF failed THEN "failed" ELSE l)

StoreTurn(r, l) ==
  /\ turns' = turns \o bound.turns
  /\ StoreReturns(r, l)

-----------------------------------------------------------------------------
(* POST /message: reply_tokens and _stream.  The call of the route only     *)
(* creates the generator.                                                   *)
SendMessage(r) ==
  /\ Arrives(r)
  /\ Goto(r, "sent")
  /\ loc' = [loc EXCEPT ![r].sentIn = phase]
  /\ UNCHANGED <<flowVars, payload, tableVars, revealed>>

(* First pull: the phase the turns will be labelled with is read.           *)
ReadPhase(r) ==
  /\ pc[r] = "sent"
  /\ Goto(r, IF PhaseExists THEN "labelled" ELSE "failed")
  /\ loc' = [loc EXCEPT ![r].label = phase]
  /\ UNCHANGED <<flowVars, payload, tableVars, revealed>>

HearUser(r) ==
  /\ pc[r] = "labelled"
  /\ RecordTurn("user", r)
  /\ Goto(r, "heard")
  /\ UNCHANGED <<phase, unlocked, hints, timings, loc, payload, tableVars,
                 revealed>>

StoreUser(r) ==
  /\ pc[r] = "heard"
  /\ StoreTurn(r, "stored")
  /\ UNCHANGED <<flowVars, loc, payload, cards, revealed>>

(* The context is built for the phase the flow is in now.                   *)
BuildContext(r) ==
  /\ pc[r] = "stored"
  /\ Goto(r, IF PhaseExists THEN "streaming" ELSE "failed")
  /\ revealed' = IF MayReveal THEN revealed \cup {phase} ELSE revealed
  /\ UNCHANGED <<flowVars, loc, payload, tableVars>>

(* The stream ends (possibly after no token at all) and the reply joins the *)
(* transcript; or the router gives up and the response breaks off.          *)
HearReply(r) ==
  /\ pc[r] = "streaming"
  /\ RecordTurn("assistant", r)
  /\ Goto(r, "replied")
  /\ UNCHANGED <<phase, unlocked, hints, timings, loc, payload, tableVars,
                 revealed>>

(* Mutant: what was streamed before the break joins the transcript only.    *)
StreamFailsHeard(r) ==
  /\ pc[r] = "streaming"
  /\ RecordTurn("assistant", r)
  /\ Goto(r, "failed")
  /\ UNCHANGED <<phase, unlocked, hints, timings, loc, payload, tableVars,
                 revealed>>

StreamFails(r) ==
  /\ pc[r] = "streaming"
  /\ Goto(r, "failed")
  /\ UNCHANGED <<flowVars, loc, payload, tableVars, revealed>>

StoreReply(r) ==
  /\ pc[r] = "replied"
  /\ StoreTurn(r, "done")
  /\ UNCHANGED <<flowVars, loc, payload, cards, revealed>>

(* The client goes away: the generator is dropped before its first pull or  *)
(* at a yield, and nothing of reply_tokens runs after that.                 *)
Disconnect(r) ==
  /\ pc[r] \in {"sent", "streaming"}
  /\ Goto(r, "dropped")
  /\ UNCHANGED <<flowVars, loc, payload, tableVars, revealed>>

-----------------------------------------------------------------------------
(* POST /action "advance", when the case goes on: act asks is_terminal and  *)
(* calls flow.advance, which asks again.                                    *)
Advance(r) ==
  /\ Arrives(r)
  /\ Goto(r, IF IsTerminal THEN "ending" ELSE "moving")
  /\ UNCHANGED <<flowVars, loc, payload, tableVars, revealed>>

LeavePhase(r) ==
  /\ pc[r] = "moving"
  /\ ~IsTerminal
  /\ ClosePhase
  /\ Goto(r, "leaving")
  /\ UNCHANGED <<phase, attempted, unlocked, hints, transcript, loc, payload,
                 tableVars, revealed>>

(* CaseComplete: another request reached the last phase in between.         *)
AdvanceRefused(r) ==
  /\ pc[r] = "moving"
  /\ IsTerminal
  /\ Goto(r, "failed")
  /\ UNCHANGED <<flowVars, loc, payload, tableVars, revealed>>

EnterPhase(r) ==
  /\ pc[r] = "leaving"
  /\ EnterNextPhase
  /\ Goto(r, "entering")
  /\ UNCHANGED <<unlocked, hints, timings, transcript, loc, payload, tableVars, revealed>>

OpenExhibits(r) ==
  /\ pc[r] = "entering"
  /\ IF PhaseExists
       THEN AutoUnlock /\ Goto(r, "done")
       ELSE UNCHANGED unlocked /\ Goto(r, "failed")
  /\ UNCHANGED <<phase, attempted, hints, timings, transcript, loc, payload,
                 tableVars, revealed>>

-----------------------------------------------------------------------------
(* POST /action "advance" at the last phase: _end.                          *)
(* Mutant: the payload is put together again, without the feedback.         *)
EndAgainRebuilds(r) ==
  /\ pc[r] = "ending"
  /\ payload # {}
  /\ payload' = {[overruns |-> Overruns(timings), feedback |-> FALSE, by |-> r]}
  /\ Goto(r, "done")
  /\ UNCHANGED <<flowVars, loc, tableVars, revealed>>

EndAgain(r) ==
  /\ pc[r] = "ending"
  /\ payload # {}
  /\ Goto(r, "done")
  /\ UNCHANGED <<flowVars, loc, payload, tableVars, revealed>>

(* Mutant: no look at the payload before a case is ended.                   *)
CloseCaseUnasked(r) ==
  /\ pc[r] = "ending"
  /\ PhaseExists
  /\ ClosePhase
  /\ loc' = [loc EXCEPT ![r].late = Overruns(timings')]
  /\ Goto(r, "closed")
  /\ UNCHANGED <<phase, attempted, unlocked, hints, transcript, payload, tableVars, revealed>>

CloseCase(r) ==
  /\ pc[r] = "ending"
  /\ payload = {}
  /\ PhaseExists
  /\ ClosePhase
  /\ loc' = [loc EXCEPT ![r].late = Overruns(timings')]
  /\ Goto(r, "closed")
  /\ UNCHANGED <<phase, attempted, unlocked, hints, transcript, payload, tableVars, revealed>>

(* close() of a flow that has run past its last phase: IndexError.          *)
EndFails(r) ==
  /\ pc[r] = "ending"
  /\ payload = {}
  /\ ~PhaseExists
  /\ Goto(r, "failed")
  /\ UNCHANGED <<flowVars, loc, payload, tableVars, revealed>>

(* Overruns are noted in the stored transcript as a system turn.            *)
NoteOverruns(r) ==
  /\ pc[r] = "closed"
  /\ IF loc[r].late = {} THEN Goto(r, "scoring") /\ UNCHANGED <<turns, callVars>>
                         ELSE StoreTurn(r, "scoring")
  /\ UNCHANGED <<flowVars, loc, payload, cards, revealed>>

(* One LLM call of score_case whose answer parses.  After the last group    *)
(* the hint penalty is taken from the hints used so far.                    *)
ScoreGroup(r) ==
  /\ pc[r] = "scoring"
  /\ loc' = [loc EXCEPT ![r].group = @ + 1, ![r].retried = FALSE,
                        ![r].scored = (loc[r].group + 1 = NGroups),
                        ![r].penalty = HintCost * hints]
  /\ Goto(r, IF loc[r].group + 1 = NGroups THEN "persisting" ELSE "scoring")
  /\ UNCHANGED <<flowVars, payload, tableVars, revealed>>

(* Mutant: an answer that does not parse starts the scoring over.           *)
UnparsableRestarts(r) ==
  /\ pc[r] = "scoring"
  /\ loc' = [loc EXCEPT ![r].group = 0]
  /\ UNCHANGED <<flowVars, pc, payload, tableVars, revealed>>

(* ... whose answer does not parse: one reformat retry, then ScoringError,  *)
(* which _end turns into a case without a scorecard.                        *)
Unparsable(r) ==
  /\ pc[r] = "scoring"
  /\ loc' = [loc EXCEPT ![r].retried = TRUE]
  /\ Goto(r, IF loc[r].retried THEN "revealing" ELSE "scoring")
  /\ UNCHANGED <<flowVars, payload, tableVars, revealed>>

(* ... that no provider serves: RouterError (or an httpx error in mid-      *)
(* stream, or a score that int() overflows) is not caught, and the request  *)
(* fails.                                                                   *)
ScoringUnserved(r) ==
  /\ pc[r] = "scoring"
  /\ Goto(r, "failed")
  /\ UNCHANGED <<flowVars, loc, payload, tableVars, revealed>>

(* persist_scorecard commits one row per dimension, and may raise between   *)
(* them: evidence that _parse has not looked into cannot be joined or       *)
(* bound.  The rows stored so far stay.                                     *)
PersistRow(r) ==
  /\ pc[r] = "persisting"
  /\ cards' = cards \o bound.scorecards
  /\ loc' = [loc EXCEPT ![r].row = @ + 1]
  /\ StoreReturns(r, IF loc[r].row + 1 = Len(Dims) THEN "revealing" ELSE "persisting")
  /\ UNCHANGED <<flowVars, payload, turns, revealed>>

PersistRaises(r) ==
  /\ pc[r] = "persisting" /\ call[r] = "none"
  /\ Goto(r, "failed")
  /\ UNCHANGED <<flowVars, loc, payload, tableVars, revealed>>

(* The last statement of _end; only now does the session count as ended.    *)
(* Until then the next "advance" begins with CloseCase again.               *)
Reveal(r) ==
  /\ pc[r] = "revealing"
  /\ payload' = {[overruns |-> loc[r].late,
                  feedback |-> loc[r].scored /\ ShowScores, by |-> r]}
  /\ Goto(r, "done")
  /\ UNCHANGED <<flowVars, loc, tableVars, revealed>>

(* assemble_feedback, before it: a rubric that has no anchors (which a      *)
(* case may have or not; here any attempt may meet one).                    *)
RevealFails(r) ==
  /\ pc[r] = "revealing" /\ loc[r].scored /\ ShowScores
  /\ Goto(r, "failed")
  /\ UNCHANGED <<flowVars, loc, payload, tableVars, revealed>>

-----------------------------------------------------------------------------
(* The other actions answer at once.                                        *)
Hint(r) ==
  /\ Arrives(r)
  /\ IF HintsAllowed /\ ~StateFails
       THEN TakeHint ELSE UNCHANGED hints
  /\ Goto(r, IF ~PhaseExists /\ (payload = {} \/ HintsAllowed)
               THEN "failed" ELSE "done")
  /\ UNCHANGED <<phase, attempted, unlocked, timings, transcript, loc, payload,
                 tableVars, revealed>>

CoachReveal(r) ==
  /\ Arrives(r)
  /\ Goto(r, IF ~PhaseExists /\ (payload = {} \/ Mode = "guided")
               THEN "failed" ELSE "done")
  /\ revealed' = IF MayReveal THEN revealed \cup {phase} ELSE revealed
  /\ UNCHANGED <<flowVars, loc, payload, tableVars>>

ShowExhibit(r) ==
  /\ Arrives(r)
  /\ \E e \in Exhibits : UnlockExhibit(e)
  /\ Goto(r, IF StateFails THEN "failed" ELSE "done")
  /\ UNCHANGED <<phase, attempted, hints, timings, transcript, loc, payload,
                 tableVars, revealed>>

-----------------------------------------------------------------------------
(* The steps of a thread once its request has arrived.                      *)
MessageStep(r) ==
  \/ ReadPhase(r) \/ HearUser(r) \/ StoreUser(r) \/ BuildContext(r)
  \/ HearReply(r) \/ StreamFails(r) \/ StoreReply(r)

StoreStep(r) == BindStored(r) \/ StoreRefuses(r)

AdvanceStep(r) ==
  \/ LeavePhase(r) \/ AdvanceRefused(r) \/ EnterPhase(r) \/ OpenExhibits(r)

EndStep(r) ==
  \/ EndAgain(r) \/ CloseCase(r) \/ EndFails(r) \/ NoteOverruns(r)
  \/ ScoreGroup(r) \/ Unparsable(r) \/ ScoringUnserved(r)
  \/ PersistRow(r) \/ PersistRaises(r) \/ Reveal(r) \/ RevealFails(r)

ServerStep(r) == StoreStep(r) \/ MessageStep(r) \/ AdvanceStep(r) \/ EndStep(r)

UserStep(r) ==
  \/ SendMessage(r) \/ Disconnect(r) \/ Advance(r)
  \/ Hint(r) \/ CoachReveal(r) \/ ShowExhibit(r)

(* Every request has been answered and the user sends no other.             *)
AllAnswered == (\A r \in Requests : pc[r] \in Finished) /\ UNCHANGED vars

Next == AllAnswered \/ \E r \in Requests : UserStep(r) \/ ServerStep(r)

Spec == Init /\ [][Next]_vars

(* Worker threads are scheduled, and every LLM call ends: the HTTP client   *)
(* has a timeout and the router a bounded number of tries.  The user owes   *)
(* nothing.                                                                 *)
FairSpec == Spec /\ \A r \in Requests : WF_vars(ServerStep(r))
-----------------------------------------------------------------------------
(* Properties                                                               *)

TurnRow == [role : {"user", "assistant", "system"}, phase : Nat, by : Requests]
CardRow == [dim : STRING, penalty : Nat, by : Requests]
Payload == [overruns : SUBSET Nat, feedback : BOOLEAN, by : Requests]

MessageStates == {"sent", "labelled", "heard", "stored", "streaming", "replied"}
AdvanceStates == {"moving", "leaving", "entering"}
EndStates == {"ending", "closed", "scoring", "persisting", "revealing"}
Places ==
  {"idle"} \cup MessageStates \cup AdvanceStates \cup EndStates \cup Finished

(* The type invariant of the flow, the session and its rows.                *)
TypeOK ==
  /\ FlowTypeOK
  /\ pc \in [Requests -> Places]
  /\ loc \in [Requests -> Locals]
  /\ payload \in SUBSET Payload
  /\ turns \in Seq(TurnRow)
  /\ cards \in Seq(CardRow)
  /\ CallsTypeOK(Requests, TurnRow, CardRow)
  /\ revealed \subseteq Coached

Quiet == InFlight = {}

Says(rows, role, r) == \E k \in 1 .. Len(rows) : rows[k].role = role /\ rows[k].by = r

(* Whatever the interleaving, the table invents no turn; and of a request   *)
(* none of whose store calls has met another, a turn is in the transcript   *)
(* exactly if it is in the table, except for the moment between the two     *)
(* record_turn calls of reply_tokens and _stream.                           *)
StoreKeepsTurns ==
  \A r \in Requests : \A role \in {"user", "assistant"} :
    /\ Says(turns, role, r) => Says(transcript, role, r)
    /\ r \notin overlapped =>
         (Says(transcript, role, r) <=>
            \/ Says(turns, role, r)
            \/ pc[r] = IF role = "user" THEN "heard" ELSE "replied")

(* Of such a request a turn is stored once, and a reply only after the      *)
(* message it answers, labelled with the same phase, whatever else was      *)
(* stored in between.                                                       *)
RepliesFollow ==
  \A k \in 1 .. Len(turns) : turns[k].by \notin overlapped =>
    /\ \A j \in 1 .. k - 1 :
         ~(turns[j].by = turns[k].by /\ turns[j].role = turns[k].role)
    /\ turns[k].role = "assistant"
         => \E j \in 1 .. k - 1 :
              /\ turns[j].role = "user"
              /\ turns[j].by = turns[k].by
              /\ turns[j].phase = turns[k].phase

(* One scoring run docks every dimension by the same hint penalty and       *)
(* stores no dimension twice, though hints may be taken while its rows are  *)
(* being written, as long as its store calls meet no other.                 *)
OnePenaltyPerRun ==
  \A j, k \in 1 .. Len(cards) :
    j # k /\ cards[j].by = cards[k].by /\ cards[k].by \notin overlapped
      => cards[j].penalty = cards[k].penalty /\ cards[j].dim # cards[k].dim

(* The model answer is shown, and the case scored, only once the last phase *)
(* has been reached; and feedback only by a request that has stored every   *)
(* row of it (or met another call of the store).                            *)
RevealComesLast ==
  /\ payload # {} \/ cards # <<>> => IsTerminal
  /\ \A p \in payload : p.feedback /\ p.by \notin overlapped =>
       \A d \in 1 .. Len(Dims) :
         \E k \in 1 .. Len(cards) : cards[k].by = p.by /\ cards[k].dim = Dims[d]

(* The stored conversation under every interleaving: complete, in pairs,    *)
(* each under one label (reply_tokens and _stream).                         *)
ConversationKept == StoreKeepsTurns /\ RepliesFollow

(* The result of a case under every interleaving: one penalty, each         *)
(* dimension once per run, and nothing of it too early (_end).              *)
ScoringSound == OnePenaltyPerRun /\ RevealComesLast

-----------------------------------------------------------------------------
(* Properties of sequential use.                                            *)

(* A row begins the card of its request or goes on with it.                 *)
CardsInOrder ==
  \A k \in 1 .. Len(cards) :
    \/ cards[k].dim = Dims[1] /\ \A j \in 1 .. k - 1 : cards[j].by # cards[k].by
    \/ \E d \in 1 .. Len(Dims) - 1 :
         /\ k > 1 /\ cards[k - 1].by = cards[k].by
         /\ cards[k - 1].dim = Dims[d] /\ cards[k].dim = Dims[d + 1]

(* The last rows of the table are a whole card of request r.                *)
WholeCardLast(r) ==
  /\ Len(cards) >= Len(Dims)
  /\ \A d \in 1 .. Len(Dims) :
       LET row == cards[Len(cards) - Len(Dims) + d]
       IN  row.by = r /\ row.dim = Dims[d]

(* An end that fails is tried again, and may have stored its card, or a     *)
(* part of it, which stays.  Even so every request stores its dimensions in *)
(* order and in one piece; the request that ends the case stores a whole    *)
(* card or none; and no row comes after its own.                            *)
ScoredByTheLast ==
  Quiet =>
    /\ CardsInOrder
    /\ \A p \in payload :
         \/ WholeCardLast(p.by)
         \/ ~p.feedback /\ \A k \in 1 .. Len(cards) : cards[k].by # p.by

(* Between requests the stored conversation is the transcript, in order.    *)
Joins(said, row) ==
  IF row.role = "system" THEN said
  ELSE Append(said, [role |-> row.role, by |-> row.by])
Conversation(rows) == FoldLeft(Joins, <<>>, rows)
TranscriptStored == Quiet => Conversation(turns) = transcript

(* Explain, attempt, reveal: the model approach of a phase leaves the       *)
(* engine only after the candidate, in that phase, has sent a message that  *)
(* was stored under it.                                                     *)
RevealIsEarned ==
  \A p \in revealed : \E k \in 1 .. Len(turns) :
    /\ turns[k].role = "user"
    /\ turns[k].phase = p
    /\ loc[turns[k].by].sentIn = p

(* The flow stays within its phases, every phase behind it was timed once   *)
(* in order, and every exhibit due by now is open.                          *)
PhasesInOrder ==
  Quiet => /\ PhaseExists
           /\ \A e \in Exhibits : OpensAt[e] <= phase => e \in unlocked
           /\ Len(timings) >= phase
           /\ \A k \in 1 .. Len(timings) :
                timings[k].phase = IF k <= phase THEN k - 1 ELSE LastPhase

(* The end payload, once set, is final.                                     *)
EndIsFinal == [][payload # {} => payload' = payload]_vars

(* The end of a case always shows the reveal: a request at the last phase   *)
(* never finishes without the payload.                                      *)
RevealAlwaysShown ==
  [][\A r \in Requests :
       pc[r] \in EndStates /\ pc'[r] \in Finished => payload' # {}]_vars

(* Every request is answered, under the fairness of the server alone.       *)
EveryRequestAnswered ==
  \A r \in Requests : pc[r] # "idle" ~> pc[r] \in Finished
=============================================================================
