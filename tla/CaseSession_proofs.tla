------------------------ MODULE CaseSession_proofs ------------------------
(***************************************************************************)
(* Proofs about CaseSession, for every case, mode, rubric and number of     *)
(* requests.  First what holds of a session however its requests interleave;*)
(* then, for a user who waits for each answer, what the session promises,   *)
(* and that it implements CaseProtocol.                                     *)
(***************************************************************************)
EXTENDS CaseRefinement, InductionLemmas

(* Where persist_scorecard is, row counts the rows already written.         *)
RowOK(r) ==
  /\ pc[r] = "persisting" => loc[r].row < Len(Dims)
  /\ pc[r] \notin {"persisting", "revealing"} \cup Finished => loc[r].row = 0

TypeInv == TypeOK /\ \A r \in Requests : RowOK(r)

(* Records are updated field by field; the arithmetic is kept out of it.    *)
LEMMA RowUpdate ==
  ASSUME NEW l \in Locals, NEW n \in Nat
  PROVE  [l EXCEPT !.row = n] \in Locals
BY DEF Locals

(* The fields set by the steps of a message and of an end.                  *)
LEMMA FieldUpdate ==
  ASSUME NEW l \in Locals, NEW n \in Nat, NEW b \in BOOLEAN, NEW o \in SUBSET Nat
  PROVE  /\ [l EXCEPT !.sentIn = n] \in Locals
         /\ [l EXCEPT !.label = n] \in Locals
         /\ [l EXCEPT !.retried = b] \in Locals
         /\ [l EXCEPT !.late = o] \in Locals
<1>1. [l EXCEPT !.sentIn = n] \in Locals BY DEF Locals
<1>2. [l EXCEPT !.label = n] \in Locals BY DEF Locals
<1>3. [l EXCEPT !.retried = b] \in Locals BY DEF Locals
<1>4. [l EXCEPT !.late = o] \in Locals BY DEF Locals
<1> QED BY <1>1, <1>2, <1>3, <1>4

(* The local variables after a group has been scored.                       *)
LEMMA ScoreUpdate ==
  ASSUME NEW l \in Locals, NEW n \in Nat, NEW b \in BOOLEAN, NEW m \in Nat
  PROVE  [l EXCEPT !.group = n, !.retried = FALSE, !.scored = b, !.penalty = m]
           \in Locals
BY DEF Locals

(* The invariant holds at the start.                                        *)
LEMMA TypeInit == Init => TypeInv
<1> SUFFICES ASSUME Init PROVE TypeInv OBVIOUS
<1>1. FlowTypeOK
  <2>1. timings \in Seq([phase : Nat, over : BOOLEAN]) BY DEF Init, FlowInit
  <2>2. transcript \in Seq(Turn) BY DEF Init, FlowInit
  <2> QED BY <2>1, <2>2 DEF Init, FlowInit, FlowTypeOK
<1>2. Fresh \in Locals /\ Fresh.row = 0 BY DEF Fresh, Locals
<1>3. "idle" \in Places \ Finished BY DEF Places, Finished, MessageStates, AdvanceStates, EndStates
<1>4. turns \in Seq(TurnRow) /\ cards \in Seq(CardRow) BY DEF Init
<1>5. CallsTypeOK(Requests, TurnRow, CardRow)
  <2>1. /\ call = [r \in Requests |-> "none"] /\ overlapped = {}
        /\ bound = [table \in Tables |-> <<>>]
    BY DEF Init, CallsInit, NoneBound
  <2>2. bound.turns = <<>> /\ bound.scorecards = <<>> /\ DOMAIN bound = Tables
    BY <2>1 DEF Tables
  <2>3. bound.turns \in Seq(TurnRow) /\ bound.scorecards \in Seq(CardRow) BY <2>2
  <2>4. \A table \in Tables : bound[table] = <<>> BY <2>1
  <2>5. \A table \in Tables : Len(bound[table]) <= 1 BY <2>4
  <2>6. call \in [Requests -> {"none", "alone", "crossed"}] /\ overlapped \subseteq Requests
    BY <2>1
  <2> QED BY <2>2, <2>3, <2>5, <2>6 DEF CallsTypeOK
<1> QED BY <1>1, <1>2, <1>3, <1>4, <1>5 DEF Init, TypeInv, TypeOK, RowOK

(* The steps of a call of the store keep the types ...                      *)
LEMMA CallType ==
  ASSUME CallsTypeOK(Requests, TurnRow, CardRow), NEW r \in Requests,
         \/ \E row \in TurnRow : BindRow(r, "turns", row)
         \/ \E row \in CardRow : BindRow(r, "scorecards", row)
         \/ Refused(r)
         \/ \E failed \in BOOLEAN : Returns(r, failed)
  PROVE  CallsTypeOK(Requests, TurnRow, CardRow)'
<1> DEFINE C == {"none", "alone", "crossed"}
<1>0. /\ call \in [Requests -> C] /\ overlapped \subseteq Requests
      /\ bound.turns \in Seq(TurnRow) /\ bound.scorecards \in Seq(CardRow)
      /\ DOMAIN bound = Tables /\ \A table \in Tables : Len(bound[table]) <= 1
  BY DEF CallsTypeOK
<1>1. ASSUME NEW c \in C, Meets(r, c)
      PROVE  call' \in [Requests -> C] /\ overlapped' \subseteq Requests
  BY <1>0, <1>1 DEF Meets, Others
<1>2. ASSUME call' \in [Requests -> C], overlapped' \subseteq Requests,
             bound'.turns \in Seq(TurnRow), bound'.scorecards \in Seq(CardRow),
             DOMAIN bound' = Tables, \A table \in Tables : Len(bound'[table]) <= 1
      PROVE  CallsTypeOK(Requests, TurnRow, CardRow)'
  BY <1>2 DEF CallsTypeOK
<1>3. ASSUME NEW table \in Tables, NEW row, BindRow(r, table, row)
      PROVE  /\ call' \in [Requests -> C] /\ overlapped' \subseteq Requests
             /\ DOMAIN bound' = Tables /\ bound'[table] = <<row>>
             /\ \A other \in Tables \ {table} : bound'[other] = bound[other]
             /\ \A other \in Tables : Len(bound'[other]) <= 1
  <2>1. (IF Others(r) = {} THEN "alone" ELSE "crossed") \in C OBVIOUS
  <2>2. call' \in [Requests -> C] /\ overlapped' \subseteq Requests
    BY <1>1, <1>3, <2>1 DEF BindRow
  <2>3. bound' = [bound EXCEPT ![table] = <<row>>] BY <1>3 DEF BindRow
  <2>4. Len(<<row>>) = 1 OBVIOUS
  <2> HIDE DEF C
  <2> QED BY <1>0, <2>2, <2>3, <2>4
<1>4. ASSUME NEW row \in TurnRow, BindRow(r, "turns", row)
      PROVE  CallsTypeOK(Requests, TurnRow, CardRow)'
  <2>1. "turns" \in Tables /\ "scorecards" \in Tables \ {"turns"} BY DEF Tables
  <2>2. <<row>> \in Seq(TurnRow) OBVIOUS
  <2> QED BY <1>0, <1>2, <1>3, <1>4, <2>1, <2>2
<1>5. ASSUME NEW row \in CardRow, BindRow(r, "scorecards", row)
      PROVE  CallsTypeOK(Requests, TurnRow, CardRow)'
  <2>1. "scorecards" \in Tables /\ "turns" \in Tables \ {"scorecards"} BY DEF Tables
  <2>2. <<row>> \in Seq(CardRow) OBVIOUS
  <2> QED BY <1>0, <1>2, <1>3, <1>5, <2>1, <2>2
<1>6. CASE Refused(r)
  <2>1. Meets(r, "none") /\ bound' = bound BY <1>6 DEF Refused
  <2> QED BY <1>0, <1>1, <1>2, <2>1
<1>7. ASSUME NEW failed \in BOOLEAN, Returns(r, failed)
      PROVE  CallsTypeOK(Requests, TurnRow, CardRow)'
  <2>1. /\ call' \in [Requests -> C] /\ overlapped' \subseteq Requests
        /\ bound' = bound \/ bound' = NoneBound
    BY <1>0, <1>7 DEF Returns
  <2>2. NoneBound.turns = <<>> /\ NoneBound.scorecards = <<>> /\ DOMAIN NoneBound = Tables
        /\ \A table \in Tables : NoneBound[table] = <<>>
    BY DEF NoneBound, Tables
  <2>3. CASE bound' = bound BY <1>0, <1>2, <2>1, <2>3
  <2>4. CASE bound' = NoneBound
    <3>1. \A table \in Tables : bound'[table] = <<>> BY <2>2, <2>4
    <3>2. \A table \in Tables : Len(bound'[table]) <= 1 BY <3>1
    <3>3. bound'.turns \in Seq(TurnRow) /\ bound'.scorecards \in Seq(CardRow)
      <4>1. bound'.turns = <<>> /\ bound'.scorecards = <<>> BY <2>2, <2>4
      <4> QED BY <4>1
    <3> QED BY <1>2, <2>1, <2>2, <2>4, <3>2, <3>3
  <2> QED BY <2>1, <2>3, <2>4
<1> QED BY <1>4, <1>5, <1>6, <1>7

(* ... and so does any other step.                                          *)
LEMMA NoCallType ==
  ASSUME CallsTypeOK(Requests, TurnRow, CardRow), UNCHANGED callVars
  PROVE  CallsTypeOK(Requests, TurnRow, CardRow)'
BY DEF CallsTypeOK, callVars

(* What is bound is nothing or a row.                                       *)
LEMMA BoundRow ==
  ASSUME TypeOK
  PROVE  /\ bound.turns = <<>> \/ \E row \in TurnRow : bound.turns = <<row>>
         /\ bound.scorecards = <<>> \/ \E row \in CardRow : bound.scorecards = <<row>>
<1>1. /\ bound.turns \in Seq(TurnRow) /\ Len(bound.turns) <= 1
      /\ bound.scorecards \in Seq(CardRow) /\ Len(bound.scorecards) <= 1
  BY DEF TypeOK, CallsTypeOK, Tables
<1> QED BY <1>1, OneElement

(* Storing what is bound keeps the types of the tables.                     *)
LEMMA StoredType ==
  ASSUME TypeOK
  PROVE  turns \o bound.turns \in Seq(TurnRow) /\ cards \o bound.scorecards \in Seq(CardRow)
<1>1. turns \in Seq(TurnRow) /\ cards \in Seq(CardRow) BY DEF TypeOK
<1>2. bound.turns \in Seq(TurnRow) /\ bound.scorecards \in Seq(CardRow)
  BY DEF TypeOK, CallsTypeOK
<1> QED BY <1>1, <1>2, ConcatProperties

(* The rows the code stores are rows of the tables.                         *)
LEMMA OwnRows ==
  ASSUME TypeInv, NEW r \in Requests
  PROVE  /\ StoresTurn(r) => TurnOf(r) \in TurnRow /\ TurnOf(r).by = r
         /\ pc[r] = "persisting" => CardOf(r) \in CardRow /\ CardOf(r).by = r
<1>1. loc[r] \in Locals /\ (pc[r] = "persisting" => loc[r].row < Len(Dims))
  BY DEF TypeInv, TypeOK, RowOK
<1>2. loc[r].label \in Nat /\ loc[r].penalty \in Nat /\ loc[r].row \in Nat
  BY <1>1 DEF Locals
<1>3. ASSUME NEW role \in {"user", "assistant", "system"}, NEW label \in Nat
      PROVE  Turns(r, role, label) \in TurnRow /\ Turns(r, role, label).by = r
  BY DEF Turns, TurnRow
<1>4. ASSUME StoresTurn(r) PROVE TurnOf(r) \in TurnRow /\ TurnOf(r).by = r
  <2>1. CASE pc[r] = "heard"
    <3>1. TurnOf(r) = Turns(r, "user", loc[r].label) BY <2>1 DEF TurnOf
    <3> QED BY <1>2, <1>3, <3>1
  <2>2. CASE pc[r] = "replied"
    <3>1. TurnOf(r) = Turns(r, "assistant", loc[r].label) BY <2>2 DEF TurnOf
    <3> QED BY <1>2, <1>3, <3>1
  <2>3. CASE pc[r] = "closed"
    <3>1. TurnOf(r) = Turns(r, "system", NPhases) BY <2>3 DEF TurnOf
    <3> QED BY <1>3, <3>1, CaseAssumption
  <2> QED BY <1>4, <2>1, <2>2, <2>3 DEF StoresTurn
<1>5. ASSUME pc[r] = "persisting" PROVE CardOf(r) \in CardRow /\ CardOf(r).by = r
  <2>1. loc[r].row + 1 \in 1 .. Len(Dims) BY <1>1, <1>2, <1>5, SessionAssumption
  <2>2. Dims[loc[r].row + 1] \in STRING BY <2>1, SessionAssumption
  <2> QED BY <1>2, <2>2 DEF CardOf, CardRow
<1> QED BY <1>4, <1>5

(* A call that binds its row or is refused keeps the types.                 *)
LEMMA StoreType ==
  ASSUME TypeInv, NEW r \in Requests, StoreStep(r)
  PROVE  TypeInv'
<1> DEFINE Rest == <<flowVars, loc, payload, turns, cards, revealed>>
<1>1. CallsTypeOK(Requests, TurnRow, CardRow) BY DEF TypeInv, TypeOK
<1>2. CASE BindStored(r)
  <2>1. \/ StoresTurn(r) /\ BindRow(r, "turns", TurnOf(r))
        \/ pc[r] = "persisting" /\ BindRow(r, "scorecards", CardOf(r))
    BY <1>2 DEF BindStored
  <2>2. \/ \E row \in TurnRow : BindRow(r, "turns", row)
        \/ \E row \in CardRow : BindRow(r, "scorecards", row)
    BY <2>1, OwnRows
  <2>3. CallsTypeOK(Requests, TurnRow, CardRow)' BY <1>1, <2>2, CallType
  <2>4. UNCHANGED Rest /\ pc' = pc BY <1>2 DEF BindStored
  <2> QED BY <2>3, <2>4 DEF TypeInv, TypeOK, FlowTypeOK, RowOK, flowVars
<1>3. CASE StoreRefuses(r)
  <2>1. CallsTypeOK(Requests, TurnRow, CardRow)'
    BY <1>1, <1>3, CallType DEF StoreRefuses
  <2>2. UNCHANGED Rest /\ pc' = [pc EXCEPT ![r] = "failed"]
    BY <1>3 DEF StoreRefuses, Goto
  <2>3. pc' \in [Requests -> Places]
    BY <2>2 DEF TypeInv, TypeOK, Places, Finished
  <2>4. \A s \in Requests : RowOK(s)'
    BY <2>2 DEF TypeInv, TypeOK, RowOK, Finished
  <2> QED BY <2>1, <2>2, <2>3, <2>4 DEF TypeInv, TypeOK, FlowTypeOK, flowVars
<1> QED BY <1>2, <1>3 DEF StoreStep

(* The end of a call moves its request on, or fails it.                     *)
LEMMA ReturnsType ==
  ASSUME TypeOK, NEW r \in Requests, NEW l \in Places, StoreReturns(r, l)
  PROVE  /\ CallsTypeOK(Requests, TurnRow, CardRow)'
         /\ \E m \in {l, "failed"} : Goto(r, m)
         /\ pc' \in [Requests -> Places]
<1>1. PICK failed \in BOOLEAN : Returns(r, failed) /\ Goto(r, IF failed THEN "failed" ELSE l)
  BY DEF StoreReturns
<1>2. CallsTypeOK(Requests, TurnRow, CardRow)' BY <1>1, CallType DEF TypeOK
<1>3. \E m \in {l, "failed"} : Goto(r, m) BY <1>1
<1>4. "failed" \in Places BY DEF Places, Finished
<1>5. pc \in [Requests -> Places] BY DEF TypeOK
<1> QED BY <1>2, <1>3, <1>4, <1>5 DEF Goto

(* A turn is stored.                                                        *)
LEMMA TurnStoredType ==
  ASSUME TypeInv, NEW r \in Requests, NEW l \in Places \ {"persisting"},
         StoreTurn(r, l), pc[r] \notin {"persisting", "revealing"} \cup Finished,
         UNCHANGED <<flowVars, loc, payload, cards, revealed>>
  PROVE  TypeInv'
<1>1. TypeOK BY DEF TypeInv
<1>2. /\ CallsTypeOK(Requests, TurnRow, CardRow)' /\ pc' \in [Requests -> Places]
      /\ \E m \in {l, "failed"} : Goto(r, m)
  BY <1>1, ReturnsType DEF StoreTurn
<1>3. turns' \in Seq(TurnRow) BY <1>1, StoredType DEF StoreTurn
<1>4. \A s \in Requests : RowOK(s)'
  BY <1>1, <1>2 DEF TypeInv, TypeOK, RowOK, Goto, Finished
<1> QED BY <1>1, <1>2, <1>3, <1>4 DEF TypeInv, TypeOK, FlowTypeOK, flowVars

(* The steps of a message keep the types.                                   *)
LEMMA MessageType ==
  ASSUME TypeInv, NEW r \in Requests, SendMessage(r) \/ Disconnect(r) \/ MessageStep(r)
  PROVE  TypeInv'
<1> USE CaseAssumption, SessionAssumption
    DEF TypeInv, TypeOK, FlowTypeOK, RowOK, Turn, flowVars, Goto,
        Places, MessageStates, AdvanceStates, EndStates, Finished, tableVars
<1>0. UNCHANGED tableVars => CallsTypeOK(Requests, TurnRow, CardRow)' BY NoCallType
<1>1. CASE SendMessage(r)
  <2>1. loc' \in [Requests -> Locals]
    <3>1. [loc[r] EXCEPT !.sentIn = phase] \in Locals BY FieldUpdate, Zenon
    <3> QED BY <1>1, <3>1 DEF SendMessage
  <2>2. \A s \in Requests : loc'[s].row = loc[s].row BY <1>1 DEF SendMessage
  <2> QED BY <1>0, <1>1, <2>1, <2>2 DEF SendMessage, Arrives
<1>2. CASE Disconnect(r) BY <1>0, <1>2 DEF Disconnect
<1>3. CASE ReadPhase(r)
  <2>1. loc' \in [Requests -> Locals]
    <3>1. [loc[r] EXCEPT !.label = phase] \in Locals BY FieldUpdate, Zenon
    <3> QED BY <1>3, <3>1 DEF ReadPhase
  <2>2. \A s \in Requests : loc'[s].row = loc[s].row BY <1>3 DEF ReadPhase
  <2> QED BY <1>0, <1>3, <2>1, <2>2 DEF ReadPhase
<1>4. CASE HearUser(r) BY <1>0, <1>4 DEF HearUser, RecordTurn
<1>5. CASE StoreUser(r)
  <2>1. pc[r] = "heard" /\ StoreTurn(r, "stored") BY <1>5 DEF StoreUser
  <2>2. UNCHANGED <<flowVars, loc, payload, cards, revealed>> BY <1>5 DEF StoreUser
  <2>3. "stored" \in Places \ {"persisting"} OBVIOUS
  <2>4. pc[r] \notin {"persisting", "revealing"} \cup Finished BY <2>1
  <2> QED BY <2>1, <2>2, <2>3, <2>4, TurnStoredType
<1>6. CASE BuildContext(r) BY <1>0, <1>6 DEF BuildContext, MayReveal
<1>7. CASE HearReply(r) BY <1>0, <1>7 DEF HearReply, RecordTurn
<1>8. CASE StreamFails(r) BY <1>0, <1>8 DEF StreamFails
<1>9. CASE StoreReply(r)
  <2>1. pc[r] = "replied" /\ StoreTurn(r, "done") BY <1>9 DEF StoreReply
  <2>2. UNCHANGED <<flowVars, loc, payload, cards, revealed>> BY <1>9 DEF StoreReply
  <2>3. "done" \in Places \ {"persisting"} OBVIOUS
  <2>4. pc[r] \notin {"persisting", "revealing"} \cup Finished BY <2>1
  <2> QED BY <2>1, <2>2, <2>3, <2>4, TurnStoredType
<1> QED BY <1>1, <1>2, <1>3, <1>4, <1>5, <1>6, <1>7, <1>8, <1>9 DEF MessageStep

(* The steps of an advance keep the types.                                  *)
LEMMA AdvanceType ==
  ASSUME TypeInv, NEW r \in Requests, Advance(r) \/ AdvanceStep(r)
  PROVE  TypeInv'
<1> USE CaseAssumption, SessionAssumption
    DEF TypeInv, TypeOK, FlowTypeOK, RowOK, Turn, flowVars, Goto,
        Places, MessageStates, AdvanceStates, EndStates, Finished, tableVars
<1>0. UNCHANGED tableVars => CallsTypeOK(Requests, TurnRow, CardRow)' BY NoCallType
<1>1. CASE Advance(r) BY <1>0, <1>1 DEF Advance, Arrives
<1>2. CASE LeavePhase(r) BY <1>0, <1>2 DEF LeavePhase, ClosePhase
<1>3. CASE AdvanceRefused(r) BY <1>0, <1>3 DEF AdvanceRefused
<1>4. CASE EnterPhase(r)
  <2>1. phase' \in Nat BY <1>4 DEF EnterPhase, EnterNextPhase
  <2> QED BY <1>0, <1>4, <2>1 DEF EnterPhase, EnterNextPhase
<1>5. CASE OpenExhibits(r) BY <1>0, <1>5 DEF OpenExhibits, AutoUnlock
<1> QED BY <1>1, <1>2, <1>3, <1>4, <1>5 DEF AdvanceStep

(* The steps of an end keep the types.                                      *)
LEMMA EndType ==
  ASSUME TypeInv, NEW r \in Requests, EndStep(r)
  PROVE  TypeInv'
<1> USE CaseAssumption, SessionAssumption
    DEF TypeInv, TypeOK, FlowTypeOK, RowOK, Turn, flowVars, Goto,
        Places, MessageStates, AdvanceStates, EndStates, Finished, tableVars
<1>0. UNCHANGED tableVars => CallsTypeOK(Requests, TurnRow, CardRow)' BY NoCallType
<1>1. CASE EndAgain(r) BY <1>0, <1>1 DEF EndAgain
<1>2. CASE CloseCase(r)
  <2>1. timings' \in Seq([phase : Nat, over : BOOLEAN])
    BY <1>2 DEF CloseCase, ClosePhase
  <2>2. Overruns(timings') \in SUBSET Nat BY <2>1 DEF Overruns
  <2>3. loc' \in [Requests -> Locals]
    <3>1. [loc[r] EXCEPT !.late = Overruns(timings')] \in Locals
      BY <2>2, FieldUpdate, Zenon
    <3> QED BY <1>2, <3>1 DEF CloseCase
  <2>4. \A s \in Requests : loc'[s].row = loc[s].row BY <1>2 DEF CloseCase
  <2> QED BY <1>0, <1>2, <2>1, <2>3, <2>4 DEF CloseCase
<1>3. CASE EndFails(r) BY <1>0, <1>3 DEF EndFails
<1>4. CASE NoteOverruns(r)
  <2>1. CASE loc[r].late = {}
    <3>1. pc' = [pc EXCEPT ![r] = "scoring"] /\ UNCHANGED tableVars
      BY <1>4, <2>1 DEF NoteOverruns
    <3> QED BY <1>0, <1>4, <3>1 DEF NoteOverruns
  <2>2. CASE loc[r].late # {}
    <3>1. pc[r] = "closed" /\ StoreTurn(r, "scoring") BY <1>4, <2>2 DEF NoteOverruns
    <3>2. UNCHANGED <<flowVars, loc, payload, cards, revealed>> BY <1>4 DEF NoteOverruns
    <3>3. "scoring" \in Places \ {"persisting"} OBVIOUS
    <3>4. pc[r] \notin {"persisting", "revealing"} \cup Finished BY <3>1
    <3> QED BY <3>1, <3>2, <3>3, <3>4, TurnStoredType
  <2> QED BY <2>1, <2>2
<1>5. CASE ScoreGroup(r)
  <2> loc[r] \in Locals OBVIOUS
  <2> loc[r].group \in Nat BY DEF Locals
  <2>1. HintCost * hints \in Nat OBVIOUS
  <2>2. loc' \in [Requests -> Locals]
    <3>0. loc[r].group + 1 \in Nat OBVIOUS
    <3>1. [loc[r] EXCEPT !.group = loc[r].group + 1, !.retried = FALSE,
                          !.scored = (loc[r].group + 1 = NGroups),
                          !.penalty = HintCost * hints] \in Locals
      BY <2>1, <3>0, ScoreUpdate, Zenon
    <3> QED BY <1>5, <3>1 DEF ScoreGroup
  <2>3. \A s \in Requests : loc'[s].row = loc[s].row BY <1>5 DEF ScoreGroup
  <2> QED BY <1>0, <1>5, <2>2, <2>3 DEF ScoreGroup
<1>6. CASE Unparsable(r)
  <2>1. loc' \in [Requests -> Locals]
    <3>1. [loc[r] EXCEPT !.retried = TRUE] \in Locals BY FieldUpdate, Zenon
    <3> QED BY <1>6, <3>1 DEF Unparsable
  <2>2. \A s \in Requests : loc'[s].row = loc[s].row BY <1>6 DEF Unparsable
  <2> QED BY <1>0, <1>6, <2>1, <2>2 DEF Unparsable
<1>7. CASE ScoringUnserved(r) BY <1>0, <1>7 DEF ScoringUnserved
<1>8. CASE PersistRow(r)
  <2> loc[r] \in Locals OBVIOUS
  <2> loc[r].row \in Nat BY DEF Locals
  <2> DEFINE l == IF loc[r].row + 1 = Len(Dims) THEN "revealing" ELSE "persisting"
  <2>0. loc[r].row < Len(Dims) BY <1>8 DEF PersistRow
  <2>1. loc[r].row + 1 \in 1 .. Len(Dims) BY <2>0, SessionAssumption
  <2>2. TypeOK /\ l \in Places OBVIOUS
  <2>3. cards' \in Seq(CardRow) BY <1>8, <2>2, StoredType DEF PersistRow
  <2>4. loc' \in [Requests -> Locals]
    <3>0. loc[r].row + 1 \in Nat BY <2>1
    <3>1. [loc[r] EXCEPT !.row = loc[r].row + 1] \in Locals
      BY <3>0, RowUpdate, Zenon
    <3> QED BY <1>8, <3>1 DEF PersistRow
  <2>5. /\ loc'[r].row = loc[r].row + 1
        /\ \A s \in Requests \ {r} : loc'[s] = loc[s]
    BY <1>8 DEF PersistRow
  <2>6. /\ CallsTypeOK(Requests, TurnRow, CardRow)' /\ pc' \in [Requests -> Places]
        /\ \E m \in {l, "failed"} : Goto(r, m)
    <3>1. StoreReturns(r, l) BY <1>8 DEF PersistRow
    <3> HIDE DEF l, TypeOK
    <3> QED BY <2>2, <3>1, ReturnsType
  <2>7. UNCHANGED <<flowVars, payload, turns, revealed>> BY <1>8 DEF PersistRow
  <2>8. TypeOK'
    <3>1. FlowTypeOK' BY <2>7
    <3> QED BY <2>3, <2>4, <2>6, <2>7, <3>1
  <2>9. RowOK(r)'
    <3>1. pc'[r] \in {"persisting", "revealing", "failed"} BY <2>6
    <3>2. pc'[r] = "persisting" => loc[r].row + 1 # Len(Dims) BY <2>6
    <3> QED BY <2>1, <2>5, <3>1, <3>2
  <2>10. ASSUME NEW s \in Requests \ {r} PROVE RowOK(s)'
    <3>1. pc'[s] = pc[s] /\ loc'[s] = loc[s] BY <2>5, <2>6
    <3>2. RowOK(s) OBVIOUS
    <3> QED BY <3>1, <3>2
  <2> QED BY <2>8, <2>9, <2>10
<1>9. CASE Reveal(r) BY <1>0, <1>9 DEF Reveal, Payload, Locals
<1>10. CASE PersistRaises(r) BY <1>0, <1>10 DEF PersistRaises
<1>11. CASE RevealFails(r) BY <1>0, <1>11 DEF RevealFails
<1> QED BY <1>1, <1>2, <1>3, <1>4, <1>5, <1>6, <1>7, <1>8, <1>9, <1>10, <1>11 DEF EndStep

(* The actions that answer at once keep the types.                          *)
LEMMA AnswerType ==
  ASSUME TypeInv, NEW r \in Requests, Hint(r) \/ CoachReveal(r) \/ ShowExhibit(r)
  PROVE  TypeInv'
<1> USE CaseAssumption, SessionAssumption
    DEF TypeInv, TypeOK, FlowTypeOK, RowOK, Turn, flowVars, Goto,
        Places, MessageStates, AdvanceStates, EndStates, Finished, Arrives, tableVars
<1>0. UNCHANGED tableVars => CallsTypeOK(Requests, TurnRow, CardRow)' BY NoCallType
<1>1. CASE Hint(r) BY <1>0, <1>1 DEF Hint, TakeHint
<1>2. CASE CoachReveal(r) BY <1>0, <1>2 DEF CoachReveal, MayReveal
<1>3. CASE ShowExhibit(r) BY <1>0, <1>3 DEF ShowExhibit, UnlockExhibit
<1> QED BY <1>1, <1>2, <1>3

(* A step that changes nothing.                                             *)
LEMMA StutterType == TypeInv /\ UNCHANGED vars => TypeInv'
BY NoCallType DEF TypeInv, TypeOK, FlowTypeOK, RowOK, vars, flowVars, tableVars

(* The types, and the bounds that the flow of a thread keeps on its local   *)
(* variables, are invariant for every case and any number of requests.      *)
THEOREM TypeInvariant == Spec => []TypeInv
<1>1. TypeInv /\ [Next]_vars => TypeInv'
  BY StoreType, MessageType, AdvanceType, EndType, AnswerType, StutterType
     DEF Next, AllAnswered, UserStep, ServerStep
<1> QED BY TypeInit, <1>1, PTL DEF Spec

(* The types alone.                                                         *)
THEOREM TypeCorrect == Spec => []TypeOK
<1>1. TypeInv => TypeOK BY DEF TypeInv
<1> QED BY <1>1, TypeInvariant, PTL

-----------------------------------------------------------------------------
(* The shape of a step.                                                     *)

Busy(r) == pc[r] \notin Finished \cup {"idle"}

Moves(r) == UserStep(r) \/ ServerStep(r)

Stores(r) ==
  \/ StoreStep(r) \/ StoreUser(r) \/ StoreReply(r) \/ PersistRow(r)
  \/ NoteOverruns(r) /\ loc[r].late # {}

(* The end of a call moves its request on.                                  *)
LEMMA ReturnsMove ==
  ASSUME NEW r, NEW l, StoreReturns(r, l)
  PROVE  \E m : Goto(r, m)
BY DEF StoreReturns

(* A step moves one thread, which has just arrived or is under way, and     *)
(* changes no other's local variables; and it makes a call of the store or  *)
(* leaves the tables alone.                                                 *)
LEMMA StepMoves ==
  ASSUME TypeInv, NEW r \in Requests, Moves(r)
  PROVE  /\ Arrives(r) \/ Busy(r)
         /\ pc \in [Requests -> Places] /\ pc' \in [Requests -> Places]
         /\ \A s \in Requests \ {r} : pc'[s] = pc[s] /\ loc'[s] = loc[s]
         /\ transcript' = transcript \/ HearUser(r) \/ HearReply(r)
         /\ \/ Stores(r)
            \/ /\ UNCHANGED tableVars
               /\ PersistRaises(r) \/ (~StoresTurn(r) /\ pc[r] # "persisting")
<1>1. pc \in [Requests -> Places] /\ pc' \in [Requests -> Places] /\ loc \in [Requests -> Locals]
  BY StoreType, MessageType, AdvanceType, EndType, AnswerType
     DEF TypeInv, TypeOK, Moves, UserStep, ServerStep
<1>2. Arrives(r) \/ Busy(r)
  BY DEF Moves, UserStep, ServerStep, MessageStep, AdvanceStep, EndStep, Busy, Finished,
         SendMessage, Disconnect, Advance, Hint, CoachReveal, ShowExhibit,
         ReadPhase, HearUser, StoreUser, BuildContext, HearReply, StreamFails, StoreReply,
         LeavePhase, AdvanceRefused, EnterPhase, OpenExhibits,
         EndAgain, CloseCase, EndFails, NoteOverruns, ScoreGroup, Unparsable,
         ScoringUnserved, PersistRow, PersistRaises, Reveal, RevealFails,
         StoreStep, BindStored, StoreRefuses, StoresTurn
<1>3. pc' = pc \/ \E l : Goto(r, l)
  BY ReturnsMove
     DEF Moves, UserStep, ServerStep, MessageStep, AdvanceStep, EndStep,
         SendMessage, Disconnect, Advance, Hint, CoachReveal, ShowExhibit,
         ReadPhase, HearUser, StoreUser, BuildContext, HearReply, StreamFails, StoreReply,
         LeavePhase, AdvanceRefused, EnterPhase, OpenExhibits,
         EndAgain, CloseCase, EndFails, NoteOverruns, ScoreGroup, Unparsable,
         ScoringUnserved, PersistRow, PersistRaises, Reveal, RevealFails,
         StoreStep, BindStored, StoreRefuses, StoreTurn
<1>4. \A s \in Requests \ {r} : pc'[s] = pc[s] BY <1>1, <1>3 DEF Goto
<1>5. loc' = loc \/ \E l \in [Requests -> Locals] : \E x :
                      l = loc /\ loc' = [l EXCEPT ![r] = x]
  BY <1>1
     DEF Moves, UserStep, ServerStep, MessageStep, AdvanceStep, EndStep,
         SendMessage, Disconnect, Advance, Hint, CoachReveal, ShowExhibit,
         ReadPhase, HearUser, StoreUser, BuildContext, HearReply, StreamFails, StoreReply,
         LeavePhase, AdvanceRefused, EnterPhase, OpenExhibits,
         EndAgain, CloseCase, EndFails, NoteOverruns, ScoreGroup, Unparsable,
         ScoringUnserved, PersistRow, PersistRaises, Reveal, RevealFails,
         StoreStep, BindStored, StoreRefuses
<1>6. \A s \in Requests \ {r} : loc'[s] = loc[s] BY <1>5
<1>7. transcript' = transcript \/ HearUser(r) \/ HearReply(r)
  BY DEF Moves, UserStep, ServerStep, MessageStep, AdvanceStep, EndStep,
         SendMessage, Disconnect, Advance, Hint, CoachReveal, ShowExhibit,
         ReadPhase, StoreUser, BuildContext, StreamFails, StoreReply,
         LeavePhase, AdvanceRefused, EnterPhase, OpenExhibits,
         EndAgain, CloseCase, EndFails, NoteOverruns, ScoreGroup, Unparsable,
         ScoringUnserved, PersistRow, PersistRaises, Reveal, RevealFails,
         StoreStep, BindStored, StoreRefuses, flowVars
<1>8. \/ Stores(r)
      \/ /\ UNCHANGED tableVars
         /\ PersistRaises(r) \/ (~StoresTurn(r) /\ pc[r] # "persisting")
  BY DEF Stores, Moves, UserStep, ServerStep, MessageStep, AdvanceStep, EndStep,
         SendMessage, Disconnect, Advance, Hint, CoachReveal, ShowExhibit, Arrives,
         ReadPhase, HearUser, BuildContext, HearReply, StreamFails,
         LeavePhase, AdvanceRefused, EnterPhase, OpenExhibits,
         EndAgain, CloseCase, EndFails, NoteOverruns, ScoreGroup, Unparsable,
         ScoringUnserved, PersistRaises, Reveal, RevealFails, StoresTurn, tableVars
<1> QED BY <1>1, <1>2, <1>4, <1>6, <1>7, <1>8

-----------------------------------------------------------------------------
(* The calls of the store.  A call that has met no other has its own row    *)
(* bound; the rows of requests none of whose calls has met another are      *)
(* bound by calls under way; and nothing is bound that has not been said.   *)

CallOK(r) ==
  /\ call[r] # "none" => StoresTurn(r) \/ pc[r] = "persisting"
  /\ call[r] = "crossed" => r \in overlapped
  /\ call[r] = "alone" =>
       /\ \A s \in Requests \ {r} : call[s] = "none"
       /\ StoresTurn(r) => bound.turns = <<TurnOf(r)>>
       /\ pc[r] = "persisting" => bound.scorecards = <<CardOf(r)>>

SpeechOK(r) ==
  /\ pc[r] = "heard" => Says(transcript, "user", r)
  /\ pc[r] = "replied" => Says(transcript, "assistant", r)

BoundTurnOK(row) ==
  /\ row.role # "system" => Says(transcript, row.role, row.by)
  /\ row.by \notin overlapped => call[row.by] = "alone"

BoundCardOK(row) == row.by \notin overlapped => call[row.by] = "alone"

CallInv ==
  /\ \A r \in Requests : CallOK(r) /\ SpeechOK(r)
  /\ \A row \in TurnRow : bound.turns = <<row>> => BoundTurnOK(row)
  /\ \A row \in CardRow : bound.scorecards = <<row>> => BoundCardOK(row)

(* No call is under way at the start.                                       *)
LEMMA CallInit == Init => CallInv
<1> SUFFICES ASSUME Init PROVE CallInv OBVIOUS
<1>1. /\ call = [r \in Requests |-> "none"] /\ pc = [r \in Requests |-> "idle"]
      /\ bound = [table \in Tables |-> <<>>]
  BY DEF Init, CallsInit, NoneBound
<1>2. bound.turns = <<>> /\ bound.scorecards = <<>> BY <1>1 DEF Tables
<1>3. \A r \in Requests : CallOK(r) /\ SpeechOK(r) BY <1>1 DEF CallOK, SpeechOK
<1>4. \A row : bound.turns # <<row>> /\ bound.scorecards # <<row>> BY <1>2
<1> QED BY <1>3, <1>4 DEF CallInv

(* Who says what after one more turn.                                       *)
LEMMA SaysAppend ==
  ASSUME NEW S, NEW rows \in Seq(S), NEW x \in S, NEW role, NEW q
  PROVE  Says(Append(rows, x), role, q)
           <=> Says(rows, role, q) \/ (x.role = role /\ x.by = q)
BY DEF Says

(* What has been said is not taken back.                                    *)
LEMMA SaysStays ==
  ASSUME TypeInv, NEW r \in Requests, Moves(r), NEW role, NEW q,
         Says(transcript, role, q)
  PROVE  Says(transcript, role, q)'
<1>1. transcript \in Seq(Turn) BY DEF TypeInv, TypeOK, FlowTypeOK
<1>2. CASE transcript' = transcript BY <1>2 DEF Says
<1>3. CASE HearUser(r) \/ HearReply(r)
  <2>1. PICK x \in Turn : transcript' = Append(transcript, x)
    BY <1>3 DEF HearUser, HearReply, RecordTurn, Turn
  <2> QED BY <1>1, <2>1, SaysAppend
<1> QED BY <1>2, <1>3, StepMoves

(* A request that has said its turn is in the transcript.                   *)
LEMMA SpeechStep ==
  ASSUME TypeInv, CallInv, NEW r \in Requests, Moves(r)
  PROVE  \A s \in Requests : SpeechOK(s)'
<1>1. /\ pc \in [Requests -> Places] /\ \A s \in Requests \ {r} : pc'[s] = pc[s]
      /\ transcript \in Seq(Turn)
  BY StepMoves DEF TypeInv, TypeOK, FlowTypeOK
<1>2. ASSUME NEW s \in Requests \ {r} PROVE SpeechOK(s)'
  BY <1>1, SaysStays DEF CallInv, SpeechOK
<1>3. CASE HearUser(r)
  <2>1. pc'[r] = "heard" BY <1>1, <1>3 DEF HearUser, Goto
  <2>2. transcript' = Append(transcript, [role |-> "user", by |-> r])
    BY <1>3 DEF HearUser, RecordTurn
  <2>3. [role |-> "user", by |-> r] \in Turn BY DEF Turn
  <2>4. Says(transcript, "user", r)' BY <1>1, <2>2, <2>3, SaysAppend
  <2> QED BY <1>2, <2>1, <2>4 DEF SpeechOK
<1>4. CASE HearReply(r)
  <2>1. pc'[r] = "replied" BY <1>1, <1>4 DEF HearReply, Goto
  <2>2. transcript' = Append(transcript, [role |-> "assistant", by |-> r])
    BY <1>4 DEF HearReply, RecordTurn
  <2>3. [role |-> "assistant", by |-> r] \in Turn BY DEF Turn
  <2>4. Says(transcript, "assistant", r)' BY <1>1, <2>2, <2>3, SaysAppend
  <2> QED BY <1>2, <2>1, <2>4 DEF SpeechOK
<1>5. CASE BindStored(r)
  <2>1. pc' = pc BY <1>5 DEF BindStored
  <2>2. SpeechOK(r)' BY <2>1, SaysStays DEF CallInv, SpeechOK
  <2> QED BY <1>2, <2>2
<1>6. CASE ~HearUser(r) /\ ~HearReply(r) /\ ~BindStored(r)
  <2>1. pc'[r] \notin {"heard", "replied"}
    BY <1>1, <1>6
       DEF Moves, UserStep, ServerStep, MessageStep, AdvanceStep, EndStep,
         SendMessage, Disconnect, Advance, Hint, CoachReveal, ShowExhibit,
         ReadPhase, HearUser, StoreUser, BuildContext, HearReply, StreamFails, StoreReply,
         LeavePhase, AdvanceRefused, EnterPhase, OpenExhibits,
         EndAgain, CloseCase, EndFails, NoteOverruns, ScoreGroup, Unparsable,
         ScoringUnserved, PersistRow, PersistRaises, Reveal, RevealFails,
         StoreStep, StoreRefuses, StoreTurn, StoreReturns, Goto
  <2> QED BY <1>2, <2>1 DEF SpeechOK
<1> QED BY <1>3, <1>4, <1>5, <1>6

(* A step that makes no call.                                               *)
LEMMA CallFrame ==
  ASSUME TypeInv, CallInv, NEW r \in Requests, Moves(r), ~Stores(r)
  PROVE  CallInv'
<1>1. /\ UNCHANGED callVars
      /\ \A s \in Requests \ {r} : pc'[s] = pc[s] /\ loc'[s] = loc[s]
      /\ PersistRaises(r) \/ (~StoresTurn(r) /\ pc[r] # "persisting")
  BY StepMoves DEF tableVars
<1>2. call[r] = "none" BY <1>1 DEF CallInv, CallOK, PersistRaises
<1>3. call' = call /\ bound' = bound /\ overlapped' = overlapped BY <1>1 DEF callVars
<1>4. CallOK(r)' BY <1>2, <1>3 DEF CallOK
<1>5. ASSUME NEW s \in Requests \ {r} PROVE CallOK(s)'
  <2>1. CallOK(s) BY DEF CallInv
  <2>2. /\ StoresTurn(s)' = StoresTurn(s) /\ TurnOf(s)' = TurnOf(s)
        /\ CardOf(s)' = CardOf(s) /\ pc'[s] = pc[s]
    BY <1>1 DEF StoresTurn, TurnOf, CardOf, Turns
  <2> QED BY <1>3, <2>1, <2>2 DEF CallOK
<1>6. \A row \in TurnRow : bound'.turns = <<row>> => BoundTurnOK(row)'
  BY <1>3, SaysStays DEF CallInv, BoundTurnOK
<1>7. \A row \in CardRow : bound'.scorecards = <<row>> => BoundCardOK(row)'
  BY <1>3 DEF CallInv, BoundCardOK
<1> QED BY <1>4, <1>5, <1>6, <1>7, SpeechStep DEF CallInv

(* The calls that meet another, and those that do not.                      *)
LEMMA MeetsCalls ==
  ASSUME TypeInv, NEW r \in Requests, NEW c, Meets(r, c)
  PROVE  /\ call'[r] = c
         /\ \A s \in Requests \ {r} :
              IF call[s] = "none" THEN call'[s] = "none"
              ELSE call'[s] = "crossed" /\ {r, s} \subseteq overlapped'
         /\ overlapped \subseteq overlapped'
         /\ Others(r) # {} => r \in overlapped'
         /\ Others(r) = {} => \A s \in Requests \ {r} : call[s] = "none"
<1>1. call \in [Requests -> {"none", "alone", "crossed"}]
  BY DEF TypeInv, TypeOK, CallsTypeOK
<1>2. Others(r) = {s \in Requests \ {r} : call[s] # "none"} BY <1>1 DEF Others
<1> QED BY <1>1, <1>2 DEF Meets

(* A call binds its row.                                                    *)
LEMMA CallBinds ==
  ASSUME TypeInv, CallInv, NEW r \in Requests, BindStored(r)
  PROVE  CallInv'
<1> DEFINE c == IF Others(r) = {} THEN "alone" ELSE "crossed"
<1>1. /\ call[r] = "none" /\ Meets(r, c) /\ UNCHANGED <<pc, loc, transcript>>
      /\ \/ StoresTurn(r) /\ BindRow(r, "turns", TurnOf(r))
         \/ pc[r] = "persisting" /\ BindRow(r, "scorecards", CardOf(r))
  BY DEF BindStored, BindRow, flowVars
<1>2. Moves(r) BY DEF Moves, ServerStep, StoreStep
<1>3. /\ call'[r] = c /\ overlapped \subseteq overlapped'
      /\ \A s \in Requests \ {r} :
           IF call[s] = "none" THEN call'[s] = "none"
           ELSE call'[s] = "crossed" /\ {r, s} \subseteq overlapped'
      /\ Others(r) # {} => r \in overlapped'
      /\ Others(r) = {} => \A s \in Requests \ {r} : call[s] = "none"
  BY <1>1, MeetsCalls
<1>4. DOMAIN bound = Tables BY DEF TypeInv, TypeOK, CallsTypeOK
<1>5. \A s \in Requests : /\ StoresTurn(s)' = StoresTurn(s) /\ TurnOf(s)' = TurnOf(s)
                          /\ CardOf(s)' = CardOf(s) /\ pc'[s] = pc[s]
  BY <1>1 DEF StoresTurn, TurnOf, CardOf, Turns
<1>6. /\ StoresTurn(r) => /\ bound'.turns = <<TurnOf(r)>>
                          /\ bound'.scorecards = bound.scorecards
                          /\ pc[r] # "persisting"
      /\ pc[r] = "persisting" => /\ bound'.scorecards = <<CardOf(r)>>
                                 /\ bound'.turns = bound.turns
                                 /\ ~StoresTurn(r)
      /\ StoresTurn(r) \/ pc[r] = "persisting"
  BY <1>1, <1>4 DEF BindRow, Tables, StoresTurn
<1>7. CallOK(r)'
  <2>1. c = "crossed" => r \in overlapped' BY <1>3
  <2>2. c = "alone" => \A s \in Requests \ {r} : call'[s] = "none" BY <1>3
  <2> QED BY <1>3, <1>5, <1>6, <2>1, <2>2 DEF CallOK
<1>8. ASSUME NEW s \in Requests \ {r} PROVE CallOK(s)'
  <2>1. CallOK(s) BY DEF CallInv
  <2>2. call'[s] = "none" \/ (call[s] # "none" /\ call'[s] = "crossed" /\ s \in overlapped')
    BY <1>3
  <2> QED BY <1>5, <2>1, <2>2 DEF CallOK
<1>9. ASSUME NEW q \in Requests, q \notin overlapped', q \notin overlapped => call[q] = "alone"
      PROVE  FALSE
  BY <1>1, <1>3, <1>9
<1>10. r \notin overlapped' => call'[r] = "alone" BY <1>3
<1>11. \A row \in TurnRow : bound'.turns = <<row>> => BoundTurnOK(row)'
  <2> SUFFICES ASSUME NEW row \in TurnRow, bound'.turns = <<row>> PROVE BoundTurnOK(row)'
    OBVIOUS
  <2>1. CASE StoresTurn(r)
    <3>1. row = TurnOf(r) BY <1>6, <2>1
    <3>2. row.by = r BY <2>1, <3>1, OwnRows
    <3>3. row.role # "system" => Says(transcript, row.role, r)
      <4>1. CASE pc[r] = "heard" BY <3>1, <4>1 DEF TurnOf, Turns, CallInv, SpeechOK
      <4>2. CASE pc[r] = "replied" BY <3>1, <4>2 DEF TurnOf, Turns, CallInv, SpeechOK
      <4>3. CASE pc[r] = "closed" BY <3>1, <4>3 DEF TurnOf, Turns
      <4> QED BY <2>1, <4>1, <4>2, <4>3 DEF StoresTurn
    <3> QED BY <1>2, <1>10, <3>2, <3>3, SaysStays DEF BoundTurnOK
  <2>2. CASE pc[r] = "persisting"
    <3>1. bound.turns = <<row>> /\ row.by \in Requests BY <1>6, <2>2 DEF TurnRow
    <3>2. BoundTurnOK(row) BY <3>1 DEF CallInv
    <3> QED BY <1>2, <1>9, <3>1, <3>2, SaysStays DEF BoundTurnOK
  <2> QED BY <1>6, <2>1, <2>2
<1>12. \A row \in CardRow : bound'.scorecards = <<row>> => BoundCardOK(row)'
  <2> SUFFICES ASSUME NEW row \in CardRow, bound'.scorecards = <<row>>
               PROVE  BoundCardOK(row)'
    OBVIOUS
  <2>1. CASE pc[r] = "persisting"
    <3>1. row = CardOf(r) BY <1>6, <2>1
    <3>2. row.by = r BY <2>1, <3>1, OwnRows
    <3> QED BY <1>10, <3>2 DEF BoundCardOK
  <2>2. CASE StoresTurn(r)
    <3>1. bound.scorecards = <<row>> /\ row.by \in Requests BY <1>6, <2>2 DEF CardRow
    <3>2. BoundCardOK(row) BY <3>1 DEF CallInv
    <3> QED BY <1>9, <3>1, <3>2 DEF BoundCardOK
  <2> QED BY <1>6, <2>1, <2>2
<1> QED BY <1>2, <1>7, <1>8, <1>11, <1>12, SpeechStep DEF CallInv

(* A call is refused.                                                       *)
LEMMA CallRefused ==
  ASSUME TypeInv, CallInv, NEW r \in Requests, StoreRefuses(r)
  PROVE  CallInv' /\ r \in overlapped'
<1>1. /\ call[r] = "none" /\ Others(r) # {} /\ Meets(r, "none") /\ bound' = bound
      /\ UNCHANGED <<loc, transcript>> /\ Goto(r, "failed")
  BY DEF StoreRefuses, Refused, flowVars
<1>2. Moves(r) BY DEF Moves, ServerStep, StoreStep
<1>3. /\ call'[r] = "none" /\ overlapped \subseteq overlapped'
      /\ \A s \in Requests \ {r} :
           IF call[s] = "none" THEN call'[s] = "none"
           ELSE call'[s] = "crossed" /\ {r, s} \subseteq overlapped'
      /\ r \in overlapped'
  BY <1>1, MeetsCalls
<1>4. \A s \in Requests \ {r} : /\ StoresTurn(s)' = StoresTurn(s)
                                /\ pc'[s] = pc[s] /\ loc'[s] = loc[s]
  BY <1>2, StepMoves DEF StoresTurn
<1>5. CallOK(r)' BY <1>3 DEF CallOK
<1>6. ASSUME NEW s \in Requests \ {r} PROVE CallOK(s)'
  <2>1. CallOK(s) BY DEF CallInv
  <2>2. call'[s] = "none" \/ (call[s] # "none" /\ call'[s] = "crossed" /\ s \in overlapped')
    BY <1>3
  <2> QED BY <1>4, <2>1, <2>2 DEF CallOK
<1>7. ASSUME NEW q \in Requests, q \notin overlapped', q \notin overlapped => call[q] = "alone"
      PROVE  FALSE
  BY <1>1, <1>3, <1>7
<1>8. \A row \in TurnRow : bound'.turns = <<row>> => BoundTurnOK(row)'
  <2> SUFFICES ASSUME NEW row \in TurnRow, bound'.turns = <<row>> PROVE BoundTurnOK(row)'
    OBVIOUS
  <2>1. BoundTurnOK(row) /\ row.by \in Requests BY <1>1 DEF CallInv, TurnRow
  <2> QED BY <1>2, <1>7, <2>1, SaysStays DEF BoundTurnOK
<1>9. \A row \in CardRow : bound'.scorecards = <<row>> => BoundCardOK(row)'
  <2> SUFFICES ASSUME NEW row \in CardRow, bound'.scorecards = <<row>>
               PROVE  BoundCardOK(row)'
    OBVIOUS
  <2>1. BoundCardOK(row) /\ row.by \in Requests BY <1>1 DEF CallInv, CardRow
  <2> QED BY <1>7, <2>1 DEF BoundCardOK
<1> QED BY <1>2, <1>3, <1>5, <1>6, <1>8, <1>9, SpeechStep DEF CallInv

(* What a call inserts that ends: its own row; or, if it has met another, a *)
(* row of a request that has met another, whose turn has been said.         *)
LEMMA CallInserts ==
  ASSUME TypeInv, CallInv, NEW r \in Requests, NEW failed \in BOOLEAN, Returns(r, failed)
  PROVE  /\ StoresTurn(r) \/ pc[r] = "persisting"
         /\ \/ /\ ~failed /\ call[r] = "alone"
               /\ StoresTurn(r) => bound.turns = <<TurnOf(r)>>
               /\ pc[r] = "persisting" => bound.scorecards = <<CardOf(r)>>
            \/ /\ r \in overlapped /\ call[r] = "crossed"
               /\ \A row \in TurnRow : bound.turns = <<row>> =>
                    /\ row.by \in overlapped
                    /\ row.role # "system" => Says(transcript, row.role, row.by)
               /\ \A row \in CardRow : bound.scorecards = <<row>> => row.by \in overlapped
<1>1. /\ call[r] \in {"alone", "crossed"}
      /\ failed => call[r] = "crossed"
      /\ CallOK(r)
  BY DEF Returns, TypeInv, TypeOK, CallsTypeOK, CallInv
<1>2. \A q \in Requests : call[q] = "alone" => q = r BY <1>1 DEF CallInv, CallOK
<1>3. CASE call[r] = "alone"
  <2>1. ~failed BY <1>1, <1>3
  <2> QED BY <1>1, <1>3, <2>1 DEF CallOK
<1>4. CASE call[r] = "crossed"
  <2>1. ASSUME NEW row \in TurnRow, bound.turns = <<row>>
        PROVE  /\ row.by \in overlapped
               /\ row.role # "system" => Says(transcript, row.role, row.by)
    <3>1. BoundTurnOK(row) /\ row.by \in Requests BY <2>1 DEF CallInv, TurnRow
    <3>2. call[row.by] # "alone" BY <1>2, <1>4, <3>1
    <3> QED BY <3>1, <3>2 DEF BoundTurnOK
  <2>2. ASSUME NEW row \in CardRow, bound.scorecards = <<row>> PROVE row.by \in overlapped
    <3>1. BoundCardOK(row) /\ row.by \in Requests BY <2>2 DEF CallInv, CardRow
    <3>2. call[row.by] # "alone" BY <1>2, <1>4, <3>1
    <3> QED BY <3>1, <3>2 DEF BoundCardOK
  <2> QED BY <1>1, <1>4, <2>1, <2>2 DEF CallOK
<1> QED BY <1>1, <1>3, <1>4

(* A call ends.                                                             *)
LEMMA CallReturns ==
  ASSUME TypeInv, CallInv, NEW r \in Requests, Moves(r), NEW failed \in BOOLEAN,
         Returns(r, failed)
  PROVE  CallInv' /\ overlapped' = overlapped
<1>1. /\ call[r] # "none" /\ call' = [call EXCEPT ![r] = "none"]
      /\ bound' = (IF Others(r) = {} THEN NoneBound ELSE bound)
      /\ overlapped' = overlapped
      /\ call \in [Requests -> {"none", "alone", "crossed"}]
  BY DEF Returns, TypeInv, TypeOK, CallsTypeOK
<1>2. \A s \in Requests \ {r} : pc'[s] = pc[s] /\ loc'[s] = loc[s] /\ call'[s] = call[s]
  BY <1>1, StepMoves
<1>3. \A s \in Requests \ {r} : call[s] # "alone" BY <1>1 DEF CallInv, CallOK
<1>4. CallOK(r)' BY <1>1 DEF CallOK
<1>5. ASSUME NEW s \in Requests \ {r} PROVE CallOK(s)'
  <2>1. CallOK(s) BY DEF CallInv
  <2>2. StoresTurn(s)' = StoresTurn(s) BY <1>2 DEF StoresTurn
  <2> QED BY <1>1, <1>2, <1>3, <2>1, <2>2 DEF CallOK
<1>6. Others(r) # {} => call[r] # "alone" BY <1>1 DEF Others, CallInv, CallOK
<1>7. \A row : bound' = NoneBound => bound'.turns # <<row>> /\ bound'.scorecards # <<row>>
  BY DEF NoneBound, Tables
<1>8. \A row \in TurnRow : bound'.turns = <<row>> => BoundTurnOK(row)'
  <2> SUFFICES ASSUME NEW row \in TurnRow, bound'.turns = <<row>> PROVE BoundTurnOK(row)'
    OBVIOUS
  <2>1. bound.turns = <<row>> /\ call[r] # "alone" BY <1>1, <1>6, <1>7
  <2>2. BoundTurnOK(row) /\ row.by \in Requests BY <2>1 DEF CallInv, TurnRow
  <2>3. row.by \in overlapped BY <1>3, <2>1, <2>2 DEF BoundTurnOK
  <2> QED BY <1>1, <2>2, <2>3, SaysStays DEF BoundTurnOK
<1>9. \A row \in CardRow : bound'.scorecards = <<row>> => BoundCardOK(row)'
  <2> SUFFICES ASSUME NEW row \in CardRow, bound'.scorecards = <<row>>
               PROVE  BoundCardOK(row)'
    OBVIOUS
  <2>1. bound.scorecards = <<row>> /\ call[r] # "alone" BY <1>1, <1>6, <1>7
  <2>2. BoundCardOK(row) /\ row.by \in Requests BY <2>1 DEF CallInv, CardRow
  <2>3. row.by \in overlapped BY <1>3, <2>1, <2>2 DEF BoundCardOK
  <2> QED BY <1>1, <2>3 DEF BoundCardOK
<1> QED BY <1>1, <1>4, <1>5, <1>8, <1>9, SpeechStep DEF CallInv

(* Every step.                                                              *)
LEMMA CallStep ==
  ASSUME TypeInv, CallInv, NEW r \in Requests, Moves(r)
  PROVE  CallInv' /\ overlapped \subseteq overlapped'
<1>1. CASE ~Stores(r)
  <2>1. overlapped' = overlapped BY <1>1, StepMoves DEF tableVars, callVars
  <2> QED BY <1>1, <2>1, CallFrame
<1>2. CASE BindStored(r)
  <2>1. \E c : Meets(r, c) BY <1>2 DEF BindStored, BindRow
  <2> QED BY <1>2, <2>1, CallBinds, MeetsCalls
<1>3. CASE StoreRefuses(r)
  <2>1. \E c : Meets(r, c) BY <1>3 DEF StoreRefuses, Refused
  <2> QED BY <1>3, <2>1, CallRefused, MeetsCalls
<1>4. CASE Stores(r) /\ ~StoreStep(r)
  <2>1. \E l : StoreReturns(r, l)
    BY <1>4 DEF Stores, StoreUser, StoreReply, PersistRow, NoteOverruns, StoreTurn
  <2>2. PICK failed \in BOOLEAN : Returns(r, failed) BY <2>1 DEF StoreReturns
  <2> QED BY <2>2, CallReturns
<1> QED BY <1>1, <1>2, <1>3, <1>4 DEF StoreStep, Stores

(* A step that changes nothing.                                             *)
LEMMA StutterCalls == ASSUME CallInv, UNCHANGED vars PROVE CallInv'
<1>1. /\ call' = call /\ bound' = bound /\ overlapped' = overlapped
      /\ pc' = pc /\ loc' = loc /\ transcript' = transcript
  BY DEF vars, flowVars, tableVars, callVars
<1>2. \A r \in Requests : CallOK(r)'
  <2> SUFFICES ASSUME NEW r \in Requests PROVE CallOK(r)' OBVIOUS
  <2>1. CallOK(r) BY DEF CallInv
  <2>2. StoresTurn(r)' = StoresTurn(r) /\ TurnOf(r)' = TurnOf(r) /\ CardOf(r)' = CardOf(r)
    BY <1>1 DEF StoresTurn, TurnOf, CardOf, Turns
  <2> QED BY <1>1, <2>1, <2>2 DEF CallOK
<1>3. \A r \in Requests : SpeechOK(r)' BY <1>1 DEF CallInv, SpeechOK, Says
<1>4. \A row \in TurnRow : BoundTurnOK(row)' <=> BoundTurnOK(row)
  BY <1>1 DEF BoundTurnOK, Says
<1>5. \A row \in CardRow : BoundCardOK(row)' <=> BoundCardOK(row)
  BY <1>1 DEF BoundCardOK
<1> QED BY <1>1, <1>2, <1>3, <1>4, <1>5 DEF CallInv

(* So CallInv is an invariant.                                              *)
LEMMA CallInvariant == Spec => []CallInv
<1>1. TypeInv /\ CallInv /\ [Next]_vars => CallInv'
  BY CallStep, StutterCalls DEF Next, AllAnswered, Moves
<1> QED BY CallInit, TypeInvariant, <1>1, PTL DEF Spec

-----------------------------------------------------------------------------
(* The stored conversation.  StoreKeepsTurns and RepliesFollow become       *)
(* inductive once every row is tied to the place its thread has reached.    *)

Labelled == {"stored", "streaming", "replied"}

TurnOK(r) ==
  /\ Says(turns, "user", r) => pc[r] \in Labelled \cup Finished
  /\ Says(turns, "assistant", r) => pc[r] \in Finished
  /\ Says(turns, "system", r)
       => pc[r] \in {"scoring", "persisting", "revealing"} \cup Finished
  /\ pc[r] \in Labelled =>
       \E j \in 1 .. Len(turns) :
         turns[j].role = "user" /\ turns[j].by = r /\ turns[j].phase = loc[r].label

TurnInv ==
  /\ StoreKeepsTurns
  /\ RepliesFollow
  /\ \A r \in Requests : r \notin overlapped => TurnOK(r)

(* Nobody has said anything at the start.                                   *)
LEMMA TurnInit == Init => TurnInv
BY DEF Init, FlowInit, CallsInit, TurnInv, StoreKeepsTurns, RepliesFollow, TurnOK, Says,
       Labelled

(* The table grows by a row at its end.                                     *)
LEMMA TableGrows ==
  ASSUME TypeInv, NEW row \in TurnRow, turns' = Append(turns, row)
  PROVE  /\ Len(turns) \in Nat /\ Len(turns') = Len(turns) + 1
         /\ turns'[Len(turns) + 1] = row
         /\ \A j \in 1 .. Len(turns) : j \in 1 .. Len(turns') /\ turns'[j] = turns[j]
         /\ \A o, q : Says(turns, o, q)' <=>
                        Says(turns, o, q) \/ (o = row.role /\ q = row.by)
<1>1. turns \in Seq(TurnRow) BY DEF TypeInv, TypeOK
<1>2. \A o, q : Says(turns, o, q)' <=>
                  Says(turns, o, q) \/ (o = row.role /\ q = row.by)
  BY <1>1, SaysAppend
<1> QED BY <1>1, <1>2

(* A step that adds no turn, or one of a request that has met another, and  *)
(* moves its thread between places that know the same turns.                *)
LEMMA TurnFrame ==
  ASSUME TypeInv, CallInv, TurnInv, NEW r \in Requests, Moves(r), transcript' = transcript,
         \/ turns' = turns
         \/ \E row \in TurnRow :
              /\ turns' = Append(turns, row) /\ row.by \in overlapped
              /\ row.role # "system" => Says(transcript, row.role, row.by),
         \/ r \in overlapped'
         \/ /\ pc'[r] = pc[r] \/ {pc'[r], pc[r]} \cap {"heard", "replied"} = {}
            /\ pc[r] \in Finished => pc'[r] \in Finished
            /\ pc[r] \in Labelled => pc'[r] \in Labelled \cup Finished
            /\ pc[r] \in {"scoring", "persisting", "revealing"}
                 => pc'[r] \in {"scoring", "persisting", "revealing"} \cup Finished
            /\ pc'[r] \in Labelled => pc[r] \in Labelled
            /\ pc[r] \in Labelled => loc'[r].label = loc[r].label
  PROVE  TurnInv'
<1>1. /\ overlapped \subseteq overlapped'
      /\ \A s \in Requests \ {r} : pc'[s] = pc[s] /\ loc'[s] = loc[s]
  BY CallStep, StepMoves
<1>2. /\ \A o, q : Says(turns, o, q) => Says(turns, o, q)'
      /\ \A o, q : q \notin overlapped' => (Says(turns, o, q)' <=> Says(turns, o, q))
      /\ \A j \in 1 .. Len(turns) : j \in 1 .. Len(turns') /\ turns'[j] = turns[j]
      /\ \A j \in 1 .. Len(turns') : turns'[j].by \notin overlapped' => j \in 1 .. Len(turns)
      /\ \A o \in {"user", "assistant"} : \A q :
           Says(turns, o, q)' => Says(turns, o, q) \/ Says(transcript, o, q)
  <2>1. CASE turns' = turns BY <2>1 DEF Says
  <2>2. ASSUME NEW row \in TurnRow, turns' = Append(turns, row), row.by \in overlapped,
               row.role # "system" => Says(transcript, row.role, row.by)
        PROVE  /\ \A o, q : Says(turns, o, q) => Says(turns, o, q)'
               /\ \A o, q : q \notin overlapped' =>
                              (Says(turns, o, q)' <=> Says(turns, o, q))
               /\ \A j \in 1 .. Len(turns) : j \in 1 .. Len(turns') /\ turns'[j] = turns[j]
               /\ \A j \in 1 .. Len(turns') :
                    turns'[j].by \notin overlapped' => j \in 1 .. Len(turns)
               /\ \A o \in {"user", "assistant"} : \A q :
                    Says(turns, o, q)' => Says(turns, o, q) \/ Says(transcript, o, q)
    <3>1. /\ Len(turns) \in Nat /\ Len(turns') = Len(turns) + 1
          /\ turns'[Len(turns) + 1] = row
          /\ \A j \in 1 .. Len(turns) : j \in 1 .. Len(turns') /\ turns'[j] = turns[j]
          /\ \A o, q : Says(turns, o, q)' <=>
                         Says(turns, o, q) \/ (o = row.role /\ q = row.by)
      BY <2>2, TableGrows
    <3>2. \A j \in 1 .. Len(turns') : j \in 1 .. Len(turns) \/ j = Len(turns) + 1 BY <3>1
    <3>3. \A j \in 1 .. Len(turns') :
            turns'[j].by \notin overlapped' => j \in 1 .. Len(turns)
      BY <1>1, <2>2, <3>1, <3>2
    <3> QED BY <1>1, <2>2, <3>1, <3>3
  <2> QED BY <2>1, <2>2
<1>3. \A o, q : Says(transcript, o, q)' <=> Says(transcript, o, q) BY DEF Says
<1>4. StoreKeepsTurns'
  <2> SUFFICES ASSUME NEW s \in Requests, NEW o \in {"user", "assistant"}
               PROVE  /\ Says(turns, o, s)' => Says(transcript, o, s)'
                      /\ s \notin overlapped' =>
                           (Says(transcript, o, s)' <=>
                              \/ Says(turns, o, s)'
                              \/ pc'[s] = IF o = "user" THEN "heard" ELSE "replied")
    BY DEF StoreKeepsTurns
  <2>1. /\ Says(turns, o, s) => Says(transcript, o, s)
        /\ s \notin overlapped =>
             (Says(transcript, o, s) <=>
                \/ Says(turns, o, s)
                \/ pc[s] = IF o = "user" THEN "heard" ELSE "replied")
    BY DEF TurnInv, StoreKeepsTurns
  <2>2. Says(turns, o, s)' => Says(transcript, o, s)' BY <1>2, <1>3, <2>1
  <2>3. ASSUME s \notin overlapped'
        PROVE  (pc'[s] = IF o = "user" THEN "heard" ELSE "replied")
                 <=> (pc[s] = IF o = "user" THEN "heard" ELSE "replied")
    BY <1>1, <2>3
  <2> QED BY <1>1, <1>2, <1>3, <2>1, <2>2, <2>3
<1>5. RepliesFollow'
  <2> SUFFICES ASSUME NEW k \in 1 .. Len(turns'), turns'[k].by \notin overlapped'
               PROVE  /\ \A j \in 1 .. k - 1 :
                           ~(turns'[j].by = turns'[k].by /\ turns'[j].role = turns'[k].role)
                      /\ turns'[k].role = "assistant"
                           => \E j \in 1 .. k - 1 :
                                /\ turns'[j].role = "user"
                                /\ turns'[j].by = turns'[k].by
                                /\ turns'[j].phase = turns'[k].phase
    BY DEF RepliesFollow
  <2>1. k \in 1 .. Len(turns) /\ turns'[k] = turns[k] /\ turns[k].by \notin overlapped
    BY <1>1, <1>2
  <2>2. Len(turns) \in Nat BY DEF TypeInv, TypeOK
  <2>3. \A j \in 1 .. k - 1 : j \in 1 .. Len(turns) /\ turns'[j] = turns[j]
    BY <1>2, <2>1, <2>2
  <2> QED BY <2>1, <2>3 DEF TurnInv, RepliesFollow
<1>6. ASSUME NEW s \in Requests, s \notin overlapped' PROVE TurnOK(s)'
  <2>1. TurnOK(s) BY <1>1, <1>6 DEF TurnInv
  <2>2. \A o : Says(turns, o, s)' <=> Says(turns, o, s) BY <1>2, <1>6
  <2>3. CASE s # r BY <1>1, <1>2, <2>1, <2>2, <2>3 DEF TurnOK
  <2>4. CASE s = r
    <3>1. Says(turns, "user", r)' => pc'[r] \in Labelled \cup Finished
      BY <1>6, <2>1, <2>2, <2>4 DEF TurnOK
    <3>2. Says(turns, "assistant", r)' => pc'[r] \in Finished
      BY <1>6, <2>1, <2>2, <2>4 DEF TurnOK
    <3>3. Says(turns, "system", r)'
            => pc'[r] \in {"scoring", "persisting", "revealing"} \cup Finished
      BY <1>6, <2>1, <2>2, <2>4 DEF TurnOK, Finished
    <3>4. ASSUME pc'[r] \in Labelled
          PROVE  \E j \in 1 .. Len(turns') :
                   /\ turns'[j].role = "user" /\ turns'[j].by = r
                   /\ turns'[j].phase = loc'[r].label
      <4>1. pc[r] \in Labelled /\ loc'[r].label = loc[r].label BY <1>6, <2>4, <3>4
      <4> QED BY <1>2, <2>1, <2>4, <4>1 DEF TurnOK
    <3> QED BY <2>4, <3>1, <3>2, <3>3, <3>4 DEF TurnOK
  <2> QED BY <2>3, <2>4
<1> QED BY <1>4, <1>5, <1>6 DEF TurnInv

(* Where the steps that neither speak nor store move their thread.          *)
LEMMA SilentMoves ==
  ASSUME TypeInv, NEW r \in Requests, Moves(r),
         ~HearUser(r), ~HearReply(r), ~StoreUser(r), ~StoreReply(r), ~NoteOverruns(r),
         ~BindStored(r), ~StoreRefuses(r)
  PROVE  /\ transcript' = transcript /\ turns' = turns
         /\ {pc'[r], pc[r]} \cap {"heard", "replied"} = {}
         /\ pc[r] \in Finished => pc'[r] \in Finished
         /\ pc[r] \in Labelled => pc'[r] \in Labelled \cup Finished
         /\ pc[r] \in {"scoring", "persisting", "revealing"}
              => pc'[r] \in {"scoring", "persisting", "revealing"} \cup Finished
         /\ pc'[r] \in Labelled => pc[r] \in Labelled
         /\ pc[r] \in Labelled => loc' = loc
<1> pc \in [Requests -> Places] BY DEF TypeInv, TypeOK
<1> USE DEF Labelled, Finished, flowVars, tableVars, Arrives, Goto, StoreReturns
<1>1. CASE SendMessage(r) BY <1>1 DEF SendMessage
<1>2. CASE Disconnect(r) BY <1>2 DEF Disconnect
<1>3. CASE ReadPhase(r) BY <1>3 DEF ReadPhase
<1>4. CASE BuildContext(r) BY <1>4 DEF BuildContext
<1>5. CASE StreamFails(r) BY <1>5 DEF StreamFails
<1>6. CASE Advance(r) BY <1>6 DEF Advance
<1>7. CASE AdvanceStep(r)
  <2>1. CASE LeavePhase(r) BY <2>1 DEF LeavePhase
  <2>2. CASE AdvanceRefused(r) BY <2>2 DEF AdvanceRefused
  <2>3. CASE EnterPhase(r) BY <2>3 DEF EnterPhase
  <2>4. CASE OpenExhibits(r) BY <2>4 DEF OpenExhibits
  <2> QED BY <1>7, <2>1, <2>2, <2>3, <2>4 DEF AdvanceStep
<1>8. CASE Hint(r) BY <1>8 DEF Hint
<1>9. CASE CoachReveal(r) BY <1>9 DEF CoachReveal
<1>10. CASE ShowExhibit(r) BY <1>10 DEF ShowExhibit
<1>11. CASE EndAgain(r) BY <1>11 DEF EndAgain
<1>12. CASE CloseCase(r) BY <1>12 DEF CloseCase
<1>13. CASE EndFails(r) BY <1>13 DEF EndFails
<1>14. CASE ScoreGroup(r) BY <1>14 DEF ScoreGroup
<1>15. CASE Unparsable(r) BY <1>15 DEF Unparsable
<1>16. CASE ScoringUnserved(r) BY <1>16 DEF ScoringUnserved
<1>17. CASE PersistRow(r) BY <1>17 DEF PersistRow
<1>18. CASE Reveal(r) BY <1>18 DEF Reveal
<1>19. CASE PersistRaises(r) BY <1>19 DEF PersistRaises
<1>20. CASE RevealFails(r) BY <1>20 DEF RevealFails
<1> QED BY <1>1, <1>2, <1>3, <1>4, <1>5, <1>6, <1>7, <1>8, <1>9, <1>10, <1>11,
           <1>12, <1>13, <1>14, <1>15, <1>16, <1>17, <1>18, <1>19, <1>20
        DEF Moves, UserStep, ServerStep, StoreStep, MessageStep, EndStep

(* A turn joins the transcript.                                             *)
LEMMA HeardTurns ==
  ASSUME TypeInv, TurnInv, NEW r \in Requests, HearUser(r) \/ HearReply(r)
  PROVE  TurnInv'
<1> /\ pc \in [Requests -> Places] /\ transcript \in Seq(Turn)
    /\ overlapped' = overlapped
  BY DEF TypeInv, TypeOK, FlowTypeOK, HearUser, HearReply, tableVars, callVars
<1>1. CASE HearUser(r)
  <2> DEFINE x == [role |-> "user", by |-> r]
  <2>1. x \in Turn BY DEF Turn
  <2>2. transcript' = Append(transcript, x) BY <1>1 DEF HearUser, RecordTurn
  <2>3. \A role, q : Says(transcript, role, q)'
                       <=> Says(transcript, role, q) \/ (role = "user" /\ q = r)
    BY <2>1, <2>2, SaysAppend
  <2>4. /\ pc' = [pc EXCEPT ![r] = "heard"] /\ pc[r] = "labelled"
        /\ turns' = turns /\ loc' = loc
    BY <1>1 DEF HearUser, Goto, tableVars
  <2>5. StoreKeepsTurns'
    <3>1. \A o, q : Says(turns, o, q)' <=> Says(turns, o, q) BY <2>4 DEF Says
    <3>2. /\ pc'[r] = "heard" /\ pc[r] = "labelled"
          /\ \A s \in Requests \ {r} : pc'[s] = pc[s]
      BY <2>4
    <3> SUFFICES ASSUME NEW s \in Requests, NEW o \in {"user", "assistant"}
                 PROVE  /\ Says(turns, o, s)' => Says(transcript, o, s)'
                        /\ s \notin overlapped' =>
                             (Says(transcript, o, s)' <=>
                                \/ Says(turns, o, s)'
                                \/ pc'[s] = IF o = "user" THEN "heard" ELSE "replied")
      BY DEF StoreKeepsTurns
    <3>3. /\ Says(turns, o, s) => Says(transcript, o, s)
          /\ s \notin overlapped =>
               (Says(transcript, o, s) <=>
                  \/ Says(turns, o, s)
                  \/ pc[s] = IF o = "user" THEN "heard" ELSE "replied")
      BY DEF TurnInv, StoreKeepsTurns
    <3> QED BY <2>3, <3>1, <3>2, <3>3
  <2>6. RepliesFollow' BY <2>4 DEF TurnInv, RepliesFollow
  <2>7. \A s \in Requests : s \notin overlapped' => TurnOK(s)'
    BY <2>4 DEF TurnInv, TurnOK, Says, Labelled, Finished
  <2> QED BY <2>5, <2>6, <2>7 DEF TurnInv
<1>2. CASE HearReply(r)
  <2> DEFINE x == [role |-> "assistant", by |-> r]
  <2>1. x \in Turn BY DEF Turn
  <2>2. transcript' = Append(transcript, x) BY <1>2 DEF HearReply, RecordTurn
  <2>3. \A role, q : Says(transcript, role, q)'
                       <=> Says(transcript, role, q) \/ (role = "assistant" /\ q = r)
    BY <2>1, <2>2, SaysAppend
  <2>4. /\ pc' = [pc EXCEPT ![r] = "replied"] /\ pc[r] = "streaming"
        /\ turns' = turns /\ loc' = loc
    BY <1>2 DEF HearReply, Goto, tableVars
  <2>5. StoreKeepsTurns'
    <3>1. \A o, q : Says(turns, o, q)' <=> Says(turns, o, q) BY <2>4 DEF Says
    <3>2. /\ pc'[r] = "replied" /\ pc[r] = "streaming"
          /\ \A s \in Requests \ {r} : pc'[s] = pc[s]
      BY <2>4
    <3> SUFFICES ASSUME NEW s \in Requests, NEW o \in {"user", "assistant"}
                 PROVE  /\ Says(turns, o, s)' => Says(transcript, o, s)'
                        /\ s \notin overlapped' =>
                             (Says(transcript, o, s)' <=>
                                \/ Says(turns, o, s)'
                                \/ pc'[s] = IF o = "user" THEN "heard" ELSE "replied")
      BY DEF StoreKeepsTurns
    <3>3. /\ Says(turns, o, s) => Says(transcript, o, s)
          /\ s \notin overlapped =>
               (Says(transcript, o, s) <=>
                  \/ Says(turns, o, s)
                  \/ pc[s] = IF o = "user" THEN "heard" ELSE "replied")
      BY DEF TurnInv, StoreKeepsTurns
    <3> QED BY <2>3, <3>1, <3>2, <3>3
  <2>6. RepliesFollow' BY <2>4 DEF TurnInv, RepliesFollow
  <2>7. \A s \in Requests : s \notin overlapped' => TurnOK(s)'
    BY <2>4 DEF TurnInv, TurnOK, Says, Labelled, Finished
  <2> QED BY <2>5, <2>6, <2>7 DEF TurnInv
<1> QED BY <1>1, <1>2

(* Where the end of a call takes its thread ...                             *)
StoredTo(r) ==
  IF pc[r] = "heard" THEN "stored" ELSE IF pc[r] = "replied" THEN "done" ELSE "scoring"

(* ... and what it adds.                                                    *)
LEMMA TurnStored ==
  ASSUME TypeInv, CallInv, NEW r \in Requests,
         StoreUser(r) \/ StoreReply(r) \/ (NoteOverruns(r) /\ loc[r].late # {})
  PROVE  /\ StoresTurn(r) /\ loc' = loc /\ transcript' = transcript
         /\ overlapped' = overlapped
         /\ \/ turns' = Append(turns, TurnOf(r)) /\ Goto(r, StoredTo(r)) /\ r \notin overlapped
            \/ /\ r \in overlapped
               /\ \/ turns' = turns
                  \/ \E row \in TurnRow :
                       /\ turns' = Append(turns, row) /\ row.by \in overlapped
                       /\ row.role # "system" => Says(transcript, row.role, row.by)
<1>1. /\ StoresTurn(r) /\ loc' = loc /\ transcript' = transcript
      /\ StoreTurn(r, StoredTo(r))
  BY DEF StoreUser, StoreReply, NoteOverruns, StoresTurn, StoredTo, flowVars
<1>2. PICK failed \in BOOLEAN :
        Returns(r, failed) /\ Goto(r, IF failed THEN "failed" ELSE StoredTo(r))
  BY <1>1 DEF StoreTurn, StoreReturns
<1>3. turns' = turns \o bound.turns /\ overlapped' = overlapped
  BY <1>1, <1>2 DEF StoreTurn, Returns
<1>4. turns \in Seq(TurnRow) BY DEF TypeInv, TypeOK
<1>5. \A row : turns \o <<row>> = Append(turns, row)
  BY <1>4
<1>6. turns \o <<>> = turns BY <1>4
<1>7. \/ /\ ~failed /\ bound.turns = <<TurnOf(r)>>
      \/ /\ r \in overlapped
         /\ \A row \in TurnRow : bound.turns = <<row>> =>
              /\ row.by \in overlapped
              /\ row.role # "system" => Says(transcript, row.role, row.by)
  BY <1>1, <1>2, CallInserts
<1>8. CASE ~failed /\ bound.turns = <<TurnOf(r)>>
  <2>1. turns' = Append(turns, TurnOf(r)) /\ Goto(r, StoredTo(r))
    BY <1>2, <1>3, <1>5, <1>8
  <2>2. TurnOf(r) \in TurnRow /\ TurnOf(r).by = r BY <1>1, OwnRows
  <2>3. TurnOf(r).role # "system" => Says(transcript, TurnOf(r).role, r)
    <3>1. CASE pc[r] = "heard" BY <3>1 DEF TurnOf, Turns, CallInv, SpeechOK
    <3>2. CASE pc[r] = "replied" BY <3>2 DEF TurnOf, Turns, CallInv, SpeechOK
    <3>3. CASE pc[r] = "closed" BY <3>3 DEF TurnOf, Turns
    <3> QED BY <1>1, <3>1, <3>2, <3>3 DEF StoresTurn
  <2> QED BY <1>1, <1>3, <2>1, <2>2, <2>3
<1>9. CASE /\ r \in overlapped
           /\ \A row \in TurnRow : bound.turns = <<row>> =>
                /\ row.by \in overlapped
                /\ row.role # "system" => Says(transcript, row.role, row.by)
  <2>1. bound.turns = <<>> \/ \E row \in TurnRow : bound.turns = <<row>>
    BY BoundRow DEF TypeInv
  <2> QED BY <1>1, <1>3, <1>5, <1>6, <1>9, <2>1
<1> QED BY <1>7, <1>8, <1>9

(* A turn is stored by a request none of whose calls has met another.       *)
LEMMA AloneTurns ==
  ASSUME TypeInv, CallInv, TurnInv, NEW r \in Requests, Moves(r), r \notin overlapped,
         StoresTurn(r), loc' = loc, transcript' = transcript, overlapped' = overlapped,
         turns' = Append(turns, TurnOf(r)), Goto(r, StoredTo(r))
  PROVE  TurnInv'
<1> DEFINE x == TurnOf(r)
<1>1. /\ pc \in [Requests -> Places] /\ x \in TurnRow /\ x.by = r /\ TurnOK(r)
      /\ \A s \in Requests \ {r} : pc'[s] = pc[s]
  BY StepMoves, OwnRows DEF TypeInv, TypeOK, TurnInv
<1>2. /\ Len(turns) \in Nat /\ Len(turns') = Len(turns) + 1 /\ turns'[Len(turns) + 1] = x
      /\ \A j \in 1 .. Len(turns) : j \in 1 .. Len(turns') /\ turns'[j] = turns[j]
      /\ \A o, q : Says(turns, o, q)' <=> Says(turns, o, q) \/ (o = x.role /\ q = r)
  BY <1>1, TableGrows
<1>3. \A o, q : Says(transcript, o, q)' <=> Says(transcript, o, q) BY DEF Says
<1>4. /\ \/ pc[r] = "heard" /\ x.role = "user" /\ x.phase = loc[r].label /\ pc'[r] = "stored"
         \/ pc[r] = "replied" /\ x.role = "assistant" /\ x.phase = loc[r].label
            /\ pc'[r] = "done"
         \/ pc[r] = "closed" /\ x.role = "system" /\ pc'[r] = "scoring"
  BY <1>1 DEF StoresTurn, TurnOf, Turns, StoredTo, Goto
<1> HIDE DEF x
<1>5. ~Says(turns, x.role, r)
  BY <1>1, <1>4 DEF TurnOK, Labelled, Finished
<1>6. StoreKeepsTurns'
  <2> SUFFICES ASSUME NEW s \in Requests, NEW o \in {"user", "assistant"}
               PROVE  /\ Says(turns, o, s)' => Says(transcript, o, s)'
                      /\ s \notin overlapped' =>
                           (Says(transcript, o, s)' <=>
                              \/ Says(turns, o, s)'
                              \/ pc'[s] = IF o = "user" THEN "heard" ELSE "replied")
    BY DEF StoreKeepsTurns
  <2>1. /\ Says(turns, o, s) => Says(transcript, o, s)
        /\ s \notin overlapped =>
             (Says(transcript, o, s) <=>
                \/ Says(turns, o, s)
                \/ pc[s] = IF o = "user" THEN "heard" ELSE "replied")
    BY DEF TurnInv, StoreKeepsTurns
  <2>2. CASE s # r BY <1>1, <1>2, <1>3, <2>1, <2>2
  <2>3. CASE s = r
    <3>1. CASE o = x.role BY <1>2, <1>3, <1>4, <2>1, <2>3, <3>1
    <3>2. CASE o # x.role
      <4>1. (pc'[r] = IF o = "user" THEN "heard" ELSE "replied")
              <=> (pc[r] = IF o = "user" THEN "heard" ELSE "replied")
        BY <1>4, <3>2
      <4> QED BY <1>2, <1>3, <2>1, <2>3, <3>2, <4>1
    <3> QED BY <3>1, <3>2
  <2> QED BY <2>2, <2>3
<1>7. RepliesFollow'
  <2> SUFFICES ASSUME NEW k \in 1 .. Len(turns'), turns'[k].by \notin overlapped'
               PROVE  /\ \A j \in 1 .. k - 1 :
                           ~(turns'[j].by = turns'[k].by /\ turns'[j].role = turns'[k].role)
                      /\ turns'[k].role = "assistant"
                           => \E j \in 1 .. k - 1 :
                                /\ turns'[j].role = "user"
                                /\ turns'[j].by = turns'[k].by
                                /\ turns'[j].phase = turns'[k].phase
    BY DEF RepliesFollow
  <2>1. CASE k \in 1 .. Len(turns)
    <3>1. \A j \in 1 .. k - 1 : j \in 1 .. Len(turns) /\ turns'[j] = turns[j]
      BY <1>2, <2>1
    <3>2. turns'[k] = turns[k] BY <1>2, <2>1
    <3> QED BY <2>1, <3>1, <3>2 DEF TurnInv, RepliesFollow
  <2>2. CASE k = Len(turns) + 1
    <3>1. turns'[k] = x /\ k - 1 = Len(turns) BY <1>2, <2>2
    <3>2. \A j \in 1 .. k - 1 :
            ~(turns'[j].by = turns'[k].by /\ turns'[j].role = turns'[k].role)
      BY <1>1, <1>2, <1>5, <3>1 DEF Says
    <3>3. ASSUME x.role = "assistant"
          PROVE  \E j \in 1 .. Len(turns) :
                   /\ turns[j].role = "user" /\ turns[j].by = r
                   /\ turns[j].phase = x.phase
      BY <1>1, <1>4, <3>3 DEF TurnOK, Labelled
    <3> QED BY <1>1, <1>2, <3>1, <3>2, <3>3
  <2> QED BY <1>2, <2>1, <2>2
<1>8. ASSUME NEW s \in Requests, s \notin overlapped' PROVE TurnOK(s)'
  <2>1. TurnOK(s) BY <1>8 DEF TurnInv
  <2>2. CASE s # r
    <3>1. \A o : Says(turns, o, s)' <=> Says(turns, o, s) BY <1>2, <2>2
    <3> QED BY <1>1, <1>2, <2>1, <2>2, <3>1 DEF TurnOK
  <2>3. CASE s = r
    <3>1. CASE pc[r] = "heard"
      <4>1. /\ ~Says(turns, "assistant", r)' /\ ~Says(turns, "system", r)'
        BY <1>1, <1>2, <1>4, <3>1 DEF TurnOK, Labelled, Finished
      <4>2. \E j \in 1 .. Len(turns') :
              turns'[j].role = "user" /\ turns'[j].by = r /\ turns'[j].phase = loc'[r].label
        BY <1>1, <1>2, <1>4, <3>1
      <4> QED BY <1>4, <2>3, <3>1, <4>1, <4>2 DEF TurnOK, Labelled
    <3>2. CASE pc[r] = "replied"
      BY <1>4, <2>3, <3>2 DEF TurnOK, Labelled, Finished
    <3>3. CASE pc[r] = "closed"
      <4>1. /\ ~Says(turns, "user", r)' /\ ~Says(turns, "assistant", r)'
        BY <1>1, <1>2, <1>4, <3>3 DEF TurnOK, Labelled, Finished
      <4> QED BY <1>4, <2>3, <3>3, <4>1 DEF TurnOK, Labelled
    <3> QED BY <1>4, <3>1, <3>2, <3>3
  <2> QED BY <2>2, <2>3
<1> QED BY <1>6, <1>7, <1>8 DEF TurnInv

(* Every step.                                                              *)
LEMMA TurnStep ==
  ASSUME TypeInv, CallInv, TurnInv, NEW r \in Requests, Moves(r)
  PROVE  TurnInv'
<1>0. pc \in [Requests -> Places] BY DEF TypeInv, TypeOK
<1>1. CASE HearUser(r) \/ HearReply(r) BY <1>1, HeardTurns
<1>2. CASE StoreUser(r) \/ StoreReply(r) \/ (NoteOverruns(r) /\ loc[r].late # {})
  <2>1. CASE r \in overlapped
    <3>1. r \in overlapped' BY <1>2, <2>1, TurnStored
    <3> QED BY <1>2, <2>1, <3>1, TurnStored, TurnFrame
  <2>2. CASE r \notin overlapped BY <1>2, <2>2, TurnStored, AloneTurns
  <2> QED BY <2>1, <2>2
<1>3. CASE NoteOverruns(r) /\ loc[r].late = {}
  <2>1. /\ pc[r] = "closed" /\ pc'[r] = "scoring" /\ turns' = turns
        /\ transcript' = transcript
    BY <1>0, <1>3 DEF NoteOverruns, Goto, flowVars
  <2> QED BY <2>1, TurnFrame DEF Labelled, Finished
<1>4. CASE BindStored(r)
  <2>1. pc' = pc /\ loc' = loc /\ turns' = turns /\ transcript' = transcript
    BY <1>4 DEF BindStored, flowVars
  <2> QED BY <2>1, TurnFrame
<1>5. CASE StoreRefuses(r)
  <2>1. turns' = turns /\ transcript' = transcript BY <1>5 DEF StoreRefuses, flowVars
  <2> QED BY <1>5, <2>1, CallRefused, TurnFrame
<1>6. CASE /\ ~HearUser(r) /\ ~HearReply(r) /\ ~StoreUser(r) /\ ~StoreReply(r)
           /\ ~NoteOverruns(r) /\ ~BindStored(r) /\ ~StoreRefuses(r)
  <2>1. /\ transcript' = transcript /\ turns' = turns
        /\ {pc'[r], pc[r]} \cap {"heard", "replied"} = {}
        /\ pc[r] \in Finished => pc'[r] \in Finished
        /\ pc[r] \in Labelled => pc'[r] \in Labelled \cup Finished
        /\ pc[r] \in {"scoring", "persisting", "revealing"}
              => pc'[r] \in {"scoring", "persisting", "revealing"} \cup Finished
        /\ pc'[r] \in Labelled => pc[r] \in Labelled
        /\ pc[r] \in Labelled => loc' = loc
    BY <1>6, SilentMoves
  <2>2. pc[r] \in Labelled => loc'[r].label = loc[r].label BY <2>1
  <2> QED BY <2>1, <2>2, TurnFrame
<1> QED BY <1>1, <1>2, <1>3, <1>4, <1>5, <1>6

(* A step that changes nothing.                                             *)
LEMMA StutterTurns == ASSUME TurnInv, UNCHANGED vars PROVE TurnInv'
<1>1. /\ turns' = turns /\ transcript' = transcript /\ pc' = pc /\ loc' = loc
      /\ overlapped' = overlapped
  BY DEF vars, flowVars, tableVars, callVars
<1> QED BY <1>1 DEF TurnInv, StoreKeepsTurns, RepliesFollow, TurnOK, Says

(* Under any interleaving of requests, disconnects, failing streams and     *)
(* calls of the store that are refused or insert another's row, the table   *)
(* of turns holds only what has been said; and of a request whose calls     *)
(* meet no other it keeps up with the transcript, and its reply follows its *)
(* message under the same phase label.                                      *)
THEOREM StoreKeepsUp == Spec => []ConversationKept
<1>1. TypeInv /\ CallInv /\ TurnInv /\ [Next]_vars => TurnInv'
  BY TurnStep, StutterTurns DEF Next, AllAnswered, Moves
<1>2. TurnInv => ConversationKept BY DEF TurnInv, ConversationKept
<1> QED BY TurnInit, TypeInvariant, CallInvariant, <1>1, <1>2, PTL DEF Spec

-----------------------------------------------------------------------------
(* The scorecard and the reveal.  What _end has done so far is read off its *)
(* thread: the rows of a scoring run are Dims[1 .. row], docked by penalty. *)

CardOK(r) ==
  /\ pc[r] \in EndStates => IsTerminal
  /\ pc[r] \notin {"persisting", "revealing"} \cup Finished => ~loc[r].scored
  /\ pc[r] = "revealing" /\ loc[r].scored => loc[r].row = Len(Dims)

(* The rows of a request none of whose calls has met another.               *)
RowsOK(r) ==
  /\ \A k \in 1 .. Len(cards) : cards[k].by = r =>
       /\ cards[k].penalty = loc[r].penalty
       /\ \E n \in 1 .. loc[r].row : cards[k].dim = Dims[n]
  /\ \A n \in 1 .. loc[r].row :
       \E k \in 1 .. Len(cards) : cards[k].by = r /\ cards[k].dim = Dims[n]

CardInv ==
  /\ OnePenaltyPerRun /\ RevealComesLast
  /\ \A r \in Requests : CardOK(r) /\ (r \notin overlapped => RowsOK(r))

(* Nothing is scored at the start.                                          *)
LEMMA CardInit == Init => CardInv
BY DEF Init, FlowInit, CallsInit, CardInv, OnePenaltyPerRun, RevealComesLast, CardOK,
       RowsOK, Fresh, EndStates

(* The card table grows by a row at its end.                                *)
LEMMA CardsGrow ==
  ASSUME TypeInv, NEW row \in CardRow, cards' = Append(cards, row)
  PROVE  /\ Len(cards) \in Nat /\ Len(cards') = Len(cards) + 1
         /\ cards'[Len(cards) + 1] = row
         /\ \A k \in 1 .. Len(cards) : k \in 1 .. Len(cards') /\ cards'[k] = cards[k]
BY DEF TypeInv, TypeOK

(* The rows of a request to which nothing is added.                         *)
LEMMA RowsKept ==
  ASSUME NEW s, RowsOK(s), loc'[s].row = loc[s].row,
         loc'[s].penalty = loc[s].penalty \/ loc[s].row = 0,
         \A k \in 1 .. Len(cards) : k \in 1 .. Len(cards') /\ cards'[k] = cards[k],
         \A k \in 1 .. Len(cards') : cards'[k].by = s =>
           k \in 1 .. Len(cards) /\ cards'[k] = cards[k]
  PROVE  RowsOK(s)'
<1>1. ASSUME NEW k \in 1 .. Len(cards'), cards'[k].by = s
      PROVE  /\ cards'[k].penalty = loc'[s].penalty
             /\ \E n \in 1 .. loc'[s].row : cards'[k].dim = Dims[n]
  <2>1. k \in 1 .. Len(cards) /\ cards'[k] = cards[k] BY <1>1
  <2>2. /\ cards[k].penalty = loc[s].penalty
        /\ \E n \in 1 .. loc[s].row : cards[k].dim = Dims[n]
    BY <1>1, <2>1 DEF RowsOK
  <2>3. loc[s].row # 0 BY <2>2
  <2> QED BY <2>1, <2>2, <2>3, Zenon
<1>2. ASSUME NEW n \in 1 .. loc'[s].row
      PROVE  \E k \in 1 .. Len(cards') : cards'[k].by = s /\ cards'[k].dim = Dims[n]
  <2>1. n \in 1 .. loc[s].row OBVIOUS
  <2>2. PICK k \in 1 .. Len(cards) : cards[k].by = s /\ cards[k].dim = Dims[n]
    BY <2>1 DEF RowsOK
  <2>3. k \in 1 .. Len(cards') /\ cards'[k] = cards[k] OBVIOUS
  <2> QED BY <2>2, <2>3
<1> QED BY <1>1, <1>2 DEF RowsOK

(* A step that neither reveals nor writes a row, or writes one of a request *)
(* that has met another.                                                    *)
LEMMA CardFrame ==
  ASSUME TypeInv, CallInv, CardInv, NEW r \in Requests, Moves(r),
         payload' = payload, phase' \in {phase, phase + 1},
         \/ cards' = cards
         \/ IsTerminal /\ \E row \in CardRow :
              cards' = Append(cards, row) /\ row.by \in overlapped,
         pc'[r] \in EndStates => pc[r] \in EndStates \/ IsTerminal,
         pc'[r] = "revealing" => ~loc'[r].scored \/ loc'[r].row = Len(Dims),
         pc[r] \in {"persisting", "revealing"} \cup Finished =>
           pc'[r] \in {"persisting", "revealing"} \cup Finished,
         loc'[r].scored => loc[r].scored \/ pc'[r] = "persisting",
         \/ r \in overlapped'
         \/ /\ loc'[r].row = loc[r].row
            /\ loc'[r].penalty = loc[r].penalty \/ loc[r].row = 0
  PROVE  CardInv'
<1>1. /\ overlapped \subseteq overlapped'
      /\ \A s \in Requests \ {r} : pc'[s] = pc[s] /\ loc'[s] = loc[s]
  BY CallStep, StepMoves
<1>2. IsTerminal => IsTerminal'
  BY CaseAssumption DEF IsTerminal, LastPhase, TypeInv, TypeOK, FlowTypeOK
<1>3. /\ \A k \in 1 .. Len(cards) : k \in 1 .. Len(cards') /\ cards'[k] = cards[k]
      /\ \A k \in 1 .. Len(cards') : cards'[k].by \notin overlapped' =>
           k \in 1 .. Len(cards) /\ cards'[k] = cards[k]
      /\ cards' # <<>> => cards # <<>> \/ IsTerminal
  <2>1. CASE cards' = cards BY <2>1
  <2>2. ASSUME IsTerminal, NEW row \in CardRow, cards' = Append(cards, row),
               row.by \in overlapped
        PROVE  /\ \A k \in 1 .. Len(cards) : k \in 1 .. Len(cards') /\ cards'[k] = cards[k]
               /\ \A k \in 1 .. Len(cards') : cards'[k].by \notin overlapped' =>
                    k \in 1 .. Len(cards) /\ cards'[k] = cards[k]
    <3>1. /\ Len(cards) \in Nat /\ Len(cards') = Len(cards) + 1
          /\ cards'[Len(cards) + 1] = row
          /\ \A k \in 1 .. Len(cards) : k \in 1 .. Len(cards') /\ cards'[k] = cards[k]
      BY <2>2, CardsGrow
    <3>2. \A k \in 1 .. Len(cards') : k \in 1 .. Len(cards) \/ k = Len(cards) + 1 BY <3>1
    <3> QED BY <1>1, <2>2, <3>1, <3>2
  <2> QED BY <2>1, <2>2
<1>4. OnePenaltyPerRun'
  BY <1>1, <1>3 DEF CardInv, OnePenaltyPerRun
<1>5. RevealComesLast'
  <2>1. payload' # {} \/ cards' # <<>> => IsTerminal'
    BY <1>2, <1>3 DEF CardInv, RevealComesLast
  <2>2. ASSUME NEW p \in payload', p.feedback, p.by \notin overlapped',
               NEW d \in 1 .. Len(Dims)
        PROVE  \E k \in 1 .. Len(cards') : cards'[k].by = p.by /\ cards'[k].dim = Dims[d]
    <3>1. PICK k \in 1 .. Len(cards) : cards[k].by = p.by /\ cards[k].dim = Dims[d]
      BY <1>1, <2>2 DEF CardInv, RevealComesLast
    <3> QED BY <1>3, <3>1
  <2> QED BY <2>1, <2>2 DEF RevealComesLast
<1>6. ASSUME NEW s \in Requests PROVE CardOK(s)'
  <2>1. CardOK(s) BY DEF CardInv
  <2>2. CASE s # r BY <1>1, <1>2, <2>1, <2>2 DEF CardOK
  <2>3. CASE s = r
    <3>1. pc'[r] \in EndStates => IsTerminal' BY <1>2, <2>1, <2>3 DEF CardOK
    <3>2. pc'[r] \notin {"persisting", "revealing"} \cup Finished => ~loc'[r].scored
      BY <2>1, <2>3 DEF CardOK
    <3> QED BY <2>3, <3>1, <3>2 DEF CardOK
  <2> QED BY <2>2, <2>3
<1>7. ASSUME NEW s \in Requests, s \notin overlapped' PROVE RowsOK(s)'
  <2>1. RowsOK(s) BY <1>1, <1>7 DEF CardInv
  <2>2. loc'[s].row = loc[s].row /\ (loc'[s].penalty = loc[s].penalty \/ loc[s].row = 0)
    BY <1>1, <1>7
  <2>3. \A k \in 1 .. Len(cards') : cards'[k].by = s =>
          k \in 1 .. Len(cards) /\ cards'[k] = cards[k]
    BY <1>3, <1>7
  <2> QED BY <1>3, <2>1, <2>2, <2>3, RowsKept
<1> QED BY <1>4, <1>5, <1>6, <1>7 DEF CardInv

(* What a step does to the progress of a scoring run, unless it writes a    *)
(* row or reveals.                                                          *)
LEMMA SilentRun ==
  ASSUME TypeInv, CardInv, NEW r \in Requests, Moves(r), ~PersistRow(r), ~Reveal(r)
  PROVE  /\ payload' = payload /\ phase' \in {phase, phase + 1} /\ cards' = cards
         /\ pc'[r] \in EndStates => pc[r] \in EndStates \/ IsTerminal
         /\ pc'[r] = "revealing" => ~loc'[r].scored \/ loc'[r].row = Len(Dims)
         /\ pc[r] \in {"persisting", "revealing"} \cup Finished =>
              pc'[r] \in {"persisting", "revealing"} \cup Finished
         /\ loc'[r].scored => loc[r].scored \/ pc'[r] = "persisting"
         /\ loc'[r].row = loc[r].row
         /\ loc'[r].penalty = loc[r].penalty \/ loc[r].row = 0
<1> /\ loc \in [Requests -> Locals] /\ pc \in [Requests -> Places]
    /\ RowOK(r) /\ CardOK(r)
  BY DEF TypeInv, TypeOK, CardInv
<1> USE DEF EndStates, Finished, flowVars, tableVars, Arrives, Goto, CardOK, StoreReturns
<1>1. CASE SendMessage(r) BY <1>1 DEF SendMessage
<1>2. CASE Disconnect(r) BY <1>2 DEF Disconnect
<1>3. CASE MessageStep(r)
  <2>1. CASE ReadPhase(r) BY <2>1 DEF ReadPhase
  <2>2. CASE HearUser(r) BY <2>2 DEF HearUser
  <2>3. CASE StoreUser(r) BY <2>3 DEF StoreUser, StoreTurn
  <2>4. CASE BuildContext(r) BY <2>4 DEF BuildContext
  <2>5. CASE HearReply(r) BY <2>5 DEF HearReply
  <2>6. CASE StreamFails(r) BY <2>6 DEF StreamFails
  <2>7. CASE StoreReply(r) BY <2>7 DEF StoreReply, StoreTurn
  <2> QED BY <1>3, <2>1, <2>2, <2>3, <2>4, <2>5, <2>6, <2>7 DEF MessageStep
<1>4. CASE Advance(r) BY <1>4 DEF Advance
<1>5. CASE AdvanceStep(r)
  <2>1. CASE LeavePhase(r) BY <2>1 DEF LeavePhase
  <2>2. CASE AdvanceRefused(r) BY <2>2 DEF AdvanceRefused
  <2>3. CASE EnterPhase(r) BY <2>3 DEF EnterPhase, EnterNextPhase
  <2>4. CASE OpenExhibits(r) BY <2>4 DEF OpenExhibits
  <2> QED BY <1>5, <2>1, <2>2, <2>3, <2>4 DEF AdvanceStep
<1>6. CASE Hint(r) BY <1>6 DEF Hint
<1>7. CASE CoachReveal(r) BY <1>7 DEF CoachReveal
<1>8. CASE ShowExhibit(r) BY <1>8 DEF ShowExhibit
<1>9. CASE EndAgain(r) BY <1>9 DEF EndAgain
<1>10. CASE CloseCase(r) BY <1>10 DEF CloseCase
<1>11. CASE EndFails(r) BY <1>11 DEF EndFails
<1>12. CASE NoteOverruns(r) BY <1>12 DEF NoteOverruns, StoreTurn
<1>13. CASE ScoreGroup(r)
  <2>1. loc[r].row = 0 BY <1>13 DEF ScoreGroup, RowOK
  <2>2. loc'[r].scored => pc'[r] = "persisting"
    <3>1. loc'[r].scored = (loc[r].group + 1 = NGroups) BY <1>13 DEF ScoreGroup
    <3> QED BY <1>13, <3>1 DEF ScoreGroup
  <2>3. loc'[r].row = loc[r].row BY <1>13 DEF ScoreGroup
  <2> QED BY <1>13, <2>1, <2>2, <2>3 DEF ScoreGroup
<1>14. CASE Unparsable(r) BY <1>14 DEF Unparsable
<1>15. CASE ScoringUnserved(r) BY <1>15 DEF ScoringUnserved
<1>16. CASE BindStored(r) BY <1>16 DEF BindStored
<1>17. CASE StoreRefuses(r) BY <1>17 DEF StoreRefuses
<1>18. CASE PersistRaises(r) BY <1>18 DEF PersistRaises
<1>19. CASE RevealFails(r) BY <1>19 DEF RevealFails
<1> QED BY <1>1, <1>2, <1>3, <1>4, <1>5, <1>6, <1>7, <1>8, <1>9, <1>10, <1>11,
           <1>12, <1>13, <1>14, <1>15, <1>16, <1>17, <1>18, <1>19
        DEF Moves, UserStep, ServerStep, StoreStep, EndStep

(* What the end of a call that stores a row adds, and where its thread goes.*)
LEMMA CardStored ==
  ASSUME TypeInv, CallInv, NEW r \in Requests, PersistRow(r)
  PROVE  /\ pc[r] = "persisting" /\ overlapped' = overlapped
         /\ \/ /\ r \notin overlapped /\ cards' = Append(cards, CardOf(r))
               /\ Goto(r, IF loc[r].row + 1 = Len(Dims) THEN "revealing" ELSE "persisting")
            \/ /\ r \in overlapped
               /\ pc'[r] \in {"persisting", "revealing", "failed"}
               /\ pc'[r] = "revealing" => loc[r].row + 1 = Len(Dims)
               /\ \/ cards' = cards
                  \/ \E row \in CardRow :
                       cards' = Append(cards, row) /\ row.by \in overlapped
<1> DEFINE l == IF loc[r].row + 1 = Len(Dims) THEN "revealing" ELSE "persisting"
<1>1. pc[r] = "persisting" /\ cards' = cards \o bound.scorecards /\ StoreReturns(r, l)
  BY DEF PersistRow
<1>2. PICK failed \in BOOLEAN :
        Returns(r, failed) /\ Goto(r, IF failed THEN "failed" ELSE l)
  BY <1>1 DEF StoreReturns
<1>3. overlapped' = overlapped BY <1>2 DEF Returns
<1>4. cards \in Seq(CardRow) /\ pc \in [Requests -> Places] BY DEF TypeInv, TypeOK
<1>5. /\ \A row : cards \o <<row>> = Append(cards, row)
      /\ cards \o <<>> = cards
  BY <1>4
<1>6. /\ pc'[r] \in {"persisting", "revealing", "failed"}
      /\ pc'[r] = "revealing" => loc[r].row + 1 = Len(Dims)
  BY <1>2, <1>4 DEF Goto
<1>7. \/ ~failed /\ bound.scorecards = <<CardOf(r)>>
      \/ /\ r \in overlapped
         /\ \A row \in CardRow : bound.scorecards = <<row>> => row.by \in overlapped
  BY <1>1, <1>2, CallInserts
<1> HIDE DEF l
<1>8. CASE ~failed /\ bound.scorecards = <<CardOf(r)>>
  <2>1. cards' = Append(cards, CardOf(r)) /\ Goto(r, l) BY <1>1, <1>2, <1>5, <1>8
  <2>2. CardOf(r) \in CardRow /\ CardOf(r).by = r BY <1>1, OwnRows
  <2> QED BY <1>1, <1>3, <1>6, <2>1, <2>2 DEF l
<1>9. CASE /\ r \in overlapped
           /\ \A row \in CardRow : bound.scorecards = <<row>> => row.by \in overlapped
  <2>1. bound.scorecards = <<>> \/ \E row \in CardRow : bound.scorecards = <<row>>
    BY BoundRow DEF TypeInv
  <2> QED BY <1>1, <1>3, <1>5, <1>6, <1>9, <2>1
<1> QED BY <1>7, <1>8, <1>9

(* A row is written by a request none of whose calls has met another: the   *)
(* next dimension, docked like the ones before.                             *)
LEMMA AloneCards ==
  ASSUME TypeInv, CardInv, NEW r \in Requests, PersistRow(r), r \notin overlapped,
         overlapped' = overlapped, cards' = Append(cards, CardOf(r)),
         Goto(r, IF loc[r].row + 1 = Len(Dims) THEN "revealing" ELSE "persisting")
  PROVE  CardInv'
<1> DEFINE x == [dim |-> Dims[loc[r].row + 1], penalty |-> loc[r].penalty,
                 by |-> r]
           n == loc[r].row + 1
<1>1. /\ pc \in [Requests -> Places] /\ loc \in [Requests -> Locals]
      /\ cards \in Seq(CardRow) /\ cards' \in Seq(CardRow) /\ RowsOK(r)
  BY EndType DEF TypeInv, TypeOK, EndStep, CardInv
<1>2. /\ pc[r] = "persisting" /\ loc[r].row \in Nat /\ n \in 1 .. Len(Dims)
  BY <1>1, SessionAssumption DEF PersistRow, TypeInv, RowOK, Locals
<1>3. /\ cards' = Append(cards, x) /\ Len(cards') = Len(cards) + 1
      /\ cards'[Len(cards) + 1] = x /\ Len(cards) \in Nat
      /\ \A k \in 1 .. Len(cards) : k \in 1 .. Len(cards') /\ cards'[k] = cards[k]
  BY <1>1 DEF CardOf
<1>4. /\ loc'[r].row = n /\ loc'[r].penalty = loc[r].penalty
      /\ loc'[r].scored = loc[r].scored
      /\ \A s \in Requests \ {r} : loc'[s] = loc[s]
  BY <1>1 DEF PersistRow, Locals
<1>5. /\ pc'[r] = IF n = Len(Dims) THEN "revealing" ELSE "persisting"
      /\ \A s \in Requests \ {r} : pc'[s] = pc[s]
  BY <1>1 DEF Goto
<1>6. payload' = payload /\ (IsTerminal' <=> IsTerminal) /\ IsTerminal
  BY <1>2 DEF PersistRow, flowVars, IsTerminal, CardInv, CardOK, EndStates
<1> HIDE DEF n
<1>7. \A k \in 1 .. Len(cards) : cards[k].by = r =>
        cards[k].penalty = x.penalty /\ cards[k].dim # x.dim
  <2> SUFFICES ASSUME NEW k \in 1 .. Len(cards), cards[k].by = r
               PROVE  cards[k].penalty = x.penalty /\ cards[k].dim # x.dim
    OBVIOUS
  <2>1. PICK m \in 1 .. loc[r].row : cards[k].dim = Dims[m]
    BY <1>1 DEF RowsOK
  <2>2. m \in 1 .. Len(Dims) /\ m # n BY <1>2 DEF n
  <2>3. Dims[m] # Dims[n] BY <2>2, <1>2, SessionAssumption
  <2> QED BY <1>1, <2>1, <2>3 DEF RowsOK, n
<1>8. OnePenaltyPerRun'
  <2> SUFFICES ASSUME NEW j \in 1 .. Len(cards'), NEW k \in 1 .. Len(cards'),
                      j # k, cards'[j].by = cards'[k].by,
                      cards'[k].by \notin overlapped'
               PROVE  /\ cards'[j].penalty = cards'[k].penalty
                      /\ cards'[j].dim # cards'[k].dim
    BY DEF OnePenaltyPerRun
  <2>1. CASE j \in 1 .. Len(cards) /\ k \in 1 .. Len(cards)
    BY <2>1, <1>3 DEF CardInv, OnePenaltyPerRun
  <2>2. CASE j = Len(cards) + 1 /\ k \in 1 .. Len(cards) BY <2>2, <1>3, <1>7
  <2>3. CASE k = Len(cards) + 1 /\ j \in 1 .. Len(cards) BY <2>3, <1>3, <1>7
  <2> QED BY <2>1, <2>2, <2>3, <1>3
<1>9. RevealComesLast' BY <1>3, <1>6 DEF CardInv, RevealComesLast
<1>10. CardOK(r)' /\ RowsOK(r)'
  <2>1. \A k \in 1 .. Len(cards') : cards'[k].by = r =>
          /\ cards'[k].penalty = loc'[r].penalty
          /\ \E m \in 1 .. n : cards'[k].dim = Dims[m]
    <3> SUFFICES ASSUME NEW k \in 1 .. Len(cards'), cards'[k].by = r
                 PROVE  /\ cards'[k].penalty = loc'[r].penalty
                        /\ \E m \in 1 .. n : cards'[k].dim = Dims[m]
      OBVIOUS
    <3>1. CASE k \in 1 .. Len(cards)
      <4>1. PICK m \in 1 .. loc[r].row : cards[k].dim = Dims[m]
        BY <1>1, <1>3, <3>1 DEF RowsOK
      <4>2. m \in 1 .. n BY <1>2 DEF n
      <4> QED BY <1>1, <1>3, <1>4, <3>1, <4>1, <4>2 DEF RowsOK
    <3>2. CASE k = Len(cards) + 1
      <4>1. n \in 1 .. n BY <1>2
      <4> QED BY <1>3, <1>4, <3>2, <4>1 DEF n
    <3> QED BY <3>1, <3>2, <1>3
  <2>2. \A m \in 1 .. n : \E k \in 1 .. Len(cards') :
          cards'[k].by = r /\ cards'[k].dim = Dims[m]
    <3> SUFFICES ASSUME NEW m \in 1 .. n
                 PROVE  \E k \in 1 .. Len(cards') :
                          cards'[k].by = r /\ cards'[k].dim = Dims[m]
      OBVIOUS
    <3>1. CASE m = n
      <4>1. Len(cards) + 1 \in 1 .. Len(cards') BY <1>3
      <4> QED BY <1>3, <3>1, <4>1 DEF n
    <3>2. CASE m # n
      <4>1. m \in 1 .. loc[r].row BY <1>2, <3>2 DEF n
      <4> QED BY <1>1, <1>3, <4>1 DEF RowsOK
    <3> QED BY <3>1, <3>2
  <2>3. RowsOK(r)' BY <2>1, <2>2, <1>4 DEF RowsOK
  <2>4. CardOK(r)' BY <1>4, <1>5, <1>6 DEF CardOK, Finished
  <2> QED BY <2>3, <2>4
<1>11. ASSUME NEW s \in Requests, s # r
       PROVE  CardOK(s)' /\ (s \notin overlapped' => RowsOK(s)')
  <2>1. CardOK(s) BY DEF CardInv
  <2>2. pc'[s] = pc[s] /\ loc'[s] = loc[s] BY <1>4, <1>5, <1>11
  <2>3. CardOK(s)' BY <2>1, <2>2, <1>6 DEF CardOK
  <2>4. ASSUME s \notin overlapped' PROVE RowsOK(s)'
    <3>1. RowsOK(s) BY <2>4 DEF CardInv
    <3>2. \A k \in 1 .. Len(cards') :
            cards'[k].by = s => k \in 1 .. Len(cards) /\ cards'[k] = cards[k]
      BY <1>3, <1>11
    <3> QED BY <1>3, <2>2, <3>1, <3>2, RowsKept
  <2> QED BY <2>3, <2>4
<1> QED BY <1>8, <1>9, <1>10, <1>11 DEF CardInv

(* A row is written.                                                        *)
LEMMA PersistCards ==
  ASSUME TypeInv, CallInv, CardInv, NEW r \in Requests, PersistRow(r)
  PROVE  CardInv'
<1>1. Moves(r) BY DEF Moves, ServerStep, EndStep
<1>2. CASE r \notin overlapped BY <1>2, CardStored, AloneCards
<1>3. CASE r \in overlapped
  <2>1. /\ pc[r] = "persisting" /\ pc'[r] \in {"persisting", "revealing", "failed"}
        /\ pc'[r] = "revealing" => loc[r].row + 1 = Len(Dims)
        /\ r \in overlapped'
        /\ \/ cards' = cards
           \/ \E row \in CardRow : cards' = Append(cards, row) /\ row.by \in overlapped
    BY <1>3, CardStored
  <2>2. IsTerminal BY <2>1 DEF CardInv, CardOK, EndStates
  <2>3. /\ payload' = payload /\ phase' = phase
        /\ loc'[r].row = loc[r].row + 1 /\ loc'[r].scored = loc[r].scored
    BY DEF PersistRow, flowVars, TypeInv, TypeOK, Locals
  <2>4. pc'[r] = "revealing" => loc'[r].row = Len(Dims) BY <2>1, <2>3
  <2>5. pc'[r] \in {"persisting", "revealing"} \cup Finished BY <2>1 DEF Finished
  <2> QED BY <1>1, <2>1, <2>2, <2>3, <2>4, <2>5, CardFrame DEF EndStates
<1> QED BY <1>2, <1>3

(* The payload is set.                                                      *)
LEMMA RevealCards ==
  ASSUME TypeInv, CardInv, NEW r \in Requests, Reveal(r)
  PROVE  CardInv'
<1>1. pc \in [Requests -> Places] BY DEF TypeInv, TypeOK
<1>2. IsTerminal' /\ IsTerminal
  BY DEF Reveal, flowVars, IsTerminal, CardInv, CardOK, EndStates
<1>3. cards' = cards /\ overlapped' = overlapped /\ loc' = loc
  BY DEF Reveal, tableVars, callVars
<1>4. OnePenaltyPerRun' BY <1>3 DEF CardInv, OnePenaltyPerRun
<1>5. RevealComesLast'
  <2> DEFINE x == [overruns |-> loc[r].late, feedback |-> loc[r].scored /\ ShowScores,
                   by |-> r]
  <2>1. payload' = {x} BY DEF Reveal
  <2>2. x.by = r OBVIOUS
  <2>3. x.feedback = (loc[r].scored /\ ShowScores) OBVIOUS
  <2>4. payload' # {} \/ cards' # <<>> => IsTerminal' BY <1>2
  <2>5. ASSUME loc[r].scored, r \notin overlapped', NEW d \in 1 .. Len(Dims)
        PROVE  \E k \in 1 .. Len(cards') : cards'[k].by = r /\ cards'[k].dim = Dims[d]
    <3>1. RowsOK(r) /\ loc[r].row = Len(Dims)
      BY <1>3, <2>5 DEF Reveal, CardInv, CardOK
    <3> QED BY <1>3, <2>5, <3>1 DEF RowsOK
  <2> HIDE DEF x
  <2>6. x.feedback => loc[r].scored BY <2>3, Zenon
  <2>7. \A p \in payload' : p = x BY <2>1
  <2>8. \A p \in payload' : p.feedback /\ p.by \notin overlapped' =>
          \A d \in 1 .. Len(Dims) :
            \E k \in 1 .. Len(cards') : cards'[k].by = p.by /\ cards'[k].dim = Dims[d]
    BY <2>2, <2>5, <2>6, <2>7
  <2> QED BY <2>4, <2>8 DEF RevealComesLast
<1>6. ASSUME NEW s \in Requests PROVE CardOK(s)'
  BY <1>1, <1>2 DEF Reveal, Goto, CardInv, CardOK, Finished
<1>7. ASSUME NEW s \in Requests, s \notin overlapped' PROVE RowsOK(s)'
  BY <1>3, <1>7 DEF CardInv, RowsOK
<1> QED BY <1>4, <1>5, <1>6, <1>7 DEF CardInv

(* Every step.                                                              *)
LEMMA CardStep ==
  ASSUME TypeInv, CallInv, CardInv, NEW r \in Requests, Moves(r)
  PROVE  CardInv'
<1>1. CASE PersistRow(r) BY <1>1, PersistCards
<1>2. CASE Reveal(r) BY <1>2, RevealCards
<1>3. CASE ~PersistRow(r) /\ ~Reveal(r) BY <1>3, SilentRun, CardFrame
<1> QED BY <1>1, <1>2, <1>3

(* A step that changes nothing.                                             *)
LEMMA StutterCards == ASSUME CardInv, UNCHANGED vars PROVE CardInv'
<1>1. /\ pc' = pc /\ loc' = loc /\ cards' = cards /\ payload' = payload
      /\ phase' = phase /\ overlapped' = overlapped
  BY DEF vars, flowVars, tableVars, callVars
<1>2. OnePenaltyPerRun' BY <1>1 DEF CardInv, OnePenaltyPerRun
<1>3. RevealComesLast' BY <1>1 DEF CardInv, RevealComesLast, IsTerminal
<1>4. ASSUME NEW r \in Requests PROVE CardOK(r)' /\ (r \notin overlapped' => RowsOK(r)')
  <2>1. CardOK(r) /\ (r \notin overlapped => RowsOK(r)) BY DEF CardInv
  <2> QED BY <1>1, <2>1 DEF CardOK, RowsOK, IsTerminal
<1> QED BY <1>2, <1>3, <1>4 DEF CardInv

(* Under any interleaving, also of two requests that both end the case, a   *)
(* scoring run is docked once and stores no dimension twice, as long as its *)
(* calls of the store meet no other; the reveal comes last, and feedback    *)
(* only from such a run that has stored every row.                          *)
THEOREM ScoringIsConsistent == Spec => []ScoringSound
<1>1. TypeInv /\ CallInv /\ CardInv /\ [Next]_vars => CardInv'
  BY CardStep, StutterCards DEF Next, AllAnswered, Moves
<1>2. CardInv => ScoringSound BY DEF CardInv, ScoringSound
<1> QED BY CardInit, TypeInvariant, CallInvariant, <1>1, <1>2, PTL DEF Spec

-----------------------------------------------------------------------------
(* From here on: a user who waits for each answer.                          *)

OneInv ==
  /\ \A r, s \in Requests : Busy(r) /\ Busy(s) => r = s
  /\ overlapped = {}

(* When requests wait for each other, all threads but the one that moves    *)
(* are idle or finished, and no two calls of the store meet.                *)
LEMMA Alone ==
  ASSUME Sequential, TypeInv, CallInv, OneInv, NEW r \in Requests, Moves(r)
  PROVE  /\ \A s \in Requests \ {r} : ~Busy(s) /\ pc'[s] = pc[s]
         /\ OneInv' /\ Others(r) = {}
<1>1. \A s \in Requests \ {r} : pc'[s] = pc[s]
  BY StepMoves
<1>2. \A s \in Requests \ {r} : ~Busy(s)
  BY StepMoves DEF Arrives, InFlight, Busy, OneInv
<1>3. Others(r) = {}
  <2>1. \A s \in Requests \ {r} : call[s] = "none"
    BY <1>2 DEF CallInv, CallOK, StoresTurn, Busy, Finished
  <2>2. DOMAIN call = Requests BY DEF TypeInv, TypeOK, CallsTypeOK
  <2> QED BY <2>1, <2>2 DEF Others
<1>4. overlapped' = overlapped
  <2>1. CASE ~Stores(r) BY <2>1, StepMoves DEF tableVars, callVars
  <2>2. CASE BindStored(r) BY <1>3, <2>2 DEF BindStored, BindRow, Meets
  <2>3. CASE StoreRefuses(r) BY <1>3, <2>3 DEF StoreRefuses, Refused
  <2>4. CASE StoreUser(r) \/ StoreReply(r) \/ PersistRow(r)
             \/ (NoteOverruns(r) /\ loc[r].late # {})
    BY <2>4
       DEF StoreUser, StoreReply, PersistRow, NoteOverruns, StoreTurn, StoreReturns, Returns
  <2> QED BY <2>1, <2>2, <2>3, <2>4 DEF Stores, StoreStep
<1> QED
  BY <1>1, <1>2, <1>3, <1>4 DEF OneInv, Busy

(* So every call of the store inserts its own row and returns.              *)
LEMMA StoresAlone ==
  ASSUME Sequential, TypeInv, CallInv, OneInv, NEW r \in Requests, Moves(r)
  PROVE  /\ ~StoreRefuses(r)
         /\ StoreUser(r) => /\ turns' = Append(turns, Turns(r, "user", loc[r].label))
                            /\ Goto(r, "stored")
         /\ StoreReply(r) =>
              /\ turns' = Append(turns, Turns(r, "assistant", loc[r].label))
              /\ Goto(r, "done")
         /\ NoteOverruns(r) =>
              /\ turns' = turns \/ turns' = Append(turns, Turns(r, "system", NPhases))
              /\ Goto(r, "scoring")
         /\ PersistRow(r) =>
              /\ cards' = Append(cards, CardOf(r))
              /\ Goto(r, IF loc[r].row + 1 = Len(Dims) THEN "revealing" ELSE "persisting")
<1>1. r \notin overlapped /\ Others(r) = {} BY Alone DEF OneInv
<1>2. ~StoreRefuses(r) BY <1>1 DEF StoreRefuses, Refused
<1>3. StoreUser(r) \/ StoreReply(r) \/ (NoteOverruns(r) /\ loc[r].late # {}) =>
        turns' = Append(turns, TurnOf(r)) /\ Goto(r, StoredTo(r))
  BY <1>1, TurnStored
<1>4. CASE StoreUser(r)
  BY <1>2, <1>3, <1>4
     DEF StoreUser, StoreReply, NoteOverruns, PersistRow, TurnOf, StoredTo
<1>5. CASE StoreReply(r)
  BY <1>2, <1>3, <1>5
     DEF StoreUser, StoreReply, NoteOverruns, PersistRow, TurnOf, StoredTo
<1>6. CASE NoteOverruns(r)
  <2>1. CASE loc[r].late = {}
    BY <1>2, <1>6, <2>1 DEF StoreUser, StoreReply, NoteOverruns, PersistRow
  <2>2. CASE loc[r].late # {}
    BY <1>2, <1>3, <1>6, <2>2
       DEF StoreUser, StoreReply, NoteOverruns, PersistRow, TurnOf, StoredTo
  <2> QED BY <2>1, <2>2
<1>7. CASE PersistRow(r)
  BY <1>1, <1>2, <1>7, CardStored DEF StoreUser, StoreReply, NoteOverruns, PersistRow
<1> QED BY <1>2, <1>4, <1>5, <1>6, <1>7

-----------------------------------------------------------------------------
(* Reveals.                                                                 *)

Earned(p) ==
  \E k \in 1 .. Len(turns) :
    /\ turns[k].role = "user"
    /\ turns[k].phase = p
    /\ loc[turns[k].by].sentIn = p

(* A message on its way was sent in the phase that is current, and is what  *)
(* an attempt rests on until it is stored.                                  *)
EarnedInv ==
  /\ RevealIsEarned
  /\ attempted =>
       Earned(phase) \/ \E r \in Requests : pc[r] = "heard" /\ loc[r].sentIn = phase
  /\ \A r \in Requests :
       /\ pc[r] \in {"sent", "labelled", "heard"} => loc[r].sentIn = phase
       /\ pc[r] \in {"labelled", "heard"} => loc[r].label = phase

(* Nobody has spoken at the start.                                          *)
LEMMA EarnedInit == Init => EarnedInv
BY DEF Init, FlowInit, EarnedInv, RevealIsEarned

(* A stored message keeps its phases.                                       *)
LEMMA EarnedKept ==
  ASSUME NEW p, Earned(p),
         \A k \in 1 .. Len(turns) :
           /\ k \in 1 .. Len(turns') /\ turns'[k] = turns[k]
           /\ turns[k].role = "user" =>
                loc'[turns[k].by].sentIn = loc[turns[k].by].sentIn
  PROVE  Earned(p)'
<1>1. PICK k \in 1 .. Len(turns) :
        turns[k].role = "user" /\ turns[k].phase = p /\ loc[turns[k].by].sentIn = p
  BY DEF Earned
<1>2. /\ k \in 1 .. Len(turns') /\ turns'[k] = turns[k]
      /\ loc'[turns'[k].by].sentIn = p
  BY <1>1
<1> QED
  BY <1>1, <1>2 DEF Earned

(* No row is taken back, and when a message was sent is not forgotten.      *)
LEMMA RowsStay ==
  ASSUME TypeInv, CallInv, OneInv, TurnInv, NEW r \in Requests, Moves(r)
  PROVE  \A k \in 1 .. Len(turns) :
           /\ k \in 1 .. Len(turns') /\ turns'[k] = turns[k]
           /\ turns[k].role = "user" =>
                loc'[turns[k].by].sentIn = loc[turns[k].by].sentIn
<1>1. /\ turns \in Seq(TurnRow) /\ loc \in [Requests -> Locals]
  BY DEF TypeInv, TypeOK
<1>2. \A k \in 1 .. Len(turns) : turns[k].by \in Requests
  <2>1. \A k \in 1 .. Len(turns) : turns[k] \in TurnRow
    BY <1>1
  <2> QED
    BY <2>1 DEF TurnRow
<1>3. (\A k \in 1 .. Len(turns) : k \in 1 .. Len(turns') /\ turns'[k] = turns[k])
  <2>1. turns' = turns \/ \E x \in TurnRow : turns' = Append(turns, x)
    <3>1. CASE StoreUser(r) \/ StoreReply(r) \/ (NoteOverruns(r) /\ loc[r].late # {})
      BY <3>1, TurnStored, OwnRows
    <3>2. CASE NoteOverruns(r) /\ loc[r].late = {} BY <3>2 DEF NoteOverruns
    <3>3. CASE ~StoreUser(r) /\ ~StoreReply(r) /\ ~NoteOverruns(r)
      BY <3>3, SilentMoves
         DEF HearUser, HearReply, BindStored, StoreRefuses, tableVars
    <3> QED BY <3>1, <3>2, <3>3
  <2>2. \A x : turns' = Append(turns, x) =>
          \A k \in 1 .. Len(turns) : k \in 1 .. Len(turns') /\ turns'[k] = turns[k]
    BY <1>1
  <2> QED
    BY <2>1, <2>2
<1>4. CASE SendMessage(r)
  <2>1. \A s \in Requests \ {r} : loc'[s] = loc[s]
    BY <1>1, <1>4 DEF SendMessage
  <2>2. ~Says(turns, "user", r)
    BY <1>4 DEF SendMessage, Arrives, OneInv, TurnInv, TurnOK, Labelled, Finished
  <2> QED
    BY <1>2, <1>3, <2>1, <2>2 DEF Says
<1>5. CASE ~SendMessage(r)
  <2>1. \/ loc' = loc
        \/ ReadPhase(r) \/ CloseCase(r) \/ ScoreGroup(r) \/ Unparsable(r) \/ PersistRow(r)
    BY <1>5 DEF Moves, UserStep, ServerStep, MessageStep, AdvanceStep, EndStep,
           Disconnect, Advance, Hint, CoachReveal, ShowExhibit,
           HearUser, StoreUser, BuildContext, HearReply, StreamFails,
           StoreReply, LeavePhase, AdvanceRefused, EnterPhase, OpenExhibits,
           EndAgain, EndFails, NoteOverruns, ScoringUnserved, PersistRaises, Reveal,
           RevealFails, StoreStep, BindStored, StoreRefuses
  <2>2. \A q \in Requests : loc'[q].sentIn = loc[q].sentIn
    <3>1. CASE ReadPhase(r) BY <1>1, <3>1 DEF ReadPhase
    <3>2. CASE CloseCase(r) BY <1>1, <3>2 DEF CloseCase
    <3>3. CASE ScoreGroup(r) BY <1>1, <3>3 DEF ScoreGroup
    <3>4. CASE Unparsable(r) BY <1>1, <3>4 DEF Unparsable
    <3>5. CASE PersistRow(r) BY <1>1, <3>5 DEF PersistRow
    <3> QED
      BY <2>1, <3>1, <3>2, <3>3, <3>4, <3>5
  <2> QED
    BY <1>2, <1>3, <2>2
<1> QED
  BY <1>4, <1>5

(* The steps that leave the phase, the attempt and the reveals alone, and   *)
(* are not those of a message that is yet to be stored.                     *)
LEMMA EarnedFrame ==
  ASSUME TypeInv, CallInv, OneInv, TurnInv, EarnedInv, NEW r \in Requests, Moves(r),
         UNCHANGED <<phase, attempted, revealed>>,
         pc[r] # "heard", pc'[r] \notin {"sent", "labelled", "heard"},
         \A s \in Requests \ {r} : loc'[s] = loc[s]
  PROVE  EarnedInv'
<1>1. \A p : Earned(p) => Earned(p)'
  BY EarnedKept, RowsStay
<1>2. \A s \in Requests \ {r} : pc'[s] = pc[s]
  BY StepMoves
<1>3. RevealIsEarned'
  BY <1>1 DEF EarnedInv, RevealIsEarned, Earned
<1> QED
  BY <1>1, <1>2, <1>3 DEF EarnedInv

(* A message moves on.                                                      *)
LEMMA EarnedMessage ==
  ASSUME Sequential, TypeInv, CallInv, TurnInv, OneInv, EarnedInv, NEW r \in Requests,
         Moves(r),
         SendMessage(r) \/ ReadPhase(r) \/ HearUser(r) \/ StoreUser(r) \/ BuildContext(r)
  PROVE  EarnedInv'
<1>1. \A p : Earned(p) => Earned(p)'
  BY EarnedKept, RowsStay
<1>2. \A s \in Requests \ {r} : ~Busy(s) /\ pc'[s] = pc[s]
  BY Alone
<1>3. /\ pc \in [Requests -> Places] /\ loc \in [Requests -> Locals]
      /\ phase \in Nat /\ turns \in Seq(TurnRow)
  BY DEF TypeInv, TypeOK, FlowTypeOK
<1>4. \A s \in Requests \ {r} : pc'[s] \notin {"sent", "labelled", "heard"}
                                /\ pc[s] # "heard"
  BY <1>2 DEF Busy, Finished
<1>5. revealed' = revealed => RevealIsEarned'
  BY <1>1 DEF EarnedInv, RevealIsEarned, Earned
<1>6. CASE SendMessage(r)
  <2>1. /\ UNCHANGED <<phase, attempted, revealed>>
        /\ pc[r] # "heard" /\ pc'[r] = "sent" /\ loc'[r].sentIn = phase
    BY <1>3, <1>6 DEF SendMessage, Arrives, Goto, flowVars, Locals
  <2> QED
    BY <1>1, <1>4, <1>5, <2>1 DEF EarnedInv
<1>7. CASE ReadPhase(r)
  <2>1. /\ UNCHANGED <<phase, attempted, revealed>>
        /\ pc[r] = "sent" /\ pc'[r] \in {"labelled", "failed"}
        /\ loc'[r].label = phase /\ loc'[r].sentIn = loc[r].sentIn
    BY <1>3, <1>7 DEF ReadPhase, Goto, flowVars, Locals
  <2> QED
    BY <1>1, <1>4, <1>5, <2>1 DEF EarnedInv
<1>8. CASE HearUser(r)
  <2>1. /\ UNCHANGED <<phase, revealed, loc>>
        /\ pc[r] = "labelled" /\ pc'[r] = "heard"
    BY <1>3, <1>8 DEF HearUser, Goto
  <2> QED
    BY <1>1, <1>4, <1>5, <2>1 DEF EarnedInv
<1>9. CASE StoreUser(r)
  <2>1. /\ UNCHANGED <<phase, attempted, revealed, loc>>
        /\ pc[r] = "heard" /\ pc'[r] = "stored"
        /\ turns' = Append(turns, [role |-> "user", phase |-> loc[r].label, by |-> r])
    BY <1>3, <1>9, StoresAlone DEF StoreUser, Turns, Goto, flowVars
  <2>2. loc[r].label = phase /\ loc[r].sentIn = phase
    BY <2>1 DEF EarnedInv
  <2>3. [role |-> "user", phase |-> phase, by |-> r] \in TurnRow
    BY <1>3 DEF TurnRow
  <2>4. /\ Len(turns) + 1 \in 1 .. Len(turns')
        /\ turns'[Len(turns) + 1] = [role |-> "user", phase |-> phase, by |-> r]
    BY <1>3, <2>1, <2>2, <2>3
  <2>5. Earned(phase)'
    BY <2>1, <2>2, <2>4 DEF Earned
  <2> QED
    BY <1>4, <1>5, <2>1, <2>5 DEF EarnedInv
<1>10. CASE BuildContext(r)
  <2>1. /\ UNCHANGED <<phase, attempted, loc>> /\ pc[r] = "stored"
        /\ pc'[r] \in {"streaming", "failed"}
        /\ revealed' = IF MayReveal THEN revealed \cup {phase} ELSE revealed
    BY <1>3, <1>10 DEF BuildContext, Goto, flowVars
  <2>2. MayReveal => Earned(phase)
    BY <1>4, <2>1 DEF MayReveal, EarnedInv
  <2>3. \A p \in revealed' : Earned(p)
    BY <2>1, <2>2 DEF EarnedInv, RevealIsEarned, Earned
  <2>4. RevealIsEarned'
    BY <1>1, <2>3 DEF RevealIsEarned, Earned
  <2> QED
    BY <1>1, <1>4, <2>1, <2>4 DEF EarnedInv
<1> QED
  BY <1>6, <1>7, <1>8, <1>9, <1>10

(* Every step.                                                              *)
LEMMA EarnedStep ==
  ASSUME Sequential, TypeInv, CallInv, TurnInv, OneInv, EarnedInv, NEW r \in Requests,
         Moves(r)
  PROVE  EarnedInv'
<1>1. \A p : Earned(p) => Earned(p)'
  BY EarnedKept, RowsStay
<1>2. \A s \in Requests \ {r} : ~Busy(s) /\ pc'[s] = pc[s]
  BY Alone
<1>3. pc \in [Requests -> Places] /\ loc \in [Requests -> Locals]
  BY DEF TypeInv, TypeOK
<1>4. \A s \in Requests \ {r} : pc'[s] \notin {"sent", "labelled", "heard"}
                                /\ pc[s] # "heard"
  BY <1>2 DEF Busy, Finished
<1>5. CASE SendMessage(r) \/ ReadPhase(r) \/ HearUser(r) \/ StoreUser(r) \/ BuildContext(r)
  BY <1>5, EarnedMessage
<1>6. CASE CoachReveal(r)
  <2>1. /\ UNCHANGED <<phase, attempted, loc>> /\ pc[r] = "idle"
        /\ pc'[r] \in {"done", "failed"}
        /\ revealed' = IF MayReveal THEN revealed \cup {phase} ELSE revealed
    BY <1>3, <1>6 DEF CoachReveal, Arrives, Goto, flowVars
  <2>2. MayReveal => Earned(phase)
    BY <1>4, <2>1 DEF MayReveal, EarnedInv
  <2>3. \A p \in revealed' : Earned(p)
    BY <2>1, <2>2 DEF EarnedInv, RevealIsEarned, Earned
  <2>4. RevealIsEarned'
    BY <1>1, <2>3 DEF RevealIsEarned, Earned
  <2> QED
    BY <1>1, <1>4, <2>1, <2>4 DEF EarnedInv
<1>7. CASE EnterPhase(r)
  <2>1. ~attempted' /\ revealed' = revealed /\ pc'[r] = "entering"
    BY <1>3, <1>7 DEF EnterPhase, EnterNextPhase, Goto
  <2>2. RevealIsEarned'
    BY <1>1, <2>1 DEF EarnedInv, RevealIsEarned, Earned
  <2> QED
    BY <1>4, <2>1, <2>2 DEF EarnedInv
<1>8. CASE HearReply(r)
  <2>1. /\ UNCHANGED <<phase, revealed, loc>> /\ attempted' = (attempted \/ FALSE)
        /\ pc[r] = "streaming" /\ pc'[r] = "replied"
    BY <1>3, <1>8 DEF HearReply, RecordTurn, Goto
  <2>2. attempted' <=> attempted
    BY <2>1
  <2>3. RevealIsEarned'
    BY <1>1, <2>1 DEF EarnedInv, RevealIsEarned, Earned
  <2> QED
    BY <1>1, <1>4, <2>1, <2>2, <2>3 DEF EarnedInv
<1>9. CASE \/ Disconnect(r) \/ Advance(r) \/ Hint(r) \/ ShowExhibit(r)
           \/ StreamFails(r) \/ StoreReply(r)
           \/ LeavePhase(r) \/ AdvanceRefused(r) \/ OpenExhibits(r) \/ EndStep(r)
  <2>1. /\ UNCHANGED <<phase, attempted, revealed>>
        /\ pc[r] # "heard" /\ pc'[r] \notin {"sent", "labelled", "heard"}
    BY <1>3, <1>9
       DEF Disconnect, Advance, Hint, ShowExhibit, StreamFails, StoreReply, LeavePhase,
           AdvanceRefused, OpenExhibits, EndStep, EndAgain, CloseCase, EndFails,
           NoteOverruns, ScoreGroup, Unparsable, ScoringUnserved, PersistRow,
           PersistRaises, Reveal, RevealFails, StoreTurn, StoreReturns,
           Arrives, Goto, flowVars
  <2>2. \A s \in Requests \ {r} : loc'[s] = loc[s]
    BY <1>3, <1>9
       DEF Disconnect, Advance, Hint, ShowExhibit, StreamFails, StoreReply, LeavePhase,
           AdvanceRefused, OpenExhibits, EndStep, EndAgain, CloseCase, EndFails,
           NoteOverruns, ScoreGroup, Unparsable, ScoringUnserved, PersistRow,
           PersistRaises, Reveal, RevealFails
  <2> QED
    BY <2>1, <2>2, EarnedFrame
<1>10. CASE BindStored(r)
  <2>1. UNCHANGED <<phase, attempted, revealed, pc, loc, turns>>
    BY <1>10 DEF BindStored, flowVars
  <2>2. RevealIsEarned' BY <2>1 DEF EarnedInv, RevealIsEarned
  <2> QED BY <1>1, <2>1, <2>2 DEF EarnedInv
<1> QED
  BY <1>5, <1>6, <1>7, <1>8, <1>9, <1>10, StoresAlone
     DEF StoreStep, Moves, UserStep, ServerStep, MessageStep, AdvanceStep

-----------------------------------------------------------------------------
(* The result.                                                              *)

(* What a thread that ends the case knows of the rows and the payload.      *)
WritesOK(r) ==
  /\ pc[r] \in {"closed", "scoring", "persisting", "revealing"} => payload = {}
  /\ pc[r] = "persisting" => loc[r].scored
  /\ pc[r] = "revealing" => loc[r].row = IF loc[r].scored THEN Len(Dims) ELSE 0
  /\ pc[r] \in {"persisting", "revealing"} /\ loc[r].row > 0 =>
       cards # <<>> /\ cards[Len(cards)].by = r

(* The last n rows of the table are those of request q, in order.           *)
LastRun(q, n) ==
  /\ n \in 1 .. Len(Dims) /\ n <= Len(cards)
  /\ \A d \in 1 .. n : LET row == cards[Len(cards) - n + d]
                       IN  row.by = q /\ row.dim = Dims[d]

PayloadOK ==
  \A p \in payload :
    WholeCardLast(p.by) \/ (~p.feedback /\ \A k \in 1 .. Len(cards) : cards[k].by # p.by)

ResultInv ==
  /\ CardsInOrder
  /\ cards # <<>> => LET q == cards[Len(cards)].by IN LastRun(q, loc[q].row)
  /\ PayloadOK
  /\ \A r \in Requests : WritesOK(r)

(* Nothing is written at the start.                                         *)
LEMMA ResultInit == Init => ResultInv
BY DEF Init, FlowInit, ResultInv, CardsInOrder, PayloadOK, WritesOK

(* A step that writes nothing.                                              *)
LEMMA ResultFrame ==
  ASSUME TypeInv, ResultInv, UNCHANGED <<cards, payload>>,
         \A s \in Requests : loc'[s].row = loc[s].row,
         \A s \in Requests : WritesOK(s)'
  PROVE  ResultInv'
<1>1. CardsInOrder' BY DEF ResultInv, CardsInOrder
<1>2. PayloadOK' BY DEF ResultInv, PayloadOK, WholeCardLast
<1>3. ASSUME cards # <<>>
      PROVE  LET q == cards[Len(cards)].by IN LastRun(q, loc'[q].row)
  <2> DEFINE q == cards[Len(cards)].by
  <2>1. cards \in Seq(CardRow) BY DEF TypeInv, TypeOK
  <2>2. Len(cards) \in 1 .. Len(cards) BY <1>3, <2>1
  <2>3. cards[Len(cards)] \in CardRow BY <2>1, <2>2
  <2>4. q \in Requests BY <2>3 DEF CardRow
  <2>5. LastRun(q, loc[q].row) BY <1>3 DEF ResultInv
  <2> HIDE DEF q
  <2>6. LastRun(q, loc'[q].row) BY <2>4, <2>5
  <2> QED BY <2>6 DEF q
<1> QED BY <1>1, <1>2, <1>3 DEF ResultInv, LastRun

(* A row is written: it begins the card of its request or goes on with it.  *)
LEMMA ResultPersists ==
  ASSUME Sequential, TypeInv, CallInv, CardInv, OneInv, ResultInv, NEW r \in Requests,
         PersistRow(r), \A s \in Requests \ {r} : WritesOK(s)'
  PROVE  ResultInv'
<1> DEFINE x == CardOf(r)
           n == loc[r].row
           N == Len(cards)
<1>0. Moves(r) BY DEF Moves, ServerStep, EndStep
<1>1. /\ pc[r] = "persisting" /\ payload' = payload /\ cards' = Append(cards, x)
      /\ Goto(r, IF n + 1 = Len(Dims) THEN "revealing" ELSE "persisting")
  BY <1>0, StoresAlone DEF PersistRow
<1>2. /\ pc \in [Requests -> Places] /\ loc \in [Requests -> Locals]
      /\ cards \in Seq(CardRow) /\ N \in Nat /\ x \in CardRow
      /\ n \in Nat /\ n < Len(Dims) /\ Len(Dims) \in Nat
  BY <1>1, OwnRows, SessionAssumption DEF TypeInv, TypeOK, RowOK, Locals
<1>3. x.by = r /\ x.dim = Dims[n + 1] BY DEF CardOf
<1>4. loc'[r].row = n + 1 /\ loc'[r].scored = loc[r].scored
  BY <1>2 DEF PersistRow, Locals
<1>5. /\ payload = {} /\ loc[r].scored /\ (n > 0 => cards # <<>> /\ cards[N].by = r)
  BY <1>1 DEF ResultInv, WritesOK
<1>6. n > 0 => LastRun(r, n) BY <1>5 DEF ResultInv
<1>7. n = 0 => \A k \in 1 .. N : cards[k].by # r
  BY DEF CardInv, OneInv, RowsOK
<1> HIDE DEF x, n
<1>8. /\ Len(cards') = N + 1 /\ cards'[N + 1] = x
      /\ \A k \in 1 .. N : k \in 1 .. N + 1 /\ cards'[k] = cards[k]
  BY <1>1, <1>2
<1> HIDE DEF N
<1>9. LastRun(r, loc[r].row)'
  <2>1. n + 1 \in 1 .. Len(Dims) /\ n + 1 <= N + 1
    <3>1. CASE n = 0 BY <1>2, <3>1
    <3>2. CASE n > 0 BY <1>2, <1>6, <3>2 DEF LastRun, N
    <3> QED BY <1>2, <3>1, <3>2
  <2>2. ASSUME NEW d \in 1 .. n + 1
        PROVE  cards'[(N + 1) - (n + 1) + d].by = r
               /\ cards'[(N + 1) - (n + 1) + d].dim = Dims[d]
    <3>1. CASE d = n + 1
      <4>1. (N + 1) - (n + 1) + d = N + 1 BY <1>2, <3>1
      <4> QED BY <1>3, <1>8, <3>1, <4>1
    <3>2. CASE d # n + 1
      <4>1. d \in 1 .. n /\ n > 0 BY <1>2, <3>2
      <4>2. n <= N /\ cards[N - n + d].by = r /\ cards[N - n + d].dim = Dims[d]
        BY <1>6, <4>1 DEF LastRun, N
      <4>3. (N + 1) - (n + 1) + d = N - n + d /\ N - n + d \in 1 .. N
        BY <1>2, <4>1, <4>2
      <4> QED BY <1>8, <4>2, <4>3
    <3> QED BY <3>1, <3>2
  <2> QED BY <1>4, <1>8, <2>1, <2>2 DEF LastRun
<1>10. CardsInOrder'
  <2> SUFFICES ASSUME NEW k \in 1 .. N + 1
               PROVE  \/ /\ cards'[k].dim = Dims[1]
                         /\ \A j \in 1 .. k - 1 : cards'[j].by # cards'[k].by
                      \/ \E d \in 1 .. Len(Dims) - 1 :
                           /\ k > 1 /\ cards'[k - 1].by = cards'[k].by
                           /\ cards'[k - 1].dim = Dims[d] /\ cards'[k].dim = Dims[d + 1]
    BY <1>8 DEF CardsInOrder
  <2>1. CASE k \in 1 .. N
    <3>1. \A j \in 1 .. k - 1 : j \in 1 .. N /\ cards'[j] = cards[j]
      BY <1>2, <1>8, <2>1
    <3>2. k > 1 => cards'[k - 1] = cards[k - 1] BY <1>2, <2>1, <3>1
    <3>3. cards'[k] = cards[k] BY <1>8, <2>1
    <3> QED BY <2>1, <3>1, <3>2, <3>3 DEF ResultInv, CardsInOrder, N
  <2>2. CASE k = N + 1 /\ n = 0
    <3>1. k - 1 = N BY <1>2, <2>2
    <3> QED BY <1>3, <1>7, <1>8, <2>2, <3>1 DEF N
  <2>3. CASE k = N + 1 /\ n > 0
    <3>1. n <= N /\ cards[N - n + n].by = r /\ cards[N - n + n].dim = Dims[n]
      <4>1. n \in 1 .. n BY <1>2, <2>3
      <4> QED BY <1>6, <2>3, <4>1 DEF LastRun, N
    <3>2. N - n + n = N /\ k - 1 = N /\ N \in 1 .. N /\ n \in 1 .. Len(Dims) - 1 /\ k > 1
      BY <1>2, <2>3, <3>1
    <3>3. cards'[k - 1] = cards[N] /\ cards'[k] = x BY <1>8, <2>3, <3>2
    <3> QED BY <1>3, <3>1, <3>2, <3>3
  <2> QED BY <1>2, <2>1, <2>2, <2>3
<1>11. cards' # <<>> /\ cards'[Len(cards')].by = r BY <1>2, <1>3, <1>8
<1>12. WritesOK(r)'
  <2>1. pc'[r] = IF n + 1 = Len(Dims) THEN "revealing" ELSE "persisting"
    BY <1>1, <1>2 DEF Goto
  <2> QED BY <1>1, <1>4, <1>5, <1>11, <2>1 DEF WritesOK
<1>13. PayloadOK' BY <1>1, <1>5 DEF PayloadOK
<1>14. (LET q == cards[Len(cards)].by IN LastRun(q, loc[q].row))'
  BY <1>9, <1>11
<1>15. \A s \in Requests : WritesOK(s)' BY <1>12
<1> QED BY <1>10, <1>13, <1>14, <1>15 DEF ResultInv

(* The payload is set, by a request that has written a whole card or none.  *)
LEMMA ResultReveals ==
  ASSUME TypeInv, CardInv, OneInv, ResultInv, NEW r \in Requests, Reveal(r),
         \A s \in Requests \ {r} : WritesOK(s)'
  PROVE  ResultInv'
<1> DEFINE x == [overruns |-> loc[r].late, feedback |-> loc[r].scored /\ ShowScores,
                 by |-> r]
<1>1. /\ pc[r] = "revealing" /\ cards' = cards /\ loc' = loc /\ payload' = {x}
      /\ pc'[r] = "done"
  BY DEF Reveal, Goto, TypeInv, TypeOK, tableVars
<1>2. x.by = r /\ x.feedback = (loc[r].scored /\ ShowScores) OBVIOUS
<1> HIDE DEF x
<1>3. CASE loc[r].scored
  <2>1. loc[r].row = Len(Dims) /\ cards # <<>> /\ cards[Len(cards)].by = r
    BY <1>1, <1>3, SessionAssumption DEF ResultInv, WritesOK
  <2>2. LastRun(r, Len(Dims)) BY <2>1 DEF ResultInv
  <2>3. WholeCardLast(r)' BY <1>1, <2>2, SessionAssumption DEF LastRun, WholeCardLast
  <2>4. PayloadOK' BY <1>1, <1>2, <2>3 DEF PayloadOK
  <2>5. CardsInOrder' BY <1>1 DEF ResultInv, CardsInOrder
  <2>6. WritesOK(r)' BY <1>1 DEF WritesOK
  <2> QED BY <1>1, <2>4, <2>5, <2>6 DEF ResultInv, LastRun
<1>4. CASE ~loc[r].scored
  <2>1. loc[r].row = 0 BY <1>1, <1>4 DEF ResultInv, WritesOK
  <2>2. \A k \in 1 .. Len(cards) : cards[k].by # r
    BY <2>1 DEF CardInv, OneInv, RowsOK
  <2>3. ~x.feedback BY <1>2, <1>4, Zenon
  <2>4. PayloadOK' BY <1>1, <1>2, <2>2, <2>3 DEF PayloadOK
  <2>5. CardsInOrder' BY <1>1 DEF ResultInv, CardsInOrder
  <2>6. WritesOK(r)' BY <1>1 DEF WritesOK
  <2> QED BY <1>1, <2>4, <2>5, <2>6 DEF ResultInv, LastRun
<1> QED BY <1>3, <1>4

(* Every step.                                                              *)
LEMMA ResultStep ==
  ASSUME Sequential, TypeInv, CallInv, CardInv, OneInv, ResultInv, NEW r \in Requests,
         Moves(r)
  PROVE  ResultInv'
<1>1. \A s \in Requests \ {r} : ~Busy(s) /\ pc'[s] = pc[s]
  BY Alone
<1>2. pc \in [Requests -> Places] /\ loc \in [Requests -> Locals]
  BY DEF TypeInv, TypeOK
<1>3. \A s \in Requests \ {r} : pc'[s] \notin {"closed", "scoring", "persisting", "revealing"}
  BY <1>1 DEF Busy, Finished
<1>4. \A s \in Requests \ {r} : WritesOK(s)'
  BY <1>3 DEF WritesOK
<1>5. CASE PersistRow(r) BY <1>4, <1>5, ResultPersists
<1>6. CASE Reveal(r) BY <1>4, <1>6, ResultReveals
<1>7. CASE ~PersistRow(r) /\ ~Reveal(r)
  <2>1. /\ payload' = payload /\ cards' = cards /\ loc'[r].row = loc[r].row
        /\ \A s \in Requests \ {r} : loc'[s] = loc[s]
    BY <1>7, SilentRun, StepMoves
  <2>2. /\ WritesOK(r) /\ CardOK(r)
        /\ pc[r] \notin {"persisting", "revealing"} \cup Finished => loc[r].row = 0
    BY DEF ResultInv, CardInv, TypeInv, RowOK
  <2>3. CASE pc'[r] \notin {"closed", "scoring", "persisting", "revealing"}
    BY <1>4, <2>1, <2>3, ResultFrame DEF WritesOK
  <2>4. CASE pc'[r] \in {"closed", "scoring", "persisting", "revealing"}
    <3>1. \/ CloseCase(r) \/ NoteOverruns(r) \/ ScoreGroup(r) \/ Unparsable(r)
          \/ BindStored(r)
      BY <1>2, <1>7, <2>4
         DEF Moves, UserStep, ServerStep, MessageStep, AdvanceStep, EndStep, StoreStep,
             SendMessage, Disconnect, Advance, Hint, CoachReveal, ShowExhibit,
             ReadPhase, HearUser, StoreUser, BuildContext, HearReply, StreamFails,
             StoreReply, LeavePhase, AdvanceRefused, EnterPhase, OpenExhibits,
             EndAgain, EndFails, ScoringUnserved, PersistRaises, RevealFails,
             StoreRefuses, StoreTurn, StoreReturns, Goto
    <3>2. WritesOK(r)'
      <4>1. CASE CloseCase(r)
        BY <1>2, <2>1, <4>1 DEF CloseCase, Goto, WritesOK
      <4>2. CASE NoteOverruns(r)
        BY <1>2, <2>1, <2>2, <2>4, <4>2
           DEF NoteOverruns, StoreTurn, StoreReturns, Goto, WritesOK
      <4>3. CASE ScoreGroup(r)
        <5>1. /\ pc[r] = "scoring" /\ pc'[r] \in {"scoring", "persisting"}
              /\ pc'[r] = "persisting" => loc[r].group + 1 = NGroups
          BY <1>2, <4>3 DEF ScoreGroup, Goto
        <5>2. loc'[r].scored = (loc[r].group + 1 = NGroups)
          BY <1>2, <4>3 DEF ScoreGroup
        <5>3. pc'[r] = "persisting" => loc'[r].scored BY <5>1, <5>2, Zenon
        <5>4. loc'[r].row = 0 /\ payload = {}
          BY <2>1, <2>2, <5>1 DEF WritesOK, Finished
        <5> QED BY <2>1, <5>1, <5>3, <5>4 DEF WritesOK
      <4>4. CASE Unparsable(r)
        <5>1. /\ pc[r] = "scoring" /\ pc'[r] \in {"scoring", "revealing"}
              /\ loc'[r].scored = loc[r].scored
          BY <1>2, <4>4 DEF Unparsable, Goto
        <5>2. loc'[r].row = 0 /\ payload = {} /\ ~loc[r].scored
          BY <2>1, <2>2, <5>1 DEF WritesOK, CardOK, Finished
        <5> QED BY <2>1, <5>1, <5>2 DEF WritesOK
      <4>5. CASE BindStored(r)
        BY <2>1, <2>2, <4>5 DEF BindStored, WritesOK
      <4> QED BY <3>1, <4>1, <4>2, <4>3, <4>4, <4>5
    <3> QED BY <1>4, <2>1, <3>2, ResultFrame
  <2> QED BY <2>3, <2>4
<1> QED BY <1>5, <1>6, <1>7

-----------------------------------------------------------------------------
(* The phases.                                                              *)

(* The phases that have been closed by an advance.                          *)
Left == IF \E r \in Requests : pc[r] = "leaving" THEN phase + 1 ELSE phase

PhaseInv ==
  /\ PhaseExists
  /\ \A r \in Requests : pc[r] \in {"moving", "leaving"} => ~IsTerminal
  /\ \A e \in Exhibits : OpensAt[e] <= phase =>
       \/ e \in unlocked
       \/ OpensAt[e] = phase /\ \E r \in Requests : pc[r] = "entering"
  /\ Len(timings) >= Left
  /\ Len(timings) > Left => IsTerminal
  /\ \A k \in 1 .. Len(timings) :
       timings[k].phase = IF k <= Left THEN k - 1 ELSE LastPhase

(* The first phase, with its exhibits.                                      *)
LEMMA PhaseInit == Init => PhaseInv
BY CaseAssumption DEF Init, FlowInit, PhaseInv, PhaseExists, Left

(* Every step.                                                              *)
LEMMA PhaseStep ==
  ASSUME Sequential, TypeInv, CallInv, CardInv, OneInv, PhaseInv, NEW r \in Requests,
         Moves(r)
  PROVE  PhaseInv'
<1>1. \A s \in Requests \ {r} : ~Busy(s) /\ pc'[s] = pc[s]
  BY Alone
<1>2. /\ pc \in [Requests -> Places] /\ phase \in Nat /\ NPhases \in Nat \ {0}
      /\ timings \in Seq([phase : Nat, over : BOOLEAN]) /\ Len(timings) \in Nat
      /\ OpensAt \in [Exhibits -> 0 .. NPhases]
  BY CaseAssumption DEF TypeInv, TypeOK, FlowTypeOK
<1>3. \A s \in Requests \ {r} : /\ pc[s] \notin {"moving", "leaving", "entering"}
                                /\ pc'[s] \notin {"moving", "leaving", "entering"}
  BY <1>1 DEF Busy, Finished
<1>4. /\ Left = IF pc[r] = "leaving" THEN phase + 1 ELSE phase
      /\ Left' = IF pc'[r] = "leaving" THEN phase' + 1 ELSE phase'
  BY <1>3 DEF Left
<1>5. ASSUME NEW k \in Nat,
             \E over \in BOOLEAN : timings' = Append(timings, [phase |-> k, over |-> over])
      PROVE  /\ Len(timings') = Len(timings) + 1
             /\ timings'[Len(timings) + 1].phase = k
             /\ \A j \in 1 .. Len(timings) : timings'[j] = timings[j]
  BY <1>2, <1>5
<1>6. CASE /\ UNCHANGED <<phase, timings>> /\ unlocked \subseteq unlocked'
           /\ pc[r] \notin {"leaving", "entering"} /\ pc'[r] \notin {"leaving", "entering"}
           /\ pc'[r] = "moving" => ~IsTerminal
  <2>1. Left' = Left
    BY <1>4, <1>6
  <2>2. PhaseExists' /\ (IsTerminal' <=> IsTerminal)
    BY <1>6 DEF PhaseInv, PhaseExists, IsTerminal
  <2>3. \A s \in Requests : pc'[s] \in {"moving", "leaving"} => ~IsTerminal'
    BY <1>3, <1>6, <2>2
  <2>4. \A e \in Exhibits : OpensAt[e] <= phase => e \in unlocked'
    BY <1>3, <1>6 DEF PhaseInv
  <2> QED
    BY <1>6, <2>1, <2>2, <2>3, <2>4 DEF PhaseInv
<1>7. CASE LeavePhase(r)
  <2>1. /\ pc[r] = "moving" /\ pc'[r] = "leaving" /\ ~IsTerminal
        /\ UNCHANGED <<phase, unlocked>>
        /\ \E over \in BOOLEAN :
             timings' = Append(timings, [phase |-> phase, over |-> over])
    BY <1>2, <1>7 DEF LeavePhase, ClosePhase, Goto
  <2>2. Left = phase /\ Left' = phase + 1 /\ Len(timings) = phase
    BY <1>2, <1>4, <2>1 DEF PhaseInv
  <2>3. /\ Len(timings') = phase + 1 /\ timings'[phase + 1].phase = phase
        /\ \A j \in 1 .. phase : timings'[j] = timings[j]
    BY <1>2, <1>5, <2>1, <2>2
  <2>4. PhaseExists' /\ ~IsTerminal'
    BY <2>1 DEF PhaseInv, PhaseExists, IsTerminal
  <2>5. \A k \in 1 .. Len(timings') : timings'[k].phase = k - 1 /\ k <= Left'
    BY <1>2, <2>2, <2>3 DEF PhaseInv
  <2>6. \A e \in Exhibits : OpensAt[e] <= phase => e \in unlocked'
    BY <1>3, <2>1 DEF PhaseInv
  <2> QED
    BY <1>2, <2>1, <2>2, <2>3, <2>4, <2>5, <2>6 DEF PhaseInv
<1>8. CASE EnterPhase(r)
  <2>1. /\ pc[r] = "leaving" /\ pc'[r] = "entering" /\ phase' = phase + 1
        /\ UNCHANGED <<timings, unlocked>>
    BY <1>2, <1>8 DEF EnterPhase, EnterNextPhase, Goto
  <2>2. Left = phase + 1 /\ Left' = phase + 1 /\ ~IsTerminal
    BY <1>4, <2>1 DEF PhaseInv
  <2>3. PhaseExists'
    BY <1>2, <2>1, <2>2 DEF PhaseExists, IsTerminal, LastPhase
  <2>4. \A e \in Exhibits : OpensAt[e] <= phase' => OpensAt[e] = phase' \/ e \in unlocked'
    BY <1>2, <1>3, <2>1 DEF PhaseInv
  <2>5. \A s \in Requests : pc'[s] \notin {"moving", "leaving"}
    BY <1>3, <2>1
  <2> QED
    BY <2>1, <2>2, <2>3, <2>4, <2>5 DEF PhaseInv
<1>9. CASE OpenExhibits(r)
  <2>1. /\ pc[r] = "entering" /\ pc'[r] = "done" /\ UNCHANGED <<phase, timings>>
        /\ unlocked' = unlocked \cup {e \in Exhibits : OpensAt[e] = phase}
    BY <1>2, <1>9 DEF OpenExhibits, AutoUnlock, Goto, PhaseInv
  <2>2. Left = phase /\ Left' = phase
    BY <1>4, <2>1
  <2>3. PhaseExists' /\ (IsTerminal' <=> IsTerminal)
    BY <2>1 DEF PhaseInv, PhaseExists, IsTerminal
  <2>4. \A e \in Exhibits : OpensAt[e] <= phase => e \in unlocked'
    BY <2>1 DEF PhaseInv
  <2>5. \A s \in Requests : pc'[s] \notin {"moving", "leaving"}
    BY <1>3, <2>1
  <2> QED
    BY <2>1, <2>2, <2>3, <2>4, <2>5 DEF PhaseInv
<1>10. CASE CloseCase(r)
  <2>1. /\ pc[r] = "ending" /\ pc'[r] = "closed" /\ UNCHANGED <<phase, unlocked>>
        /\ \E over \in BOOLEAN :
             timings' = Append(timings, [phase |-> phase, over |-> over])
    BY <1>2, <1>10 DEF CloseCase, ClosePhase, Goto
  <2>2. IsTerminal /\ phase = LastPhase
    BY <1>2, <2>1 DEF CardInv, CardOK, EndStates, PhaseInv, PhaseExists, IsTerminal,
                      LastPhase
  <2>3. Left = phase /\ Left' = phase
    BY <1>4, <2>1
  <2>4. /\ Len(timings') = Len(timings) + 1
        /\ timings'[Len(timings) + 1].phase = LastPhase
        /\ \A j \in 1 .. Len(timings) : timings'[j] = timings[j]
    BY <1>2, <1>5, <2>1, <2>2
  <2>5. \A k \in 1 .. Len(timings') :
          timings'[k].phase = IF k <= Left' THEN k - 1 ELSE LastPhase
    <3>1. /\ Len(timings) \in Nat /\ Len(timings) >= Left /\ Left' = Left
          /\ \A k \in 1 .. Len(timings) :
               timings[k].phase = IF k <= Left THEN k - 1 ELSE LastPhase
      BY <1>2, <2>3 DEF PhaseInv
    <3>2. phase \in Nat /\ Left = phase BY <1>2, <2>3
    <3> QED BY <2>4, <3>1, <3>2
  <2>6. PhaseExists' /\ IsTerminal'
    BY <2>1, <2>2 DEF PhaseInv, PhaseExists, IsTerminal
  <2>7. \A e \in Exhibits : OpensAt[e] <= phase => e \in unlocked'
    BY <1>3, <2>1 DEF PhaseInv
  <2>8. \A s \in Requests : pc'[s] \notin {"moving", "leaving"}
    BY <1>3, <2>1
  <2> QED
    BY <1>2, <2>1, <2>3, <2>4, <2>5, <2>6, <2>7, <2>8 DEF PhaseInv
<1>11. CASE UserStep(r) \/ AdvanceRefused(r)
  BY <1>2, <1>6, <1>11
     DEF UserStep, SendMessage, Disconnect, Advance, Hint, CoachReveal, ShowExhibit,
         UnlockExhibit, AdvanceRefused, Arrives, Goto, flowVars
<1>12. CASE MessageStep(r)
  <2>1. CASE StoreUser(r) \/ StoreReply(r)
    BY <1>2, <1>6, <2>1
       DEF StoreUser, StoreReply, StoreTurn, StoreReturns, Goto, flowVars
  <2>2. CASE ~StoreUser(r) /\ ~StoreReply(r)
    BY <1>2, <1>6, <1>12, <2>2
       DEF MessageStep, ReadPhase, HearUser, BuildContext, HearReply, StreamFails, Goto,
           flowVars
  <2> QED BY <2>1, <2>2
<1>13. CASE EndStep(r) /\ ~CloseCase(r)
  <2>1. CASE NoteOverruns(r) \/ PersistRow(r)
    BY <1>2, <1>6, <2>1
       DEF NoteOverruns, PersistRow, StoreTurn, StoreReturns, Goto, flowVars
  <2>2. CASE ~NoteOverruns(r) /\ ~PersistRow(r)
    BY <1>2, <1>6, <1>13, <2>2
       DEF EndStep, EndAgain, EndFails, ScoreGroup, Unparsable, ScoringUnserved,
           PersistRaises, Reveal, RevealFails, Goto, flowVars
  <2> QED BY <2>1, <2>2
<1>14. CASE StoreStep(r)
  BY <1>2, <1>6, <1>14 DEF StoreStep, BindStored, StoreRefuses, StoresTurn, Goto, flowVars
<1> QED
  BY <1>7, <1>8, <1>9, <1>10, <1>11, <1>12, <1>13, <1>14 DEF Moves, ServerStep, AdvanceStep

-----------------------------------------------------------------------------
(* The conversation.                                                        *)

(* What a thread has said last is the last that was said.                   *)
TalkInv ==
  \A r \in Requests : pc[r] \in {"heard", "stored", "streaming"} =>
    /\ transcript # <<>>
    /\ transcript[Len(transcript)] = [role |-> "user", by |-> r]

(* Every step.                                                              *)
LEMMA TalkStep ==
  ASSUME Sequential, TypeInv, CallInv, OneInv, TalkInv, NEW r \in Requests, Moves(r)
  PROVE  TalkInv'
<1>1. \A s \in Requests \ {r} : ~Busy(s) /\ pc'[s] = pc[s]
  BY Alone
<1>2. pc \in [Requests -> Places] /\ transcript \in Seq(Turn)
  BY DEF TypeInv, TypeOK, FlowTypeOK
<1>3. \A s \in Requests \ {r} : pc'[s] \notin {"heard", "stored", "streaming"}
  BY <1>1 DEF Busy, Finished
<1>4. CASE HearUser(r)
  <2>1. transcript' = Append(transcript, [role |-> "user", by |-> r])
    BY <1>4 DEF HearUser, RecordTurn
  <2>2. [role |-> "user", by |-> r] \in Turn
    BY DEF Turn
  <2>3. /\ transcript' # <<>>
        /\ transcript'[Len(transcript')] = [role |-> "user", by |-> r]
    BY <1>2, <2>1, <2>2
  <2> QED
    BY <1>3, <2>3 DEF TalkInv
<1>5. CASE HearReply(r)
  <2>1. pc'[r] = "replied"
    BY <1>2, <1>5 DEF HearReply, Goto
  <2> QED
    BY <1>3, <2>1 DEF TalkInv
<1>6. CASE ~HearUser(r) /\ ~HearReply(r)
  <2>1. transcript' = transcript BY <1>6, StepMoves
  <2>2. pc'[r] \in {"heard", "stored", "streaming"} =>
          pc[r] \in {"heard", "stored", "streaming"}
    <3>1. CASE StoreUser(r) \/ StoreReply(r) \/ NoteOverruns(r) \/ PersistRow(r)
      BY <1>2, <3>1
         DEF StoreUser, StoreReply, NoteOverruns, PersistRow, StoreTurn, StoreReturns, Goto
    <3>2. CASE ~(StoreUser(r) \/ StoreReply(r) \/ NoteOverruns(r) \/ PersistRow(r))
      BY <1>2, <1>6, <3>2
         DEF Moves, UserStep, SendMessage, Disconnect, Advance, Hint, CoachReveal,
             ShowExhibit, ServerStep, StoreStep, BindStored, StoreRefuses, MessageStep,
             AdvanceStep, LeavePhase, AdvanceRefused, EnterPhase, OpenExhibits,
             EndStep, EndAgain, CloseCase, EndFails, ScoreGroup, Unparsable,
             ScoringUnserved, PersistRaises, Reveal, RevealFails,
             ReadPhase, BuildContext, StreamFails, Arrives, Goto
    <3> QED BY <3>1, <3>2
  <2> QED
    BY <1>3, <2>1, <2>2 DEF TalkInv
<1> QED
  BY <1>4, <1>5, <1>6

-----------------------------------------------------------------------------
(* The stored conversation.                                                 *)

(* One row of the table more joins the conversation, or is left out.        *)
LEMMA JoinsType ==
  ASSUME NEW said \in Seq(Turn), NEW row \in TurnRow
  PROVE  Joins(said, row) \in Seq(Turn)
<1>1. CASE row.role # "system"
  <2>1. [role |-> row.role, by |-> row.by] \in Turn BY <1>1 DEF TurnRow, Turn
  <2> QED BY <1>1, <2>1 DEF Joins
<1> QED BY <1>1 DEF Joins

(* The fold, row by row.                                                    *)
LEMMA ConversationRuns ==
  ASSUME NEW rows \in Seq(TurnRow)
  PROVE  \E run \in [0 .. Len(rows) -> Seq(Turn)] :
           /\ run[0] = <<>>
           /\ \A k \in 1 .. Len(rows) : run[k] = Joins(run[k - 1], rows[k])
           /\ run[Len(rows)] = Conversation(rows)
<1> DEFINE n == Len(rows)
           V == Seq(Turn)
           step == [p \in (1 .. n) \X V |-> Joins(p[2], rows[p[1]])]
           Is(f) == f = [t \in SUBSET (1 .. n) |->
                           IF t = {} THEN <<>>
                           ELSE Joins(f[t \ {Max(t)}], rows[Max(t)])]
           iter == CHOOSE f : Is(f)
<1>1. n \in Nat /\ DOMAIN rows = 1 .. n OBVIOUS
<1>2. Conversation(rows) = iter[1 .. n]
  BY <1>1 DEF Conversation, FoldLeft, MapThenFoldSet
<1>3. \A k \in 1 .. n, v \in V : Joins(v, rows[k]) \in V BY JoinsType
<1>4. step \in [(1 .. n) \X V -> V] BY <1>3
<1>5. \A k \in 1 .. n, v \in V : step[<<k, v>>] = Joins(v, rows[k]) OBVIOUS
<1>6. <<>> \in V OBVIOUS
<1>7. \A t \in SUBSET (1 .. n) : t # {} => Max(t) \in 1 .. n
  BY <1>1, GreatestPlace
<1>8. Is(iter)
  <2> HIDE DEF n, V, step
  <2>1. PICK f \in [SUBSET (1 .. n) -> V] :
          IsFold(f, 1 .. n, <<>>, [t \in SUBSET (1 .. n) |-> Max(t)], step)
    BY <1>1, <1>4, <1>6, LeftFoldExists
  <2>2. Is(f)
    <3> SUFFICES ASSUME NEW t \in SUBSET (1 .. n)
                 PROVE  f[t] = IF t = {} THEN <<>>
                               ELSE Joins(f[t \ {Max(t)}], rows[Max(t)])
      BY <2>1
    <3>1. f[t \ {Max(t)}] \in V BY <2>1
    <3> QED BY <2>1, <3>1, <1>5, <1>7 DEF IsFold
  <2> QED BY <2>2
<1>9. iter[{}] = <<>> BY <1>8
<1>10. StepsLeft(iter, n, V, <<>>, step)
  <2> HIDE DEF n, V, step, iter
  <2> QED BY <1>5, <1>7, <1>8, <1>9 DEF StepsLeft
<1> HIDE DEF n, V, step, iter
<1>11. PICK run \in [0 .. n -> V] : IsRun(run, n, <<>>, step, iter[1 .. n])
  BY <1>1, <1>4, <1>6, <1>10, LeftFoldRuns
<1>12. ASSUME NEW k \in 1 .. n PROVE run[k] = Joins(run[k - 1], rows[k])
  <2>1. run[k - 1] \in V BY <1>1, <1>11
  <2>2. run[k] = step[<<k, run[k - 1]>>] BY <1>11 DEF IsRun
  <2> QED BY <2>1, <2>2, <1>5
<1>13. run[0] = <<>> /\ run[n] = Conversation(rows)
  BY <1>2, <1>11 DEF IsRun
<1> QED BY <1>11, <1>12, <1>13 DEF V, n

(* A row at the end of the table: the conversation takes it in last.        *)
LEMMA ConversationAppend ==
  ASSUME NEW rows \in Seq(TurnRow), NEW row \in TurnRow
  PROVE  Conversation(Append(rows, row)) = Joins(Conversation(rows), row)
<1> DEFINE n == Len(rows)
           more == Append(rows, row)
<1>1. /\ n \in Nat /\ more \in Seq(TurnRow) /\ Len(more) = n + 1
      /\ more[n + 1] = row /\ \A k \in 1 .. n : more[k] = rows[k]
  OBVIOUS
<1>2. PICK f \in [0 .. n -> Seq(Turn)] :
        /\ f[0] = <<>>
        /\ \A k \in 1 .. n : f[k] = Joins(f[k - 1], rows[k])
        /\ f[n] = Conversation(rows)
  BY ConversationRuns
<1> HIDE DEF more, n
<1>3. PICK g \in [0 .. n + 1 -> Seq(Turn)] :
        /\ g[0] = <<>>
        /\ \A k \in 1 .. n + 1 : g[k] = Joins(g[k - 1], more[k])
        /\ g[n + 1] = Conversation(more)
  BY <1>1, ConversationRuns
<1>4. ASSUME NEW k \in 1 .. n, f[k - 1] = g[k - 1] PROVE f[k] = g[k]
  <2>1. k \in 1 .. n + 1 BY <1>1
  <2> QED BY <2>1, <1>1, <1>2, <1>3, <1>4
<1>5. f[0] = g[0] BY <1>2, <1>3
<1>6. StepAlike(f, g, n) BY <1>4 DEF StepAlike
<1>7. f[n] = g[n] BY <1>1, <1>5, <1>6, RunsAgree
<1>8. g[n + 1] = Joins(g[n], more[n + 1])
  <2>1. n + 1 \in 1 .. n + 1 /\ (n + 1) - 1 = n BY <1>1
  <2> QED BY <2>1, <1>3
<1> QED BY <1>1, <1>2, <1>3, <1>7, <1>8 DEF more

(* An empty table holds no conversation.                                    *)
LEMMA ConversationEmpty == Conversation(<<>>) = <<>>
<1> DEFINE rows == <<>>
<1>1. rows \in Seq(TurnRow) OBVIOUS
<1>2. Len(rows) = 0 OBVIOUS
<1> HIDE DEF rows
<1>3. PICK run \in [0 .. Len(rows) -> Seq(Turn)] :
        /\ run[0] = <<>>
        /\ \A k \in 1 .. Len(rows) : run[k] = Joins(run[k - 1], rows[k])
        /\ run[Len(rows)] = Conversation(rows)
  BY <1>1, ConversationRuns
<1>4. Conversation(rows) = <<>> BY <1>2, <1>3
<1> QED BY <1>4 DEF rows

(* The table is the transcript, but for the turn that a thread has said and *)
(* not stored yet.                                                          *)
StoredInv ==
  /\ \A r \in Requests :
       /\ pc[r] = "heard" =>
            transcript = Append(Conversation(turns), [role |-> "user", by |-> r])
       /\ pc[r] = "replied" =>
            transcript =
              Append(Conversation(turns), [role |-> "assistant", by |-> r])
  /\ (\A r \in Requests : pc[r] \notin {"heard", "replied"}) =>
       transcript = Conversation(turns)

(* At the start both are empty.                                             *)
LEMMA StoredInit == Init => StoredInv
BY ConversationEmpty DEF Init, FlowInit, StoredInv

(* Every step: what is said is stored next, by the same thread.             *)
LEMMA StoredStep ==
  ASSUME Sequential, TypeInv, CallInv, OneInv, StoredInv, NEW r \in Requests, Moves(r)
  PROVE  StoredInv'
<1>1. \A s \in Requests \ {r} : ~Busy(s) /\ pc'[s] = pc[s]
  BY Alone
<1>2. pc \in [Requests -> Places] /\ turns \in Seq(TurnRow) /\ loc \in [Requests -> Locals]
  BY DEF TypeInv, TypeOK
<1>3. \A s \in Requests \ {r} : /\ pc[s] \notin {"heard", "replied"}
                              /\ pc'[s] \notin {"heard", "replied"}
  BY <1>1 DEF Busy, Finished
<1>4. CASE HearUser(r)
  <2>1. pc[r] = "labelled" /\ pc'[r] = "heard" /\ turns' = turns
    BY <1>2, <1>4 DEF HearUser, Goto, tableVars
  <2>2. transcript = Conversation(turns) BY <1>3, <2>1 DEF StoredInv
  <2>3. transcript' = Append(transcript, [role |-> "user", by |-> r])
    BY <1>4 DEF HearUser, RecordTurn
  <2> QED BY <1>3, <2>1, <2>2, <2>3 DEF StoredInv
<1>5. CASE HearReply(r)
  <2>1. pc[r] = "streaming" /\ pc'[r] = "replied" /\ turns' = turns
    BY <1>2, <1>5 DEF HearReply, Goto, tableVars
  <2>2. transcript = Conversation(turns) BY <1>3, <2>1 DEF StoredInv
  <2>3. transcript' = Append(transcript, [role |-> "assistant", by |-> r])
    BY <1>5 DEF HearReply, RecordTurn
  <2> QED BY <1>3, <2>1, <2>2, <2>3 DEF StoredInv
<1>6. ASSUME NEW role \in {"user", "assistant"}, NEW label \in Nat,
             turns' = Append(turns, [role |-> role, phase |-> label, by |-> r])
      PROVE  Conversation(turns') =
               Append(Conversation(turns), [role |-> role, by |-> r])
  <2> DEFINE row == [role |-> role, phase |-> label, by |-> r]
  <2>1. row \in TurnRow BY DEF TurnRow
  <2>2. Joins(Conversation(turns), row) =
          Append(Conversation(turns), [role |-> role, by |-> r])
    BY DEF Joins
  <2> HIDE DEF row
  <2>3. Conversation(Append(turns, row)) = Joins(Conversation(turns), row)
    BY <1>2, <2>1, ConversationAppend
  <2> QED BY <1>6, <2>2, <2>3 DEF row
<1>7. loc[r].label \in Nat BY <1>2 DEF Locals
<1>8. CASE StoreUser(r)
  <2>1. pc[r] = "heard" /\ pc'[r] = "stored" /\ transcript' = transcript
    BY <1>2, <1>8, StoresAlone DEF StoreUser, Goto, flowVars
  <2>2. Conversation(turns') =
          Append(Conversation(turns), [role |-> "user", by |-> r])
    BY <1>6, <1>7, <1>8, StoresAlone DEF Turns
  <2> QED BY <1>3, <2>1, <2>2 DEF StoredInv
<1>9. CASE StoreReply(r)
  <2>1. pc[r] = "replied" /\ pc'[r] = "done" /\ transcript' = transcript
    BY <1>2, <1>9, StoresAlone DEF StoreReply, Goto, flowVars
  <2>2. Conversation(turns') =
          Append(Conversation(turns), [role |-> "assistant", by |-> r])
    BY <1>6, <1>7, <1>9, StoresAlone DEF Turns
  <2> QED BY <1>3, <2>1, <2>2 DEF StoredInv
<1>10. CASE NoteOverruns(r)
  <2>1. pc[r] = "closed" /\ pc'[r] = "scoring" /\ transcript' = transcript
    BY <1>2, <1>10, StoresAlone DEF NoteOverruns, Goto, flowVars
  <2>2. Conversation(turns') = Conversation(turns)
    <3>1. CASE turns' = turns BY <3>1
    <3>2. CASE turns' = Append(turns, Turns(r, "system", NPhases))
      <4> DEFINE row == [role |-> "system", phase |-> NPhases, by |-> r]
      <4>1. row \in TurnRow BY CaseAssumption DEF TurnRow
      <4>2. Joins(Conversation(turns), row) = Conversation(turns) BY DEF Joins
      <4>3. turns' = Append(turns, row) BY <3>2 DEF Turns
      <4> HIDE DEF row
      <4> QED BY <1>2, <4>1, <4>2, <4>3, ConversationAppend
    <3> QED BY <1>10, <3>1, <3>2, StoresAlone
  <2> QED BY <1>3, <2>1, <2>2 DEF StoredInv
<1>11. CASE BindStored(r)
  <2>1. UNCHANGED <<pc, transcript, turns>> BY <1>11 DEF BindStored, flowVars
  <2> QED BY <2>1 DEF StoredInv
<1>12. CASE ~(\/ HearUser(r) \/ HearReply(r) \/ StoreUser(r) \/ StoreReply(r)
              \/ NoteOverruns(r) \/ BindStored(r))
  <2>1. ~StoreRefuses(r) BY StoresAlone
  <2>2. /\ transcript' = transcript /\ turns' = turns
        /\ pc[r] \notin {"heard", "replied"} /\ pc'[r] \notin {"heard", "replied"}
    BY <1>12, <2>1, SilentMoves
  <2> QED
    BY <1>3, <2>2 DEF StoredInv
<1> QED
  BY <1>4, <1>5, <1>8, <1>9, <1>10, <1>11, <1>12

-----------------------------------------------------------------------------
(* What holds of a session whose user waits.                                *)

SeqInv ==
  /\ TypeInv /\ CallInv /\ TurnInv /\ CardInv
  /\ OneInv /\ EarnedInv /\ ResultInv /\ PhaseInv /\ TalkInv
  /\ StoredInv

(* At the start.                                                            *)
LEMMA SeqInit == Init => SeqInv
<1> SUFFICES ASSUME Init PROVE SeqInv
  OBVIOUS
<1>1. OneInv /\ TalkInv
  BY DEF Init, OneInv, Busy, TalkInv, CallsInit
<1> QED
  BY <1>1, TypeInit, CallInit, TurnInit, CardInit, EarnedInit, ResultInit, PhaseInit,
     StoredInit
     DEF SeqInv

(* After every step.                                                        *)
LEMMA SeqStep ==
  ASSUME Sequential, SeqInv, [Next]_vars
  PROVE  SeqInv'
<1>1. CASE UNCHANGED vars
  <2>1. TypeInv'
    BY <1>1, StutterType DEF SeqInv
  <2>2. CallInv' /\ TurnInv' /\ CardInv'
    BY <1>1, StutterCalls, StutterTurns, StutterCards DEF SeqInv
  <2>3. OneInv' /\ TalkInv' /\ EarnedInv'
    BY <1>1 DEF SeqInv, vars, flowVars, tableVars, callVars, OneInv, Busy, TalkInv,
                EarnedInv, RevealIsEarned, Earned
  <2>4. ResultInv'
    <3>1. UNCHANGED <<cards, payload, loc, pc>> BY <1>1 DEF vars, tableVars
    <3>2. \A s \in Requests : WritesOK(s)' BY <3>1 DEF SeqInv, ResultInv, WritesOK
    <3> QED BY <3>1, <3>2, ResultFrame DEF SeqInv
  <2>5. PhaseInv'
    BY <1>1 DEF SeqInv, vars, flowVars, PhaseInv, PhaseExists, IsTerminal, Left
  <2>6. StoredInv'
    BY <1>1 DEF SeqInv, vars, flowVars, tableVars, StoredInv
  <2> QED
    BY <2>1, <2>2, <2>3, <2>4, <2>5, <2>6 DEF SeqInv
<1>2. ASSUME NEW r \in Requests, Moves(r) PROVE SeqInv'
  <2>1. TypeInv'
    BY <1>2, StoreType, MessageType, AdvanceType, EndType, AnswerType
       DEF SeqInv, Moves, UserStep, ServerStep
  <2>2. CallInv'
    BY <1>2, CallStep DEF SeqInv
  <2>3. TurnInv' /\ CardInv'
    BY <1>2, TurnStep, CardStep DEF SeqInv
  <2>4. OneInv' /\ EarnedInv' /\ ResultInv' /\ PhaseInv' /\ TalkInv' /\ StoredInv'
    BY <1>2, Alone, EarnedStep, ResultStep, PhaseStep, TalkStep, StoredStep DEF SeqInv
  <2> QED
    BY <2>1, <2>2, <2>3, <2>4 DEF SeqInv
<1> QED
  BY <1>1, <1>2 DEF Next, AllAnswered, Moves

(* So SeqInv is an invariant.                                               *)
THEOREM SequentialInvariant == ASSUME Sequential PROVE Spec => []SeqInv
<1>1. SeqInv /\ [Next]_vars => SeqInv'
  BY SeqStep
<1> QED
  BY SeqInit, <1>1, PTL DEF Spec

(* Between requests the stored conversation is the transcript, turn by turn *)
(* and in order, system rows aside (record_turn and the transcript that the *)
(* next call sends).                                                        *)
THEOREM TranscriptIsStored == ASSUME Sequential PROVE Spec => []TranscriptStored
<1>1. SeqInv => TranscriptStored
  <2> SUFFICES ASSUME SeqInv, Quiet PROVE Conversation(turns) = transcript
    BY DEF TranscriptStored
  <2>1. \A r \in Requests : pc[r] \notin {"heard", "replied"}
    BY DEF Quiet, InFlight, Finished
  <2> QED
    BY <2>1 DEF SeqInv, StoredInv
<1> QED
  BY <1>1, SequentialInvariant, PTL

(* "Explain, attempt, reveal": a model approach is never shown before the   *)
(* candidate has spoken in that phase (coach_reveal, context).              *)
THEOREM RevealsAreEarned == ASSUME Sequential PROVE Spec => []RevealIsEarned
<1>1. SeqInv => RevealIsEarned
  BY DEF SeqInv, EarnedInv
<1> QED
  BY <1>1, SequentialInvariant, PTL

(* However often the end fails, and after however many rows: a request      *)
(* stores its dimensions in order and in one piece, the one that ends the   *)
(* case a whole card or none, and no row comes after (_end).                *)
THEOREM LastCardIsWhole == ASSUME Sequential PROVE Spec => []ScoredByTheLast
<1>1. SeqInv => ScoredByTheLast
  BY DEF SeqInv, ResultInv, PayloadOK, ScoredByTheLast
<1> QED
  BY <1>1, SequentialInvariant, PTL

(* Phases are visited and timed in order, exhibits open when due (advance). *)
THEOREM PhasesAreInOrder == ASSUME Sequential PROVE Spec => []PhasesInOrder
<1>1. SeqInv => PhasesInOrder
  <2> SUFFICES ASSUME SeqInv, Quiet PROVE PhasesInOrder
    BY DEF PhasesInOrder
  <2>1. \A r \in Requests : pc[r] \notin {"leaving", "entering"}
    BY DEF Quiet, InFlight, Finished
  <2>2. Left = phase
    BY <2>1 DEF Left
  <2> QED
    BY <2>1, <2>2 DEF SeqInv, PhaseInv, PhasesInOrder
<1> QED
  BY <1>1, SequentialInvariant, PTL

(* The end payload, once set, is final (_end).                              *)
THEOREM TheEndIsFinal == ASSUME Sequential PROVE Spec => EndIsFinal
<1>1. SeqInv /\ [Next]_vars => [payload # {} => payload' = payload]_vars
  <2> SUFFICES ASSUME SeqInv, Next, payload # {} PROVE payload' = payload
    BY DEF vars
  <2>1. \A r \in Requests : pc[r] # "revealing"
    BY DEF SeqInv, ResultInv, WritesOK
  <2> QED
    BY <2>1
       DEF Next, AllAnswered, vars, UserStep, ServerStep, MessageStep, AdvanceStep, EndStep,
           SendMessage, Disconnect, Advance, Hint, CoachReveal, ShowExhibit,
           ReadPhase, HearUser, StoreUser, BuildContext, HearReply, StreamFails,
           StoreReply, LeavePhase, AdvanceRefused, EnterPhase, OpenExhibits,
           EndAgain, CloseCase, EndFails, NoteOverruns, ScoreGroup, Unparsable,
           ScoringUnserved, PersistRow, PersistRaises, Reveal, RevealFails,
           StoreStep, BindStored, StoreRefuses
<1> QED
  BY <1>1, SequentialInvariant, PTL DEF Spec, EndIsFinal

-----------------------------------------------------------------------------
(* The variables of the protocol, as the mapping has them.                  *)
Sheet == [k \in 1 .. LastRows |-> cards[Len(cards) - LastRows + k].dim]
Ended == payload # {}
Shown == \E p \in payload : p.feedback

(* The sheet is the beginning of the rubric, as far as the last run got.    *)
LEMMA SheetIs ==
  SeqInv => /\ LastRows \in 0 .. Len(Dims)
            /\ Sheet = [k \in 1 .. LastRows |-> Dims[k]]
<1> SUFFICES ASSUME SeqInv
             PROVE  /\ LastRows \in 0 .. Len(Dims)
                    /\ Sheet = [k \in 1 .. LastRows |-> Dims[k]]
  OBVIOUS
<1>1. Len(Dims) \in Nat BY SessionAssumption
<1>2. CASE cards = <<>>
  BY <1>1, <1>2 DEF LastRows, Sheet
<1>3. CASE cards # <<>>
  <2>1. LastRun(cards[Len(cards)].by, LastRows)
    BY <1>3 DEF SeqInv, ResultInv, LastRows
  <2>2. LastRows \in 1 .. Len(Dims) BY <2>1 DEF LastRun
  <2>3. \A k \in 1 .. LastRows : cards[Len(cards) - LastRows + k].dim = Dims[k]
    BY <2>1 DEF LastRun
  <2> HIDE DEF LastRows
  <2> QED BY <1>1, <2>2, <2>3 DEF Sheet
<1> QED BY <1>2, <1>3

(* What the protocol does not see.                                          *)
LEMMA Unseen ==
  ASSUME SeqInv, UNCHANGED <<phase, transcript, cards, payload>>,
         \A s \in Requests : loc'[s].row = loc[s].row
  PROVE  UNCHANGED <<phase, transcript, Sheet, Ended, Shown>>
<1>1. LastRows' = LastRows
  <2>1. CASE cards = <<>> BY <2>1 DEF LastRows
  <2>2. CASE cards # <<>>
    <3>1. cards \in Seq(CardRow) /\ Len(cards) \in 1 .. Len(cards)
      BY <2>2 DEF SeqInv, TypeInv, TypeOK
    <3>2. cards[Len(cards)] \in CardRow BY <3>1
    <3>3. cards[Len(cards)].by \in Requests BY <3>2 DEF CardRow
    <3> QED BY <2>2, <3>3 DEF LastRows
  <2> QED BY <2>1, <2>2
<1>2. Sheet' = Sheet BY <1>1 DEF Sheet
<1> QED BY <1>2 DEF Ended, Shown

(* A case is ended in its last phase.                                       *)
LEMMA AtTheLast ==
  ASSUME SeqInv, NEW r \in Requests, pc[r] \in EndStates
  PROVE  phase = NPhases - 1
<1>1. IsTerminal
  BY DEF SeqInv, CardInv, CardOK
<1>2. PhaseExists
  BY DEF SeqInv, PhaseInv
<1>3. phase \in Nat /\ NPhases \in Nat
  BY CaseAssumption DEF SeqInv, TypeInv, TypeOK, FlowTypeOK
<1> QED
  BY <1>1, <1>2, <1>3 DEF IsTerminal, PhaseExists, LastPhase

(* A phase is entered.                                                      *)
LEMMA EnterSimulates ==
  ASSUME SeqInv, NEW r \in Requests, EnterPhase(r)
  PROVE  Protocol!NextPhase
<1>1. /\ pc[r] = "leaving" /\ phase' = phase + 1
      /\ UNCHANGED <<transcript, cards, payload, loc>>
  BY DEF EnterPhase, EnterNextPhase, tableVars
<1>2. ~IsTerminal /\ payload = {}
  BY <1>1 DEF SeqInv, PhaseInv, CardInv, RevealComesLast
<1>3. phase \in Nat /\ phase # NPhases - 1
  BY <1>2, CaseAssumption DEF SeqInv, TypeInv, TypeOK, FlowTypeOK, IsTerminal, LastPhase
<1>4. UNCHANGED <<transcript, Sheet, Ended, Shown>>
  BY <1>1 DEF Sheet, LastRows, Ended, Shown
<1> QED
  BY <1>1, <1>2, <1>3, <1>4 DEF Protocol!NextPhase, Protocol!AtLast, Sheet, Ended, Shown

(* A message joins the transcript; its thread has not spoken before.        *)
LEMMA HearSimulates ==
  ASSUME SeqInv, NEW r \in Requests, HearUser(r)
  PROVE  Protocol!Ask(r)
<1>1. /\ pc[r] = "labelled" /\ UNCHANGED <<phase, cards, payload, loc>>
      /\ transcript' = Append(transcript, [role |-> "user", by |-> r])
  BY DEF HearUser, RecordTurn, tableVars
<1>2. ~Says(transcript, "user", r) /\ ~Says(transcript, "assistant", r)
  <2>1. r \notin overlapped BY DEF SeqInv, OneInv
  <2>2. ~Says(turns, "user", r) /\ ~Says(turns, "assistant", r)
    BY <1>1, <2>1 DEF SeqInv, TurnInv, TurnOK, Labelled, Finished
  <2> QED BY <1>1, <2>1, <2>2 DEF SeqInv, TurnInv, StoreKeepsTurns
<1>3. \A k \in 1 .. Len(transcript) : transcript[k].role \in {"user", "assistant"}
  <2>1. \A k \in 1 .. Len(transcript) : transcript[k] \in Turn
    BY DEF SeqInv, TypeInv, TypeOK, FlowTypeOK
  <2> QED
    BY <2>1 DEF Turn
<1>4. \A k \in 1 .. Len(transcript) : transcript[k].by # r
  BY <1>2, <1>3 DEF Says
<1>5. UNCHANGED <<Sheet, Ended, Shown>>
  BY <1>1 DEF Sheet, LastRows, Ended, Shown
<1> QED
  BY <1>1, <1>4, <1>5 DEF Protocol!Ask, Sheet, Ended, Shown

(* So does the reply, right after its message.                              *)
LEMMA ReplySimulates ==
  ASSUME SeqInv, NEW r \in Requests, HearReply(r)
  PROVE  Protocol!Answer(r)
<1>1. /\ pc[r] = "streaming" /\ UNCHANGED <<phase, cards, payload, loc>>
      /\ transcript' = Append(transcript, [role |-> "assistant", by |-> r])
  BY DEF HearReply, RecordTurn, tableVars
<1>2. UNCHANGED <<Sheet, Ended, Shown>>
  BY <1>1 DEF Sheet, LastRows, Ended, Shown
<1> QED
  BY <1>1, <1>2 DEF SeqInv, TalkInv, Protocol!Answer, Sheet, Ended, Shown

(* A row is the next line of the score sheet, or the first of a new one.    *)
LEMMA PersistSimulates ==
  ASSUME Sequential, SeqInv, SeqInv', NEW r \in Requests, PersistRow(r)
  PROVE  Protocol!Score
<1> DEFINE n == loc[r].row
<1>0. Moves(r) BY DEF Moves, ServerStep, EndStep
<1>1. /\ pc[r] = "persisting" /\ UNCHANGED <<phase, transcript, payload>>
      /\ cards' = Append(cards, CardOf(r))
  BY <1>0, StoresAlone DEF SeqInv, PersistRow, flowVars
<1>2. /\ payload = {} /\ n < Len(Dims) /\ n \in Nat /\ Len(Dims) \in Nat
      /\ n > 0 => cards # <<>> /\ cards[Len(cards)].by = r
  <2>1. /\ payload = {}
        /\ n > 0 => cards # <<>> /\ cards[Len(cards)].by = r
    BY <1>1 DEF SeqInv, ResultInv, WritesOK
  <2>2. n < Len(Dims) BY <1>1 DEF SeqInv, TypeInv, RowOK
  <2>3. loc[r] \in Locals BY DEF SeqInv, TypeInv, TypeOK
  <2>4. n \in Nat BY <2>3 DEF Locals
  <2> QED BY <2>1, <2>2, <2>4, SessionAssumption
<1>3. loc'[r].row = n + 1
  BY <1>2 DEF PersistRow, SeqInv, TypeInv, TypeOK, Locals
<1>4. cards' # <<>> /\ cards'[Len(cards')].by = r
  <2>1. cards \in Seq(CardRow) /\ CardOf(r) \in CardRow /\ CardOf(r).by = r
    BY <1>1, OwnRows DEF SeqInv, TypeInv, TypeOK, CardOf
  <2> HIDE DEF n
  <2> QED BY <1>1, <2>1
<1>5. LastRows' = n + 1
  BY <1>3, <1>4 DEF LastRows
<1>6. Sheet' = [k \in 1 .. n + 1 |-> Dims[k]]
  <2>1. (Sheet = [k \in 1 .. LastRows |-> Dims[k]])'
    <3>1. (SeqInv => /\ LastRows \in 0 .. Len(Dims)
                     /\ Sheet = [k \in 1 .. LastRows |-> Dims[k]])'
      BY SheetIs, PTL
    <3> QED BY <3>1
  <2> QED BY <1>5, <2>1
<1>7. phase = NPhases - 1
  BY <1>1, AtTheLast DEF EndStates
<1>8. ~Ended /\ UNCHANGED <<Ended, Shown>>
  BY <1>1, <1>2 DEF Ended, Shown
<1>9. Dims \in Seq(STRING) BY SessionAssumption
<1>10. \/ Len(Sheet) < Len(Dims) /\ Sheet' = Append(Sheet, Dims[Len(Sheet) + 1])
       \/ Sheet' = <<Dims[1]>>
  <2>1. CASE n = 0
    <3>1. Sheet' = [k \in 1 .. 1 |-> Dims[k]] BY <1>6, <2>1
    <3> QED BY <3>1
  <2>2. CASE n > 0
    <3>1. LastRows = n BY <1>2, <2>2 DEF LastRows
    <3>2. Sheet = [k \in 1 .. n |-> Dims[k]] BY <3>1, SheetIs
    <3> HIDE DEF n, Sheet
    <3>3. Len(Sheet) = n /\ Sheet \in Seq(STRING) BY <1>2, <1>9, <3>2
    <3>4. Sheet' = Append(Sheet, Dims[n + 1]) BY <1>2, <1>6, <1>9, <3>2, <3>3
    <3> QED BY <1>2, <3>3, <3>4
  <2> QED BY <1>2, <2>1, <2>2
<1> QED
  BY <1>1, <1>7, <1>8, <1>10 DEF Protocol!Score, Protocol!AtLast, Sheet, Ended, Shown

(* The payload ends the protocol; feedback goes with a whole sheet.         *)
LEMMA RevealSimulates ==
  ASSUME SeqInv, NEW r \in Requests, Reveal(r)
  PROVE  Protocol!End
<1> DEFINE x == [overruns |-> loc[r].late, feedback |-> loc[r].scored /\ ShowScores,
                 by |-> r]
<1>1. /\ pc[r] = "revealing" /\ UNCHANGED <<phase, transcript, cards, loc>>
      /\ payload' = {x}
  BY DEF Reveal, flowVars, tableVars
<1>2. x.feedback = (loc[r].scored /\ ShowScores) OBVIOUS
<1> HIDE DEF x
<1>3. payload = {} /\ (loc[r].scored => LastRows = Len(Dims))
  BY <1>1, SessionAssumption DEF SeqInv, ResultInv, WritesOK, LastRows
<1>4. Dims \in Seq(STRING) /\ Len(Dims) \in Nat /\ Dims = [k \in 1 .. Len(Dims) |-> Dims[k]]
  BY SessionAssumption
<1>5. Shown' <=> x.feedback BY <1>1 DEF Shown
<1>6. Shown' => Sheet = Dims
  <2>1. Shown' => loc[r].scored BY <1>2, <1>5, Zenon
  <2> QED BY <1>3, <1>4, <2>1, SheetIs
<1>7. UNCHANGED Sheet BY <1>1 DEF Sheet, LastRows
<1>8. ~Ended /\ Ended' /\ Shown' \in BOOLEAN BY <1>1, <1>3 DEF Ended, Shown
<1>9. phase = NPhases - 1
  BY <1>1, AtTheLast DEF EndStates
<1> QED
  BY <1>1, <1>6, <1>7, <1>8, <1>9 DEF Protocol!End, Protocol!AtLast, Sheet, Ended, Shown

(* Every step of the session is one of the protocol or is not seen there.   *)
LEMMA StepSimulates ==
  ASSUME Sequential, SeqInv, SeqInv', NEW r \in Requests, Moves(r)
  PROVE  Protocol!Next \/ UNCHANGED <<phase, transcript, Sheet, Ended, Shown>>
<1>1. CASE EnterPhase(r) BY <1>1, EnterSimulates DEF Protocol!Next
<1>2. CASE HearUser(r) BY <1>2, HearSimulates DEF Protocol!Next
<1>3. CASE HearReply(r) BY <1>3, ReplySimulates DEF Protocol!Next
<1>4. CASE PersistRow(r) BY <1>4, PersistSimulates DEF Protocol!Next
<1>5. CASE Reveal(r) BY <1>5, RevealSimulates DEF Protocol!Next
<1>6. CASE /\ ~EnterPhase(r) /\ ~HearUser(r) /\ ~HearReply(r)
           /\ ~PersistRow(r) /\ ~Reveal(r)
  <2>1. /\ payload' = payload /\ cards' = cards /\ transcript' = transcript
        /\ \A s \in Requests : loc'[s].row = loc[s].row
    BY <1>6, SilentRun, StepMoves DEF SeqInv
  <2>2. phase' = phase
    BY <1>6
       DEF Moves, UserStep, ServerStep, MessageStep, AdvanceStep, EndStep, StoreStep,
           SendMessage, Disconnect, Advance, Hint, CoachReveal, ShowExhibit,
           ReadPhase, StoreUser, BuildContext, StreamFails, StoreReply, LeavePhase,
           AdvanceRefused, OpenExhibits, EndAgain, CloseCase, EndFails, NoteOverruns,
           ScoreGroup, Unparsable, ScoringUnserved, PersistRaises, RevealFails,
           BindStored, StoreRefuses, flowVars
  <2> QED BY <2>1, <2>2, Unseen
<1> QED
  BY <1>1, <1>2, <1>3, <1>4, <1>5, <1>6

(* Whatever the LLM, the connection, the store and retries do, a session    *)
(* whose user waits keeps the protocol.                                     *)
THEOREM SessionImplementsProtocol == ASSUME Sequential PROVE Spec => ImplementsProtocol
<1>1. Init => Protocol!Init
  BY DEF Init, FlowInit, Protocol!Init, LastRows
<1>2. SeqInv /\ SeqInv' /\ [Next]_vars
        => [Protocol!Next]_<<phase, transcript, Sheet, Ended, Shown>>
  <2> SUFFICES ASSUME SeqInv, SeqInv', [Next]_vars
               PROVE  Protocol!Next \/ UNCHANGED <<phase, transcript, Sheet, Ended, Shown>>
    OBVIOUS
  <2>1. CASE UNCHANGED vars
    BY <2>1, Unseen DEF vars, flowVars, tableVars
  <2> QED
    BY <2>1, StepSimulates DEF Next, AllAnswered, Moves
<1> QED
  BY <1>1, <1>2, SequentialInvariant, PTL
     DEF Spec, ImplementsProtocol, Protocol!Spec, Sheet, Ended, Shown
=============================================================================
