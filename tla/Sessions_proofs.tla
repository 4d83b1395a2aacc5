-------------------------- MODULE Sessions_proofs --------------------------
(***************************************************************************)
(* Theorems about LessonSession and GuessSession, for every lesson and tree *)
(* and any finite number of overlapping requests, and the lemmas about      *)
(* Conversation, which both extend, that they share.                        *)
(***************************************************************************)
EXTENDS LessonSession, GuessSession, InductionLemmas

(* Conversation: how a step moves a thread from one place to another, and   *)
(* what a message's steps keep of the two copies of the conversation.       *)

At(P) == {t \in Threads : pc[t] \in P}

(* How many threads are about to call one of the places of P.               *)
LEMMA AtFinite ==
  ASSUME NEW P
  PROVE  IsFiniteSet(At(P)) /\ Cardinality(At(P)) \in Nat
<1>1. IsFiniteSet(At(P)) BY ThreadAssumption, FS_Subset DEF At
<1> QED BY <1>1, FS_CardinalityType

(* A thread enters the places of P.                                         *)
LEMMA AtEnter ==
  ASSUME NEW P, NEW D, pc \in [Threads -> D], NEW t \in Threads, NEW l,
         Goto(t, l), pc[t] \notin P, l \in P
  PROVE  Cardinality(At(P)') = Cardinality(At(P)) + 1
<1>1. At(P)' = At(P) \cup {t} BY DEF At, Goto
<1>2. t \notin At(P) BY DEF At
<1> QED BY <1>1, <1>2, AtFinite, FS_AddElement

(* A thread leaves the places of P.                                         *)
LEMMA AtLeave ==
  ASSUME NEW P, NEW D, pc \in [Threads -> D], NEW t \in Threads, NEW l,
         Goto(t, l), pc[t] \in P, l \notin P
  PROVE  Cardinality(At(P)') = Cardinality(At(P)) - 1
<1>1. At(P)' = At(P) \ {t} BY DEF At, Goto
<1>2. t \in At(P) BY DEF At
<1> QED BY <1>1, <1>2, AtFinite, FS_RemoveElement

(* A thread moves inside P or outside of it.                                *)
LEMMA AtStay ==
  ASSUME NEW P, NEW D, pc \in [Threads -> D], NEW t \in Threads, NEW l,
         Goto(t, l), pc[t] \in P <=> l \in P
  PROVE  Cardinality(At(P)') = Cardinality(At(P))
<1>1. At(P)' = At(P) BY DEF At, Goto
<1> QED BY <1>1

-----------------------------------------------------------------------------
(* A thread that has recorded a turn in the flow and not yet in the table,  *)
(* and the row it is about to store.                                        *)
Between == {"heard", "replied"}

Said(t) == [role |-> IF pc[t] = "heard" THEN "user" ELSE "assistant",
            phase |-> label[t]]

Roles == [k \in 1 .. Len(turns) |-> turns[k].role]

OneBusyTalk ==
  waited => \A s, t \in Threads : pc[s] # "idle" /\ pc[t] # "idle" => s = t

(* A thread in a call of the store is between the two records and a row is  *)
(* bound; while no two calls have met, it is the thread's own.              *)
CallInv ==
  /\ \A t \in Threads : call[t] # "none" => pc[t] \in Between /\ bound.turns # <<>>
  /\ \A t \in Threads : call[t] = "crossed" => overlapped # {}
  /\ waited => overlapped = {}
  /\ overlapped = {} =>
       /\ \A s, t \in Threads : call[s] # "none" /\ call[t] # "none" => s = t
       /\ \A t \in Threads : call[t] # "none" => bound.turns = <<Said(t)>>

(* The transcript is ahead of the table by the turns in between the two     *)
(* calls that record them, and by those the store has refused.              *)
LengthInv ==
  /\ Len(turns) + Cardinality(At(Between)) <= Len(transcript)
  /\ overlapped = {} => Len(turns) + Cardinality(At(Between)) = Len(transcript)

(* For a user who waits, turn by turn.                                      *)
SpokenInv ==
  waited =>
    /\ (\A t \in Threads : pc[t] \notin Between) => Roles = transcript
    /\ \A t \in Threads : pc[t] \in Between => transcript = Append(Roles, Said(t).role)

TalkInv == OneBusyTalk /\ CallInv /\ LengthInv /\ SpokenInv

(* Whoever moves, waited stays a truth value.                               *)
LEMMA WaitedType ==
  ASSUME waited \in BOOLEAN, NEW t, NEW l, Goto(t, l)
  PROVE  waited' \in BOOLEAN
BY DEF Goto

(* A conversation begins empty in both places.                              *)
LEMMA TalkInvInit == TalkInit => TalkInv
<1> SUFFICES ASSUME TalkInit PROVE TalkInv OBVIOUS
<1>0. /\ pc = [t \in Threads |-> "idle"] /\ call = [t \in Threads |-> "none"]
      /\ overlapped = {} /\ turns = <<>> /\ transcript = <<>>
  BY DEF TalkInit, CallsInit
<1>1. At(Between) = {} BY <1>0 DEF At, Between
<1>2. OneBusyTalk /\ CallInv BY <1>0 DEF OneBusyTalk, CallInv
<1>3. LengthInv BY <1>0, <1>1, FS_EmptySet DEF LengthInv
<1>4. Roles = transcript BY <1>0 DEF Roles
<1>5. SpokenInv BY <1>0, <1>4 DEF SpokenInv, Between
<1> QED BY <1>2, <1>3, <1>5 DEF TalkInv

(* Nor is a store call under way.                                           *)
LEMMA TalkTypeInit == TalkInit => TalkTypeOK
<1> SUFFICES ASSUME TalkInit PROVE TalkTypeOK OBVIOUS
<1>1. /\ call = [t \in Threads |-> "none"] /\ overlapped = {}
      /\ bound = [table \in Tables |-> <<>>]
  BY DEF TalkInit, CallsInit, NoneBound
<1>2. bound.turns = <<>> /\ bound.scorecards = <<>> /\ DOMAIN bound = Tables
  BY <1>1 DEF Tables
<1>3. CallsTypeOK(Threads, TurnRow, {})
  <2>1. bound.turns \in Seq(TurnRow) /\ bound.scorecards \in Seq({}) BY <1>2
  <2>2. \A table \in Tables : bound[table] = <<>> BY <1>1
  <2>3. \A table \in Tables : Len(bound[table]) <= 1 BY <2>2
  <2>4. call \in [Threads -> {"none", "alone", "crossed"}] /\ overlapped \subseteq Threads
    BY <1>1
  <2> QED BY <1>2, <2>1, <2>3, <2>4 DEF CallsTypeOK
<1>4. /\ label \in [Threads -> Nat] /\ transcript \in Seq(Speakers)
      /\ turns \in Seq(TurnRow)
  BY DEF TalkInit
<1> QED BY <1>3, <1>4 DEF TalkTypeOK

(* The steps of a call of the store keep the types.                         *)
LEMMA CallType ==
  ASSUME CallsTypeOK(Threads, TurnRow, {}), NEW t \in Threads,
         \/ \E row \in TurnRow : BindRow(t, "turns", row)
         \/ Refused(t)
         \/ \E failed \in BOOLEAN : Returns(t, failed)
  PROVE  CallsTypeOK(Threads, TurnRow, {})'
<1> USE DEF CallsTypeOK, Tables
<1>1. ASSUME NEW c \in {"none", "alone", "crossed"}, Meets(t, c)
      PROVE  /\ call' \in [Threads -> {"none", "alone", "crossed"}]
             /\ overlapped' \subseteq Threads
  BY <1>1 DEF Meets, Others
<1>2. ASSUME NEW row \in TurnRow, BindRow(t, "turns", row)
      PROVE  CallsTypeOK(Threads, TurnRow, {})'
  <2>1. (IF Others(t) = {} THEN "alone" ELSE "crossed") \in {"none", "alone", "crossed"}
    OBVIOUS
  <2>2. call' \in [Threads -> {"none", "alone", "crossed"}] /\ overlapped' \subseteq Threads
    BY <1>1, <1>2, <2>1 DEF BindRow
  <2>3. bound'.turns = <<row>> /\ bound'.scorecards = bound.scorecards
        /\ DOMAIN bound' = Tables
    BY <1>2 DEF BindRow
  <2>4. \A table \in Tables : bound'[table] = <<row>> \/ bound'[table] = bound[table]
    BY <1>2 DEF BindRow
  <2>5. Len(<<row>>) <= 1 /\ <<row>> \in Seq(TurnRow) OBVIOUS
  <2>6. \A table \in Tables : Len(bound'[table]) <= 1
    <3> HIDE DEF Tables
    <3> QED BY <2>4, <2>5
  <2>7. bound'.turns \in Seq(TurnRow) /\ bound'.scorecards \in Seq({}) BY <2>3, <2>5
  <2> QED BY <2>2, <2>3, <2>6, <2>7
<1>3. CASE Refused(t)
  <2>1. Meets(t, "none") /\ bound' = bound BY <1>3 DEF Refused
  <2> QED BY <1>1, <2>1
<1>4. ASSUME NEW failed \in BOOLEAN, Returns(t, failed)
      PROVE  CallsTypeOK(Threads, TurnRow, {})'
  <2>1. /\ call' \in [Threads -> {"none", "alone", "crossed"}]
        /\ overlapped' \subseteq Threads
        /\ bound' = bound \/ bound' = NoneBound
    BY <1>4 DEF Returns
  <2>2. NoneBound.turns = <<>> /\ NoneBound.scorecards = <<>> /\ DOMAIN NoneBound = Tables
        /\ \A table \in Tables : NoneBound[table] = <<>>
    BY DEF NoneBound
  <2>3. CASE bound' = bound BY <2>1, <2>3
  <2>4. CASE bound' = NoneBound
    <3>1. \A table \in Tables : Len(bound'[table]) <= 1
      <4>1. \A table \in Tables : bound'[table] = <<>> BY <2>2, <2>4
      <4> HIDE DEF Tables
      <4> QED BY <4>1
    <3>2. bound'.turns \in Seq(TurnRow) /\ bound'.scorecards \in Seq({}) BY <2>2, <2>4
    <3> QED BY <2>1, <2>2, <2>4, <3>1, <3>2
  <2> QED BY <2>1, <2>3, <2>4
<1> QED BY <1>2, <1>3, <1>4

(* The values bound are those of a row.                                     *)
LEMMA BoundIsRow ==
  ASSUME TalkTypeOK, bound.turns # <<>>
  PROVE  \E row \in TurnRow : bound.turns = <<row>>
<1>1. "turns" \in Tables /\ bound.turns \in Seq(TurnRow) /\ Len(bound.turns) <= 1
  BY DEF TalkTypeOK, CallsTypeOK, Tables
<1> QED BY <1>1, OneElement

(* Storing what is bound keeps the type of the table.                       *)
LEMMA StoredType ==
  ASSUME TalkTypeOK, turns' = turns \o bound.turns
  PROVE  turns' \in Seq(TurnRow)
<1>0. turns \in Seq(TurnRow) BY DEF TalkTypeOK
<1>1. CASE bound.turns = <<>>
  <2>1. turns \o <<>> \in Seq(TurnRow) BY <1>0
  <2> QED BY <1>1, <2>1
<1>2. CASE bound.turns # <<>>
  <2>1. PICK row \in TurnRow : bound.turns = <<row>> BY <1>2, BoundIsRow
  <2>2. turns' = turns \o <<row>> BY <2>1
  <2> QED BY <1>0, <2>2
<1> QED BY <1>1, <1>2

(* The row a thread binds is one of the table.                              *)
LEMMA SaidType ==
  ASSUME TalkTypeOK, NEW t \in Threads
  PROVE  Said(t) \in TurnRow
BY DEF TalkTypeOK, Said, TurnRow, Speakers

(* BindTurn binds what the thread has recorded in the flow.                 *)
LEMMA BindsSaid ==
  ASSUME NEW t \in Threads, BindTurn(t)
  PROVE  BindRow(t, "turns", Said(t)) /\ pc[t] \in Between
<1>1. CASE pc[t] = "heard" /\ BindRow(t, "turns", [role |-> "user", phase |-> label[t]])
  BY <1>1 DEF Said, Between
<1>2. CASE /\ pc[t] = "replied"
           /\ BindRow(t, "turns", [role |-> "assistant", phase |-> label[t]])
  BY <1>2 DEF Said, Between
<1> QED BY <1>1, <1>2 DEF BindTurn

(* A turn is stored by a thread between its two records.                    *)
LEMMA StoresTurn ==
  ASSUME NEW t \in Threads, StoreUser(t) \/ StoreReply(t)
  PROVE  /\ pc[t] \in Between
         /\ turns' = turns \o bound.turns /\ UNCHANGED <<label, transcript>>
         /\ \E failed \in BOOLEAN : Returns(t, failed)
         /\ \E l \in {"stored", "idle"} : Goto(t, l)
<1>1. PICK l \in {"stored", "idle"} : StoreTurn(t, l) /\ pc[t] \in Between
  BY DEF StoreUser, StoreReply, Between
<1>2. PICK failed \in BOOLEAN :
        Returns(t, failed) /\ Goto(t, IF failed THEN "idle" ELSE l)
  BY <1>1 DEF StoreTurn
<1>3. (IF failed THEN "idle" ELSE l) \in {"stored", "idle"} OBVIOUS
<1> QED BY <1>1, <1>2, <1>3 DEF StoreTurn

(* Every step of a message keeps the types of the conversation.             *)
LEMMA TalkType ==
  ASSUME TalkTypeOK, NEW t \in Threads,
         (\E n \in Nat : SendMessage(t, n)) \/ TalkStep(t)
  PROVE  TalkTypeOK'
<1>0. UNCHANGED callVars => CallsTypeOK(Threads, TurnRow, {})'
  BY DEF TalkTypeOK, CallsTypeOK, callVars
<1>1. CASE \E n \in Nat : SendMessage(t, n)
  BY <1>0, <1>1 DEF SendMessage, TalkTypeOK
<1>2. CASE HearUser(t) BY <1>0, <1>2 DEF HearUser, RecordTurn, Speakers, TalkTypeOK
<1>3. CASE BindTurn(t)
  <2>1. CallsTypeOK(Threads, TurnRow, {})'
    BY <1>3, BindsSaid, SaidType, CallType DEF TalkTypeOK
  <2> QED BY <1>3, <2>1 DEF BindTurn, TalkTypeOK
<1>4. CASE TurnRefused(t)
  <2>1. CallsTypeOK(Threads, TurnRow, {})'
    BY <1>4, CallType DEF TurnRefused, TalkTypeOK
  <2> QED BY <1>4, <2>1 DEF TurnRefused, TalkTypeOK
<1>5. CASE StoreUser(t) \/ StoreReply(t)
  <2>1. CallsTypeOK(Threads, TurnRow, {})'
    BY <1>5, StoresTurn, CallType DEF TalkTypeOK
  <2> QED BY <1>5, <2>1, StoresTurn, StoredType DEF TalkTypeOK
<1>6. CASE ReplyFails(t) BY <1>0, <1>6 DEF ReplyFails, talkVars, TalkTypeOK
<1>7. CASE HearReply(t) BY <1>0, <1>7 DEF HearReply, RecordTurn, Speakers, TalkTypeOK
<1> QED BY <1>1, <1>2, <1>3, <1>4, <1>5, <1>6, <1>7 DEF TalkStep

(* ... and the places a thread of a message can be in.                      *)
LEMMA TalkPlace ==
  ASSUME NEW D, TalkPlaces \subseteq D, pc \in [Threads -> D], NEW t \in Threads,
         (\E n \in Nat : SendMessage(t, n)) \/ TalkStep(t)
  PROVE  /\ pc' \in [Threads -> D]
         /\ pc[t] \in TalkPlaces /\ \E l \in TalkPlaces : Goto(t, l)
<1>1. \E l \in TalkPlaces : pc[t] \in TalkPlaces /\ Goto(t, l)
  <2>1. CASE StoreUser(t) \/ StoreReply(t)
    BY <2>1, StoresTurn DEF Between, TalkPlaces
  <2>2. CASE ~(StoreUser(t) \/ StoreReply(t))
    BY <2>2 DEF TalkStep, SendMessage, HearUser, BindTurn, TurnRefused, ReplyFails,
           HearReply, TalkPlaces
  <2> QED BY <2>1, <2>2
<1>2. ASSUME NEW l \in TalkPlaces, Goto(t, l) PROVE pc' \in [Threads -> D]
  BY <1>2 DEF Goto
<1> QED BY <1>1, <1>2

(* One thread at most is busy while the user waits.                         *)
LEMMA TalkOneBusy ==
  ASSUME OneBusyTalk, NEW D, pc \in [Threads -> D], NEW t \in Threads, NEW l, Goto(t, l)
  PROVE  /\ OneBusyTalk'
         /\ waited' /\ pc[t] # "idle" => \A s \in Threads \ {t} : pc[s] = "idle"
<1>1. pc'[t] = l /\ \A s \in Threads \ {t} : pc'[s] = pc[s] BY DEF Goto
<1>2. SUFFICES ASSUME waited'
               PROVE  /\ \A s, u \in Threads : pc'[s] # "idle" /\ pc'[u] # "idle" => s = u
                      /\ pc[t] # "idle" => \A s \in Threads \ {t} : pc[s] = "idle"
  BY DEF OneBusyTalk
<1>3. waited /\ (l = "idle" \/ \A s \in Threads \ {t} : pc[s] = "idle")
  BY <1>2 DEF Goto
<1>4. \A s, u \in Threads : pc[s] # "idle" /\ pc[u] # "idle" => s = u
  BY <1>3 DEF OneBusyTalk
<1> QED BY <1>1, <1>3, <1>4

(* A step that calls no store leaves the calls as they are.                 *)
LEMMA CallFrame ==
  ASSUME CallInv, NEW D, pc \in [Threads -> D], NEW t \in Threads, NEW l, Goto(t, l),
         UNCHANGED callVars, pc[t] \notin Between,
         \A s \in Threads \ {t} : label'[s] = label[s]
  PROVE  CallInv'
<1>1. \A s \in Threads \ {t} : pc'[s] = pc[s] /\ Said(s)' = Said(s)
  BY DEF Goto, Said
<1>2. call[t] = "none" BY DEF CallInv
<1>3. waited' => waited BY DEF Goto
<1>4. call' = call /\ bound' = bound /\ overlapped' = overlapped BY DEF callVars
<1> QED BY <1>1, <1>2, <1>3, <1>4 DEF CallInv

(* A call of the store begins, is refused, or ends: while the user waits it *)
(* meets no other.                                                          *)
LEMMA CallAlone ==
  ASSUME TalkTypeOK, TalkInv, NEW D, pc \in [Threads -> D], NEW t \in Threads, NEW l,
         Goto(t, l), waited', pc[t] # "idle"
  PROVE  Others(t) = {} /\ overlapped = {}
<1>1. \A s \in Threads \ {t} : pc[s] = "idle" BY TalkOneBusy DEF TalkInv
<1>2. \A s \in Threads \ {t} : call[s] = "none"
  BY <1>1 DEF TalkInv, CallInv, Between
<1>3. DOMAIN call = Threads BY DEF TalkTypeOK, CallsTypeOK
<1>4. waited BY DEF Goto
<1> QED BY <1>2, <1>3, <1>4 DEF Others, TalkInv, CallInv

(* What holds of the calls once thread t has bound its row ...              *)
LEMMA CallBinds ==
  ASSUME TalkTypeOK, TalkInv, NEW D, pc \in [Threads -> D], NEW t \in Threads,
         BindTurn(t)
  PROVE  CallInv'
<1>1. /\ BindRow(t, "turns", Said(t)) /\ pc[t] \in Between
      /\ Goto(t, pc[t]) /\ label' = label
  BY BindsSaid DEF BindTurn
<1>2. pc' = pc BY <1>1 DEF Goto
<1>3. \A s \in Threads : Said(s)' = Said(s) BY <1>1, <1>2 DEF Said
<1>4. /\ call \in [Threads -> {"none", "alone", "crossed"}] /\ DOMAIN bound = Tables
      /\ overlapped \subseteq Threads
  BY DEF TalkTypeOK, CallsTypeOK
<1>5. bound'.turns = <<Said(t)>> BY <1>1, <1>4 DEF BindRow, Tables
<1>6. waited' => overlapped' = {}
  <2> SUFFICES ASSUME waited' PROVE overlapped' = {} OBVIOUS
  <2>1. Others(t) = {} /\ overlapped = {} BY <1>1, CallAlone DEF Between
  <2> QED BY <1>1, <2>1 DEF BindRow, Meets
<1>7. CASE Others(t) = {}
  <2>1. /\ \A s \in Threads \ {t} : call[s] = "none" /\ call'[s] = "none"
        /\ call'[t] = "alone" /\ overlapped' = overlapped
    BY <1>1, <1>4, <1>7 DEF BindRow, Meets, Others
  <2> QED BY <1>1, <1>2, <1>3, <1>5, <1>6, <2>1 DEF TalkInv, CallInv
<1>8. CASE Others(t) # {}
  <2>1. /\ overlapped' # {} /\ call'[t] = "crossed"
        /\ \A s \in Threads \ {t} : call'[s] # "none" => call[s] # "none"
    BY <1>1, <1>4, <1>8 DEF BindRow, Meets, Others
  <2> QED BY <1>1, <1>2, <1>3, <1>5, <1>6, <2>1 DEF TalkInv, CallInv
<1> QED BY <1>7, <1>8

(* ... has been refused ...                                                 *)
LEMMA CallRefused ==
  ASSUME TalkTypeOK, TalkInv, NEW D, pc \in [Threads -> D], NEW t \in Threads,
         TurnRefused(t)
  PROVE  CallInv' /\ overlapped' # {}
<1>1. /\ Refused(t) /\ Goto(t, "idle") /\ pc[t] \in Between /\ label' = label
  BY DEF TurnRefused, Between
<1>2. /\ call \in [Threads -> {"none", "alone", "crossed"}]
      /\ overlapped \subseteq Threads
  BY DEF TalkTypeOK, CallsTypeOK
<1>3. /\ call[t] = "none" /\ call'[t] = "none" /\ overlapped' # {} /\ bound' = bound
      /\ \A s \in Threads \ {t} : call'[s] # "none" => call[s] # "none"
  BY <1>1, <1>2 DEF Refused, Meets, Others
<1>4. \A s \in Threads \ {t} : pc'[s] = pc[s] BY <1>1 DEF Goto
<1>5. ~waited'
  BY <1>1, CallAlone DEF Refused, Between
<1> QED BY <1>3, <1>4, <1>5 DEF TalkInv, CallInv

(* ... or has stored a row.                                                 *)
LEMMA CallReturns ==
  ASSUME TalkTypeOK, TalkInv, NEW D, pc \in [Threads -> D], NEW t \in Threads,
         NEW failed \in BOOLEAN, Returns(t, failed), NEW l, Goto(t, l),
         pc[t] \in Between, label' = label
  PROVE  /\ CallInv'
         /\ \E row \in TurnRow :
              /\ bound.turns = <<row>>
              /\ overlapped' = {} => row = Said(t)
<1>1. /\ call \in [Threads -> {"none", "alone", "crossed"}] /\ DOMAIN call = Threads
  BY DEF TalkTypeOK, CallsTypeOK
<1>2. /\ call[t] # "none" /\ call'[t] = "none" /\ overlapped' = overlapped
      /\ \A s \in Threads \ {t} : call'[s] = call[s]
      /\ Others(t) # {} => bound' = bound
  BY <1>1 DEF Returns
<1>3. \A s \in Threads \ {t} : call[s] # "none" => bound' = bound
  BY <1>1, <1>2 DEF Others
<1>4. \A s \in Threads \ {t} : pc'[s] = pc[s] /\ Said(s)' = Said(s)
  BY DEF Goto, Said
<1>5. waited' => waited BY DEF Goto
<1>6. \A s \in Threads : call'[s] # "none" => s # t BY <1>2
<1>7. CallInv'
  BY <1>2, <1>3, <1>4, <1>5, <1>6 DEF TalkInv, CallInv
<1>8. bound.turns # <<>> /\ (overlapped = {} => bound.turns = <<Said(t)>>)
  BY <1>2 DEF TalkInv, CallInv
<1>9. PICK row \in TurnRow : bound.turns = <<row>> BY <1>8, BoundIsRow
<1>10. overlapped' = {} => row = Said(t) BY <1>2, <1>8, <1>9
<1> QED BY <1>7, <1>9, <1>10

(* The roles in the table once another row is there.                        *)
LEMMA RolesGrow ==
  ASSUME turns \in Seq(TurnRow), NEW row \in TurnRow, turns' = turns \o <<row>>
  PROVE  Roles' = Append(Roles, row.role) /\ Len(turns') = Len(turns) + 1
<1>1. /\ Len(turns') = Len(turns) + 1 /\ turns'[Len(turns) + 1] = row
      /\ \A k \in 1 .. Len(turns) : turns'[k] = turns[k]
  OBVIOUS
<1>2. Len(Roles) = Len(turns) BY DEF Roles
<1>3. Append(Roles, row.role) = [k \in 1 .. Len(turns) + 1 |->
        IF k = Len(turns) + 1 THEN row.role ELSE turns[k].role]
  BY <1>2 DEF Roles
<1> QED BY <1>1, <1>3 DEF Roles

(* A step between two messages or inside one that stores nothing.           *)
LEMMA SpokenFrame ==
  ASSUME TalkInv, NEW D, pc \in [Threads -> D], NEW t \in Threads, NEW l, Goto(t, l),
         UNCHANGED <<turns, transcript>>, pc[t] \notin Between, l \notin Between
  PROVE  SpokenInv'
<1>1. waited' => waited BY DEF Goto
<1>2. \A s \in Threads : pc'[s] \in Between <=> pc[s] \in Between
  BY DEF Goto
<1>3. \A s \in Threads : pc[s] \in Between => Said(s)'.role = Said(s).role
  BY DEF Goto, Said
<1>4. Roles' = Roles BY DEF Roles
<1> QED BY <1>1, <1>2, <1>3, <1>4 DEF TalkInv, SpokenInv

(* A turn joins the transcript of a user who waits ...                      *)
LEMMA SpokenHears ==
  ASSUME TalkInv, NEW D, pc \in [Threads -> D], NEW t \in Threads,
         NEW l \in Between, Goto(t, l), pc[t] \notin Between \cup {"idle"},
         transcript' = Append(transcript, IF l = "heard" THEN "user" ELSE "assistant"),
         turns' = turns
  PROVE  SpokenInv'
<1> SUFFICES ASSUME waited' PROVE SpokenInv' BY DEF SpokenInv
<1>1. waited /\ \A s \in Threads \ {t} : pc[s] = "idle"
  BY TalkOneBusy DEF TalkInv, Goto
<1>2. pc'[t] = l /\ \A s \in Threads \ {t} : pc'[s] = "idle" BY <1>1 DEF Goto
<1>3. Roles = transcript BY <1>1 DEF TalkInv, SpokenInv, Between
<1>4. Said(t)'.role = IF l = "heard" THEN "user" ELSE "assistant"
  BY <1>2 DEF Said
<1>5. Roles' = Roles BY DEF Roles
<1>6. transcript' = Append(Roles', Said(t)'.role) BY <1>3, <1>4, <1>5
<1>7. \A s \in Threads : pc'[s] \in Between => s = t BY <1>2 DEF Between
<1> QED BY <1>2, <1>6, <1>7 DEF SpokenInv

(* ... and then the table.                                                  *)
LEMMA SpokenStores ==
  ASSUME TalkTypeOK, TalkInv, NEW D, pc \in [Threads -> D], NEW t \in Threads,
         NEW l, l \notin Between, Goto(t, l), pc[t] \in Between,
         turns' = turns \o <<Said(t)>>, transcript' = transcript
  PROVE  SpokenInv'
<1> SUFFICES ASSUME waited' PROVE SpokenInv' BY DEF SpokenInv
<1>0. pc[t] # "idle" BY DEF Between
<1>1. waited /\ \A s \in Threads \ {t} : pc[s] = "idle"
  BY <1>0, TalkOneBusy DEF TalkInv, Goto
<1>2. \A s \in Threads : pc'[s] \notin Between BY <1>1 DEF Goto, Between
<1>3. transcript = Append(Roles, Said(t).role) BY <1>1 DEF TalkInv, SpokenInv
<1>4. Roles' = Append(Roles, Said(t).role)
  BY SaidType, RolesGrow DEF TalkTypeOK
<1> QED BY <1>2, <1>3, <1>4 DEF SpokenInv

(* Every step of a message keeps the table and the transcript together.     *)
LEMMA TalkKept ==
  ASSUME TalkTypeOK, TalkInv, NEW D, pc \in [Threads -> D], NEW t \in Threads,
         (\E n \in Nat : SendMessage(t, n)) \/ TalkStep(t)
  PROVE  TalkInv'
<1> DEFINE c == Cardinality(At(Between))
<1>0. /\ c \in Nat /\ Len(turns) \in Nat /\ Len(transcript) \in Nat
      /\ turns \in Seq(TurnRow) /\ transcript \in Seq(Speakers)
      /\ label \in [Threads -> Nat]
  BY AtFinite DEF TalkTypeOK
<1>a. ASSUME NEW l, l \notin Between, Goto(t, l), pc[t] \notin Between,
             \A s \in Threads \ {t} : label'[s] = label[s],
             UNCHANGED <<turns, transcript, callVars>>
      PROVE  TalkInv'
  <2>1. c' = c BY <1>a, AtStay
  <2>2. overlapped' = overlapped BY <1>a DEF callVars
  <2>3. LengthInv' BY <1>a, <2>1, <2>2 DEF TalkInv, LengthInv
  <2>4. CallInv' BY <1>a, CallFrame DEF TalkInv
  <2>5. SpokenInv' BY <1>a, SpokenFrame
  <2>6. OneBusyTalk' BY <1>a, TalkOneBusy DEF TalkInv
  <2> QED BY <2>3, <2>4, <2>5, <2>6 DEF TalkInv
<1>b. ASSUME NEW l \in Between, Goto(t, l), pc[t] \notin Between \cup {"idle"},
             transcript' = Append(transcript, IF l = "heard" THEN "user" ELSE "assistant"),
             UNCHANGED <<label, turns, callVars>>
      PROVE  TalkInv'
  <2>1. c' = c + 1 BY <1>b, AtEnter
  <2>2. overlapped' = overlapped /\ turns' = turns BY <1>b DEF callVars
  <2>3. Len(transcript') = Len(transcript) + 1 BY <1>b, <1>0
  <2>4. LengthInv' BY <1>0, <2>1, <2>2, <2>3 DEF TalkInv, LengthInv
  <2>5. CallInv' BY <1>b, CallFrame DEF TalkInv
  <2>6. SpokenInv' BY <1>b, SpokenHears
  <2>7. OneBusyTalk' BY <1>b, TalkOneBusy DEF TalkInv
  <2> QED BY <2>4, <2>5, <2>6, <2>7 DEF TalkInv
<1>1. CASE \E n \in Nat : SendMessage(t, n)
  <2>1. Goto(t, "labelled") /\ pc[t] = "idle" BY <1>1 DEF SendMessage
  <2>2. \A s \in Threads \ {t} : label'[s] = label[s] BY <1>0, <1>1 DEF SendMessage
  <2> QED BY <1>1, <1>a, <2>1, <2>2 DEF SendMessage, Between
<1>2. CASE HearUser(t)
  <2>1. Goto(t, "heard") /\ pc[t] = "labelled" BY <1>2 DEF HearUser
  <2> QED BY <1>2, <1>b, <2>1 DEF HearUser, RecordTurn, Between
<1>3. CASE BindTurn(t)
  <2>1. Goto(t, pc[t]) /\ pc[t] \in Between /\ UNCHANGED <<label, turns, transcript>>
    BY <1>3, BindsSaid DEF BindTurn
  <2>2. pc' = pc BY <2>1 DEF Goto
  <2>3. CallInv' BY <1>3, CallBinds
  <2>4. c' = c BY <2>2 DEF At
  <2>5. overlapped' = {} => overlapped = {}
    <3>1. overlapped \subseteq overlapped'
      BY <1>3, BindsSaid DEF BindRow, Meets
    <3> QED BY <3>1
  <2>6. LengthInv' BY <2>1, <2>4, <2>5 DEF TalkInv, LengthInv
  <2>7. waited' => waited BY <2>1 DEF Goto
  <2>8. Roles' = Roles /\ \A s \in Threads : Said(s)' = Said(s)
    BY <2>1, <2>2 DEF Roles, Said
  <2>9. SpokenInv' BY <2>1, <2>2, <2>7, <2>8 DEF TalkInv, SpokenInv
  <2>10. OneBusyTalk' BY <2>1, TalkOneBusy DEF TalkInv
  <2> QED BY <2>3, <2>6, <2>9, <2>10 DEF TalkInv
<1>4. CASE TurnRefused(t)
  <2>1. /\ Goto(t, "idle") /\ pc[t] \in Between /\ UNCHANGED <<turns, transcript>>
        /\ Refused(t)
    BY <1>4 DEF TurnRefused, Between
  <2>2. CallInv' /\ overlapped' # {} BY <1>4, CallRefused
  <2>3. c' = c - 1 BY <2>1, AtLeave DEF Between
  <2>4. LengthInv' BY <1>0, <2>1, <2>2, <2>3 DEF TalkInv, LengthInv
  <2>5. SpokenInv' BY <2>2 DEF CallInv, SpokenInv
  <2>6. OneBusyTalk' BY <2>1, TalkOneBusy DEF TalkInv
  <2> QED BY <2>2, <2>4, <2>5, <2>6 DEF TalkInv
<1>5. CASE StoreUser(t) \/ StoreReply(t)
  <2>1. /\ pc[t] \in Between /\ turns' = turns \o bound.turns
        /\ label' = label /\ transcript' = transcript
    BY <1>5, StoresTurn
  <2>2. PICK failed \in BOOLEAN : Returns(t, failed) BY <1>5, StoresTurn
  <2>3. PICK l \in {"stored", "idle"} : Goto(t, l) BY <1>5, StoresTurn
  <2>4. l \notin Between BY DEF Between
  <2>5. PICK row \in TurnRow :
          bound.turns = <<row>> /\ (overlapped' = {} => row = Said(t))
    BY <2>1, <2>2, <2>3, CallReturns
  <2>6. CallInv' BY <2>1, <2>2, <2>3, CallReturns
  <2>7. turns' = turns \o <<row>> BY <2>1, <2>5
  <2>8. Len(turns') = Len(turns) + 1 BY <1>0, <2>7, RolesGrow
  <2>9. c' = c - 1 BY <2>1, <2>3, <2>4, AtLeave
  <2>10. overlapped' = overlapped BY <2>2 DEF Returns
  <2>11. LengthInv' BY <1>0, <2>1, <2>8, <2>9, <2>10 DEF TalkInv, LengthInv
  <2>12. OneBusyTalk' BY <2>3, TalkOneBusy DEF TalkInv
  <2>13. SpokenInv'
    <3>1. CASE waited'
      <4>1. row = Said(t) BY <2>5, <2>6, <3>1 DEF CallInv
      <4> QED BY <2>1, <2>3, <2>4, <2>7, <4>1, SpokenStores
    <3>2. CASE ~waited' BY <3>2 DEF SpokenInv
    <3> QED BY <3>1, <3>2
  <2> QED BY <2>6, <2>11, <2>12, <2>13 DEF TalkInv
<1>6. CASE ReplyFails(t)
  <2>1. Goto(t, "idle") /\ pc[t] = "stored" BY <1>6 DEF ReplyFails
  <2> QED BY <1>6, <1>a, <2>1 DEF ReplyFails, talkVars, Between
<1>7. CASE HearReply(t)
  <2>1. Goto(t, "replied") /\ pc[t] = "stored" BY <1>7 DEF HearReply
  <2> QED BY <1>7, <1>b, <2>1 DEF HearReply, RecordTurn, Between
<1> QED BY <1>1, <1>2, <1>3, <1>4, <1>5, <1>6, <1>7 DEF TalkStep

(* A step of another kind, which leaves the conversation alone and moves    *)
(* its thread outside the places of a message.                              *)
LEMMA TalkSilent ==
  ASSUME TalkTypeOK, TalkInv, NEW D, pc \in [Threads -> D], NEW t \in Threads, NEW l,
         UNCHANGED talkVars, Goto(t, l), pc[t] \notin Between, l \notin Between
  PROVE  TalkTypeOK' /\ TalkInv'
<1>1. Cardinality(At(Between)') = Cardinality(At(Between)) BY AtStay
<1>2. UNCHANGED <<label, turns, transcript, callVars>> /\ overlapped' = overlapped
  BY DEF talkVars, callVars
<1>3. CallInv' BY <1>2, CallFrame DEF TalkInv
<1>4. SpokenInv' BY <1>2, SpokenFrame
<1>5. OneBusyTalk' BY TalkOneBusy DEF TalkInv
<1>6. LengthInv' BY <1>1, <1>2 DEF TalkInv, LengthInv
<1>7. TalkTypeOK' BY <1>2 DEF TalkTypeOK, CallsTypeOK, callVars
<1> QED BY <1>3, <1>4, <1>5, <1>6, <1>7 DEF TalkInv

(* A step of nobody.                                                        *)
LEMMA TalkStutter ==
  ASSUME TalkInv, UNCHANGED <<pc, talkVars, waited>>
  PROVE  TalkInv'
<1>1. UNCHANGED <<pc, waited, label, turns, transcript, call, bound, overlapped>>
  BY DEF talkVars, callVars
<1>2. Roles' = Roles /\ At(Between)' = At(Between)
      /\ \A t \in Threads : Said(t)' = Said(t)
  BY <1>1 DEF Roles, At, Said
<1> QED BY <1>1, <1>2 DEF TalkInv, OneBusyTalk, CallInv, LengthInv, SpokenInv

(* When no thread is under way, none is between the two calls.              *)
LEMMA TalkQuiet == TalkTypeOK /\ TalkInv => ConversationStored
<1> SUFFICES ASSUME TalkTypeOK, TalkInv PROVE ConversationStored OBVIOUS
<1>1. /\ Len(turns) \in Nat /\ Len(transcript) \in Nat
      /\ Cardinality(At(Between)) \in Nat
  BY AtFinite DEF TalkTypeOK
<1>2. Len(turns) <= Len(transcript) BY <1>1 DEF TalkInv, LengthInv
<1>3. ASSUME Quiet
      PROVE  /\ overlapped = {} => Len(turns) = Len(transcript)
             /\ waited => [k \in 1 .. Len(turns) |-> turns[k].role] = transcript
  <2>1. At(Between) = {} /\ \A t \in Threads : pc[t] \notin Between
    BY <1>3 DEF Quiet, At, Between
  <2>2. overlapped = {} => Len(turns) = Len(transcript)
    BY <1>1, <2>1, FS_EmptySet DEF TalkInv, LengthInv
  <2>3. waited => Roles = transcript BY <2>1 DEF TalkInv, SpokenInv
  <2> QED BY <2>2, <2>3 DEF Roles
<1> QED BY <1>2, <1>3 DEF ConversationStored

-----------------------------------------------------------------------------
(* The lesson session.                                                      *)

(* The item a thread grades is one of the quiz.                             *)
TypeInv ==
  /\ TypeOK
  /\ \A t \in Threads : pc[t] = "grading" => loc[t].item \in 0 .. NQuiz - 1

(* The locals of a thread are set one at a time.                            *)
LEMMA LocalUpdate ==
  ASSUME NEW l \in Locals, NEW n \in 0 .. NQuiz, NEW b \in BOOLEAN
  PROVE  /\ [l EXCEPT !.seen = n] \in Locals
         /\ [l EXCEPT !.item = n] \in Locals
         /\ [l EXCEPT !.more = b] \in Locals
BY DEF Locals

(* A thread that has not started has locals of the right type.              *)
LEMMA FreshLocals == Fresh \in Locals
BY LessonAssumption DEF Fresh, Locals

(* The types hold at the start.                                             *)
LEMMA TypeInit == Init => TypeInv
<1> SUFFICES ASSUME Init PROVE TypeInv OBVIOUS
<1>1. loc \in [Threads -> Locals] BY FreshLocals DEF Init
<1>2. TalkTypeOK BY TalkTypeInit DEF Init
<1>3. LessonTypeOK
  <2>1. /\ freeForm \subseteq 0 .. NQuiz - 1
        /\ section \in Nat /\ question \in Nat /\ correct \in Nat
    BY DEF Init, LessonInit
  <2>2. answers \in Seq(AnswerRow) BY DEF Init, LessonInit
  <2>3. stage \in {Teaching, Quiz, Complete} /\ ended \in BOOLEAN
    BY DEF Init, LessonInit
  <2> QED BY <2>1, <2>2, <2>3 DEF LessonTypeOK
<1>4. page \in [stage : {Teaching, Quiz, Complete}, question : 0 .. NQuiz]
  BY LessonAssumption DEF Init
<1>5. pc = [t \in Threads |-> "idle"] BY DEF Init, TalkInit
<1>6. waited \in BOOLEAN BY DEF Init, TalkInit
<1> QED BY <1>1, <1>2, <1>3, <1>4, <1>5, <1>6
        DEF TypeInv, TypeOK, Places, TalkPlaces

(* The end of a request, whatever it has done to the flow.                  *)
LEMMA RespondType ==
  ASSUME TypeInv, NEW t \in Threads, Respond(t), LessonTypeOK', UNCHANGED talkVars
  PROVE  TypeInv'
<1>1. pc' \in [Threads -> Places] /\ \A s \in Threads \ {t} : pc'[s] = pc[s]
  BY DEF Respond, Goto, TypeInv, TypeOK, Places, TalkPlaces
<1>2. pc'[t] = "idle" BY DEF Respond, Goto, TypeInv, TypeOK
<1>3. loc' \in [Threads -> Locals] /\ \A s \in Threads \ {t} : loc'[s] = loc[s]
  BY FreshLocals DEF Respond, TypeInv, TypeOK
<1>4. page' \in [stage : {Teaching, Quiz, Complete}, question : 0 .. NQuiz]
  <2>1. CASE page' = page BY <2>1 DEF TypeInv, TypeOK
  <2>2. CASE page' # page
    <3>1. /\ page' = [stage |-> stage', question |-> IF stage' = Quiz THEN question' ELSE 0]
          /\ ~(stage' = Quiz /\ question' >= NQuiz)
      BY <2>2 DEF Respond
    <3>2. (IF stage' = Quiz THEN question' ELSE 0) \in 0 .. NQuiz
      BY <3>1, LessonAssumption DEF LessonTypeOK
    <3> QED BY <3>1, <3>2 DEF LessonTypeOK
  <2> QED BY <2>1, <2>2
<1>5. TalkTypeOK' BY DEF TypeInv, TypeOK, TalkTypeOK, CallsTypeOK, talkVars, callVars
<1>6. waited' \in BOOLEAN BY WaitedType DEF Respond, TypeInv, TypeOK
<1> QED BY <1>1, <1>2, <1>3, <1>4, <1>5, <1>6 DEF TypeInv, TypeOK

(* A request that fails.                                                    *)
LEMMA FailType ==
  ASSUME TypeInv, NEW t \in Threads, Fail(t), UNCHANGED talkVars
  PROVE  TypeInv'
<1>1. pc' \in [Threads -> Places] /\ \A s \in Threads \ {t} : pc'[s] = pc[s]
  BY DEF Fail, Goto, TypeInv, TypeOK, Places, TalkPlaces
<1>2. pc'[t] = "idle" BY DEF Fail, Goto, TypeInv, TypeOK
<1>3. loc' \in [Threads -> Locals] /\ \A s \in Threads \ {t} : loc'[s] = loc[s]
  BY FreshLocals DEF Fail, TypeInv, TypeOK
<1>4. LessonTypeOK' /\ TalkTypeOK' /\ page' = page
  BY DEF Fail, TypeInv, TypeOK, TalkTypeOK, CallsTypeOK, talkVars, callVars,
         LessonTypeOK, lessonVars
<1>5. waited' \in BOOLEAN BY WaitedType DEF Fail, TypeInv, TypeOK
<1> QED BY <1>1, <1>2, <1>3, <1>4, <1>5 DEF TypeInv, TypeOK

(* A step inside a request that sets a local.                               *)
LEMMA StepType ==
  ASSUME TypeInv, NEW t \in Threads, NEW l \in Places, Goto(t, l),
         NEW x \in Locals, loc' = [loc EXCEPT ![t] = x],
         l = "grading" => x.item \in 0 .. NQuiz - 1,
         UNCHANGED <<lessonVars, page, talkVars>>
  PROVE  TypeInv'
<1>1. pc' \in [Threads -> Places] /\ pc'[t] = l
      /\ \A s \in Threads \ {t} : pc'[s] = pc[s]
  BY DEF Goto, TypeInv, TypeOK
<1>2. loc' \in [Threads -> Locals] /\ loc'[t] = x
      /\ \A s \in Threads \ {t} : loc'[s] = loc[s]
  BY DEF TypeInv, TypeOK
<1>3. LessonTypeOK' /\ TalkTypeOK' /\ page' = page
  BY DEF TypeInv, TypeOK, TalkTypeOK, CallsTypeOK, talkVars, callVars, LessonTypeOK,
         lessonVars
<1>4. waited' \in BOOLEAN BY WaitedType DEF TypeInv, TypeOK
<1> QED BY <1>1, <1>2, <1>3, <1>4 DEF TypeInv, TypeOK

(* The counters keep their types.                                           *)
LEMMA CountType ==
  ASSUME LessonTypeOK, NEW i \in 0 .. NQuiz - 1, NEW s \in 0 .. NQuiz,
         NEW b \in BOOLEAN, CountAnswer(i, s, b)
  PROVE  LessonTypeOK'
<1>1. [item |-> i, seen |-> s, right |-> b]
        \in AnswerRow
  BY DEF AnswerRow
<1> QED BY <1>1 DEF CountAnswer, LessonTypeOK

(* The actions of act keep the types.                                       *)
LEMMA ActType ==
  ASSUME TypeInv, NEW t \in Threads, ActStep(t)
  PROVE  TypeInv'
<1>0. /\ LessonTypeOK /\ loc \in [Threads -> Locals] /\ loc[t] \in Locals
      /\ loc = [loc EXCEPT ![t] = loc[t]]
      /\ page \in [stage : {Teaching, Quiz, Complete}, question : 0 .. NQuiz]
  BY DEF TypeInv, TypeOK
<1>a. UNCHANGED lessonVars => LessonTypeOK' BY <1>0 DEF LessonTypeOK, lessonVars
<1>1. CASE Advance(t)
  <2>1. CASE stage = Teaching
    BY <1>0, <1>1, <2>1, StepType DEF Advance, Places
  <2>2. CASE stage # Teaching BY <1>a, <1>1, <2>2, RespondType DEF Advance
  <2> QED BY <2>1, <2>2
<1>2. CASE CompareSection(t)
  <2>1. CASE stage = Teaching
    <3>0. MoreSections \in BOOLEAN BY DEF MoreSections
    <3>1. [loc[t] EXCEPT !.more = MoreSections] \in Locals
      <4>1. 0 \in 0 .. NQuiz BY LessonAssumption
      <4> QED BY <1>0, <3>0, <4>1, LocalUpdate, Zenon
    <3>2. /\ loc' = [loc EXCEPT ![t] = [loc[t] EXCEPT !.more = MoreSections]]
          /\ Goto(t, "moving") /\ UNCHANGED <<lessonVars, page, talkVars>>
      BY <1>2, <2>1 DEF CompareSection
    <3>3. "moving" \in Places /\ "moving" # "grading" BY DEF Places
    <3> QED BY <3>1, <3>2, <3>3, StepType
  <2>2. CASE stage # Teaching BY <1>2, <2>2, FailType DEF CompareSection
  <2> QED BY <2>1, <2>2
<1>3. CASE LeaveSection(t)
  <2>1. OpenSection => LessonTypeOK' BY <1>0 DEF OpenSection, LessonTypeOK
  <2>2. CloseTeaching => LessonTypeOK' BY <1>0 DEF CloseTeaching, LessonTypeOK
  <2>3. Respond(t) /\ UNCHANGED talkVars /\ (OpenSection \/ CloseTeaching)
    BY <1>3 DEF LeaveSection
  <2> QED BY <2>1, <2>2, <2>3, RespondType
<1>4. CASE Answer(t)
  <2>1. CASE stage = Quiz
    <3>1. [loc[t] EXCEPT !.seen = page.question] \in Locals
      BY <1>0, LocalUpdate
    <3>2. /\ loc' = [loc EXCEPT ![t] = [loc[t] EXCEPT !.seen = page.question]]
          /\ Goto(t, "answering") /\ UNCHANGED <<lessonVars, page, talkVars>>
      BY <1>4, <2>1 DEF Answer
    <3>3. "answering" \in Places /\ "answering" # "grading" BY DEF Places
    <3> QED BY <3>1, <3>2, <3>3, StepType
  <2>2. CASE stage # Quiz BY <1>a, <1>4, <2>2, RespondType DEF Answer
  <2> QED BY <2>1, <2>2
<1>5. CASE ReadQuestion(t)
  <2>1. CASE Asking
    BY <1>0, <1>5, <2>1, StepType DEF ReadQuestion, Places
  <2>2. CASE ~Asking BY <1>5, <2>2, FailType DEF ReadQuestion
  <2> QED BY <2>1, <2>2
<1>6. CASE TakeItem(t)
  <2>1. CASE Asking
    <3>0. question \in 0 .. NQuiz - 1 /\ question \in 0 .. NQuiz
      BY <1>0, <2>1, LessonAssumption DEF Asking, LessonTypeOK
    <3>1. [loc[t] EXCEPT !.item = question] \in Locals
      BY <1>0, <3>0, LocalUpdate
    <3>2. /\ loc' = [loc EXCEPT ![t] = [loc[t] EXCEPT !.item = question]]
          /\ Goto(t, "grading") /\ UNCHANGED <<lessonVars, page, talkVars>>
      BY <1>6, <2>1 DEF TakeItem
    <3>3. [loc[t] EXCEPT !.item = question].item = question BY <1>0 DEF Locals
    <3>4. "grading" \in Places BY DEF Places
    <3> QED BY <3>0, <3>1, <3>2, <3>3, <3>4, StepType
  <2>2. CASE ~Asking BY <1>6, <2>2, FailType DEF TakeItem
  <2> QED BY <2>1, <2>2
<1>7. CASE NoGrader(t) BY <1>7, FailType DEF NoGrader
<1>8. CASE Grade(t)
  <2>1. PICK b \in BOOLEAN : CountAnswer(loc[t].item, loc[t].seen, b)
    BY <1>8 DEF Grade
  <2>2. loc[t].item \in 0 .. NQuiz - 1 /\ loc[t].seen \in 0 .. NQuiz
    BY <1>0, <1>8 DEF Grade, TypeInv, Locals
  <2>3. LessonTypeOK' BY <1>0, <2>1, <2>2, CountType
  <2>4. CASE LastQuestion
    <3>1. Goto(t, "finishing") /\ UNCHANGED <<page, loc, talkVars>>
      BY <1>8, <2>4 DEF Grade
    <3>2. pc' \in [Threads -> Places]
      BY <3>1 DEF Goto, TypeInv, TypeOK, Places
    <3>3. \A s \in Threads : pc'[s] = "grading" => pc[s] = "grading"
      BY <3>1 DEF Goto, TypeInv, TypeOK
    <3>4. waited' \in BOOLEAN BY <3>1, WaitedType DEF TypeInv, TypeOK
    <3> QED BY <2>3, <3>1, <3>2, <3>3, <3>4
            DEF TypeInv, TypeOK, TalkTypeOK, CallsTypeOK, talkVars, callVars
  <2>5. CASE ~LastQuestion BY <1>8, <2>3, <2>5, RespondType DEF Grade
  <2> QED BY <2>4, <2>5
<1>9. CASE FinishQuiz(t)
  <2>1. LessonTypeOK' BY <1>0, <1>9 DEF FinishQuiz, Finish, LessonTypeOK
  <2> QED BY <1>9, <2>1, RespondType DEF FinishQuiz
<1> QED BY <1>1, <1>2, <1>3, <1>4, <1>5, <1>6, <1>7, <1>8, <1>9 DEF ActStep

(* A message begins with the flow's stage.                                  *)
LEMMA MessageTalks ==
  ASSUME TypeOK, NEW t \in Threads, Message(t)
  PROVE  (\E n \in Nat : SendMessage(t, n)) \/ TalkStep(t)
<1>1. stage \in Nat BY DEF TypeOK, LessonTypeOK, Teaching, Quiz, Complete
<1> QED BY <1>1 DEF Message

(* It moves its thread among the places of a message.                       *)
LEMMA MessagePlace ==
  ASSUME TypeOK, NEW t \in Threads, Message(t)
  PROVE  /\ pc' \in [Threads -> Places]
         /\ pc[t] \in TalkPlaces /\ \E l \in TalkPlaces : Goto(t, l)
<1>1. TalkPlaces \subseteq Places BY DEF Places
<1>2. pc \in [Threads -> Places] BY DEF TypeOK
<1>3. (\E n \in Nat : SendMessage(t, n)) \/ TalkStep(t) BY MessageTalks
<1> QED BY <1>1, <1>2, <1>3, TalkPlace

(* The steps of a message keep the types.                                   *)
LEMMA MessageType ==
  ASSUME TypeInv, NEW t \in Threads, Message(t)
  PROVE  TypeInv'
<1>1. TalkTypeOK' BY MessageTalks, TalkType DEF TypeInv, TypeOK
<1>2. pc' \in [Threads -> Places] BY MessagePlace DEF TypeInv
<1>3. PICK l \in TalkPlaces : Goto(t, l) BY MessagePlace DEF TypeInv
<1>4. \A s \in Threads : pc'[s] = "grading" => pc[s] = "grading"
  BY <1>3 DEF Goto, TalkPlaces, TypeInv, TypeOK
<1>5. LessonTypeOK' /\ UNCHANGED <<page, loc>>
  BY DEF Message, lessonVars, LessonTypeOK, TypeInv, TypeOK
<1>6. waited' \in BOOLEAN BY <1>3, WaitedType DEF TypeInv, TypeOK
<1> QED BY <1>1, <1>2, <1>4, <1>5, <1>6 DEF TypeInv, TypeOK

(* The types hold of every behaviour.                                       *)
THEOREM LessonTypes == Spec => []TypeInv
<1>1. TypeInv /\ [Next]_vars => TypeInv'
  <2>1. TypeInv /\ UNCHANGED vars => TypeInv'
    BY DEF TypeInv, TypeOK, TalkTypeOK, CallsTypeOK, LessonTypeOK, vars, talkVars,
           callVars, lessonVars
  <2> QED BY <2>1, ActType, MessageType DEF Next, Over
<1> QED BY TypeInit, <1>1, PTL DEF Spec

-----------------------------------------------------------------------------
(* The answers counted are the questions passed; a thread in the quiz, or   *)
(* one about to close the teaching, has seen the last section; one about to *)
(* complete the lesson has seen the last question counted.                  *)
InQuiz == {"answering", "asked", "grading", "finishing"}
LastSection == section >= NSections - 1

WalkInv ==
  /\ Len(answers) = question
  /\ stage # Teaching => LastSection
  /\ stage = Complete => question >= NQuiz
  /\ \A t \in Threads : pc[t] = "moving" /\ ~loc[t].more => LastSection
  /\ \A t \in Threads : pc[t] \in InQuiz => LastSection
  /\ \A t \in Threads : pc[t] = "finishing" => question >= NQuiz

IInv == TypeInv /\ TalkInv /\ WalkInv

(* Nothing is walked at the start.                                          *)
LEMMA WalkInit == Init => WalkInv
BY DEF Init, TalkInit, LessonInit, WalkInv, InQuiz, Teaching, Complete

(* A step that leaves the flow alone and moves its thread where the flow    *)
(* allows.                                                                  *)
LEMMA WalkFrame ==
  ASSUME TypeInv, WalkInv, NEW t \in Threads, NEW l, Goto(t, l),
         UNCHANGED lessonVars,
         \A s \in Threads \ {t} : loc'[s] = loc[s],
         l = "moving" /\ ~loc'[t].more => LastSection,
         l \in InQuiz => LastSection,
         l # "finishing"
  PROVE  WalkInv'
<1>1. pc'[t] = l /\ \A s \in Threads \ {t} : pc'[s] = pc[s]
  BY DEF Goto, TypeInv, TypeOK
<1>2. LastSection' = LastSection BY DEF lessonVars, LastSection
<1> QED BY <1>1, <1>2 DEF WalkInv, lessonVars

(* A step of the flow, at the end of a request or on the way to complete it.*)
LEMMA WalkStep ==
  ASSUME TypeInv, WalkInv, NEW t \in Threads, NEW l \in {"idle", "finishing"},
         Goto(t, l),
         \A s \in Threads \ {t} : loc'[s] = loc[s],
         section' \in Nat /\ section' >= section,
         question' \in Nat /\ question' >= question,
         Len(answers') = question',
         stage' # Teaching => LastSection,
         stage' = Complete => question' >= NQuiz,
         l = "finishing" => LastSection /\ question' >= NQuiz
  PROVE  WalkInv'
<1>1. pc'[t] = l /\ \A s \in Threads \ {t} : pc'[s] = pc[s]
  BY DEF Goto, TypeInv, TypeOK
<1>2. section \in Nat /\ question \in Nat BY DEF TypeInv, TypeOK, LessonTypeOK
<1>3. LastSection => LastSection' BY <1>2, LessonAssumption DEF LastSection
<1>4. question >= NQuiz => question' >= NQuiz BY <1>2, LessonAssumption
<1>5. ASSUME NEW s \in Threads
      PROVE  /\ pc'[s] = "moving" /\ ~loc'[s].more => LastSection'
             /\ pc'[s] \in InQuiz => LastSection'
             /\ pc'[s] = "finishing" => question' >= NQuiz
  <2>1. CASE s = t BY <1>1, <1>3, <2>1 DEF InQuiz
  <2>2. CASE s # t BY <1>1, <1>3, <1>4, <2>2 DEF WalkInv
  <2> QED BY <2>1, <2>2
<1> QED BY <1>3, <1>5 DEF WalkInv

(* The actions of act keep the walk in order.                               *)
LEMMA ActWalks ==
  ASSUME TypeInv, WalkInv, NEW t \in Threads, ActStep(t)
  PROVE  WalkInv'
<1>0. /\ section \in Nat /\ question \in Nat /\ answers \in Seq(AnswerRow)
      /\ loc \in [Threads -> Locals] /\ stage \in {Teaching, Quiz, Complete}
      /\ ~(Quiz = Teaching) /\ ~(Complete = Teaching)
  BY DEF TypeInv, TypeOK, LessonTypeOK, Teaching, Quiz, Complete
<1>a. ASSUME Respond(t) \/ Fail(t)
      PROVE  Goto(t, "idle") /\ \A s \in Threads \ {t} : loc'[s] = loc[s]
  BY <1>0, <1>a DEF Respond, Fail
<1>b. ASSUME Respond(t) \/ Fail(t), UNCHANGED lessonVars PROVE WalkInv'
  BY <1>a, <1>b, WalkFrame DEF InQuiz
<1>1. CASE Advance(t)
  <2>1. CASE stage = Teaching
    BY <1>1, <2>1, WalkFrame DEF Advance, InQuiz
  <2>2. CASE stage # Teaching BY <1>b, <1>1, <2>2 DEF Advance
  <2> QED BY <2>1, <2>2
<1>2. CASE CompareSection(t)
  <2>1. CASE stage = Teaching
    <3>1. /\ Goto(t, "moving") /\ UNCHANGED lessonVars
          /\ loc' = [loc EXCEPT ![t].more = MoreSections]
      BY <1>2, <2>1 DEF CompareSection
    <3>2. loc'[t].more = MoreSections /\ \A s \in Threads \ {t} : loc'[s] = loc[s]
      BY <1>0, <3>1 DEF Locals
    <3>3. ~MoreSections => LastSection
      BY <1>0, LessonAssumption DEF MoreSections, LastSection
    <3> QED BY <3>1, <3>2, <3>3, WalkFrame DEF InQuiz
  <2>2. CASE stage # Teaching BY <1>b, <1>2, <2>2 DEF CompareSection, Fail
  <2> QED BY <2>1, <2>2
<1>3. CASE LeaveSection(t)
  <2>1. pc[t] = "moving" /\ Respond(t) BY <1>3 DEF LeaveSection
  <2>2. CASE loc[t].more
    <3>1. OpenSection BY <1>3, <2>2 DEF LeaveSection
    <3>2. /\ section' \in Nat /\ section' >= section
          /\ question' \in Nat /\ question' >= question
          /\ Len(answers') = question' /\ stage' = stage
      BY <1>0, <3>1 DEF OpenSection, WalkInv
    <3>3. question' = question BY <3>1 DEF OpenSection
    <3> QED BY <1>a, <2>1, <3>2, <3>3, WalkStep DEF WalkInv
  <2>3. CASE ~loc[t].more
    <3>1. CloseTeaching BY <1>3, <2>3 DEF LeaveSection
    <3>2. LastSection BY <2>1, <2>3 DEF WalkInv
    <3>3. /\ section' = section /\ question' = question /\ answers' = answers
          /\ stage' = Complete => NQuiz = 0
      BY <3>1, LessonAssumption DEF CloseTeaching, Quiz, Complete
    <3>4. stage' = Complete => question' >= NQuiz BY <1>0, <3>3
    <3>5. section' >= section /\ question' >= question BY <1>0, <3>3
    <3>6. Len(answers') = question' BY <3>3 DEF WalkInv
    <3> QED BY <1>0, <1>a, <2>1, <3>2, <3>3, <3>4, <3>5, <3>6, WalkStep
  <2> QED BY <2>2, <2>3
<1>4. CASE Answer(t)
  <2>1. CASE stage = Quiz
    <3>1. /\ Goto(t, "answering") /\ UNCHANGED lessonVars
          /\ \A s \in Threads \ {t} : loc'[s] = loc[s]
      BY <1>0, <1>4, <2>1 DEF Answer
    <3>2. LastSection BY <1>0, <2>1 DEF WalkInv
    <3> QED BY <3>1, <3>2, WalkFrame
  <2>2. CASE stage # Quiz BY <1>b, <1>4, <2>2 DEF Answer
  <2> QED BY <2>1, <2>2
<1>5. CASE ReadQuestion(t)
  <2>1. CASE Asking
    <3>1. Goto(t, "asked") /\ UNCHANGED <<lessonVars, loc>>
      BY <1>5, <2>1 DEF ReadQuestion
    <3>2. LastSection BY <1>0, <2>1 DEF WalkInv, Asking
    <3>3. UNCHANGED lessonVars /\ \A s \in Threads \ {t} : loc'[s] = loc[s]
      BY <3>1
    <3> QED BY <3>1, <3>2, <3>3, WalkFrame
  <2>2. CASE ~Asking BY <1>b, <1>5, <2>2 DEF ReadQuestion, Fail
  <2> QED BY <2>1, <2>2
<1>6. CASE TakeItem(t)
  <2>1. CASE Asking
    <3>1. /\ Goto(t, "grading") /\ UNCHANGED lessonVars
          /\ \A s \in Threads \ {t} : loc'[s] = loc[s]
      BY <1>0, <1>6, <2>1 DEF TakeItem
    <3>2. LastSection BY <1>0, <2>1 DEF WalkInv, Asking
    <3> QED BY <3>1, <3>2, WalkFrame
  <2>2. CASE ~Asking BY <1>b, <1>6, <2>2 DEF TakeItem, Fail
  <2> QED BY <2>1, <2>2
<1>7. CASE NoGrader(t) BY <1>b, <1>7 DEF NoGrader, Fail
<1>8. CASE Grade(t)
  <2>1. PICK b \in BOOLEAN : CountAnswer(loc[t].item, loc[t].seen, b)
    BY <1>8 DEF Grade
  <2>2. LastSection BY <1>8 DEF Grade, WalkInv, InQuiz
  <2>3. /\ section' = section /\ question' = question + 1 /\ stage' = stage
        /\ answers' = Append(answers, [item |-> loc[t].item, seen |-> loc[t].seen,
                                       right |-> b])
    BY <2>1 DEF CountAnswer
  <2>4. Len(answers') = Len(answers) + 1
    <3>1. answers \in Seq(AnswerRow) BY <1>0
    <3> QED BY <2>3, <3>1
  <2>5. Len(answers') = question' BY <2>3, <2>4 DEF WalkInv
  <2>6. stage' = Complete => question' >= NQuiz
    BY <1>0, <2>3, LessonAssumption DEF WalkInv
  <2>7. /\ section' \in Nat /\ section' >= section
        /\ question' \in Nat /\ question' >= question
    BY <1>0, <2>3
  <2>8. CASE LastQuestion
    <3>1. Goto(t, "finishing") /\ loc' = loc BY <1>8, <2>8 DEF Grade
    <3>2. question' >= NQuiz BY <2>3, <2>8 DEF LastQuestion
    <3>3. \A s \in Threads \ {t} : loc'[s] = loc[s] BY <3>1
    <3> QED BY <2>2, <2>5, <2>6, <2>7, <3>1, <3>2, <3>3, WalkStep
  <2>9. CASE ~LastQuestion
    <3>1. Respond(t) BY <1>8, <2>9 DEF Grade
    <3>2. Goto(t, "idle") /\ \A s \in Threads \ {t} : loc'[s] = loc[s]
      BY <1>a, <3>1
    <3> QED BY <2>2, <2>5, <2>6, <2>7, <3>2, WalkStep
  <2> QED BY <2>8, <2>9
<1>9. CASE FinishQuiz(t)
  <2>1. LastSection /\ question >= NQuiz BY <1>9 DEF FinishQuiz, WalkInv, InQuiz
  <2>2. section' = section /\ question' = question /\ answers' = answers
    BY <1>9 DEF FinishQuiz, Finish
  <2>3. Goto(t, "idle") /\ \A s \in Threads \ {t} : loc'[s] = loc[s]
    BY <1>a, <1>9 DEF FinishQuiz
  <2>4. section' >= section /\ question' >= question BY <1>0, <2>2
  <2>5. Len(answers') = question' BY <2>2 DEF WalkInv
  <2> QED BY <1>0, <2>1, <2>2, <2>3, <2>4, <2>5, WalkStep
<1> QED BY <1>1, <1>2, <1>3, <1>4, <1>5, <1>6, <1>7, <1>8, <1>9 DEF ActStep

(* A message leaves the walk alone ...                                      *)
LEMMA MessageWalks ==
  ASSUME TypeInv, WalkInv, NEW t \in Threads, Message(t)
  PROVE  WalkInv'
<1>1. PICK l \in TalkPlaces : Goto(t, l) BY MessagePlace DEF TypeInv
<1>2. UNCHANGED lessonVars /\ \A s \in Threads \ {t} : loc'[s] = loc[s]
  BY DEF Message
<1> QED BY <1>1, <1>2, WalkFrame DEF TalkPlaces, InQuiz

(* ... and the actions of act leave the conversation alone.                 *)
LEMMA ActSilent ==
  ASSUME TypeInv, TalkInv, NEW t \in Threads, ActStep(t)
  PROVE  TalkInv'
<1>1. /\ UNCHANGED talkVars
      /\ pc[t] \notin Between
      /\ \E l : l \notin Between /\ Goto(t, l)
  BY DEF ActStep, Advance, CompareSection, LeaveSection, Answer, ReadQuestion,
         TakeItem, NoGrader, Grade, FinishQuiz, Respond, Fail, Between
<1> QED BY <1>1, TalkSilent DEF TypeInv, TypeOK

(* The invariant, for every lesson and any finite set of threads.           *)
THEOREM LessonInvariant == Spec => []IInv
<1>1. Init => IInv BY TypeInit, WalkInit, TalkInvInit DEF IInv, Init
<1>2. IInv /\ [Next]_vars => IInv'
  <2> SUFFICES ASSUME IInv, [Next]_vars PROVE IInv' OBVIOUS
  <2>1. CASE UNCHANGED vars
    <3>1. TypeInv'
      BY <2>1 DEF IInv, TypeInv, TypeOK, TalkTypeOK, CallsTypeOK, LessonTypeOK, vars,
                  talkVars, callVars, lessonVars
    <3>2. TalkInv' BY <2>1, TalkStutter DEF IInv, vars
    <3>3. WalkInv' BY <2>1 DEF IInv, WalkInv, LastSection, vars, lessonVars
    <3> QED BY <3>1, <3>2, <3>3 DEF IInv
  <2>2. ASSUME NEW t \in Threads, ActStep(t) PROVE IInv'
    BY <2>2, ActType, ActWalks, ActSilent DEF IInv
  <2>3. ASSUME NEW t \in Threads, Message(t) PROVE IInv'
    <3>1. TalkInv' BY <2>3, MessageTalks, TalkKept DEF IInv, TypeInv, TypeOK
    <3> QED BY <2>3, <3>1, MessageType, MessageWalks DEF IInv
  <2> QED BY <2>1, <2>2, <2>3 DEF Next, Over
<1> QED BY <1>1, <1>2, PTL DEF Spec

-----------------------------------------------------------------------------
(* As long as the user waits, one thread is busy, the question on the page  *)
(* is the current one, and so is the one that a thread grades.              *)
PageIsCurrent ==
  page.stage = Quiz /\ stage = Quiz /\ question < NQuiz => page.question = question

InTurn ==
  waited =>
    /\ \A s, t \in Threads : pc[s] # "idle" /\ pc[t] # "idle" => s = t
    /\ PageIsCurrent
    /\ \A t \in Threads :
         pc[t] \in {"answering", "asked", "grading"} /\ question < NQuiz =>
           loc[t].seen = question
    /\ \A t \in Threads : pc[t] = "grading" =>
         loc[t].item = question /\ question < NQuiz

TurnInv == InTurn /\ GradedInTurn

(* A thread that moves while it waits leaves one thread busy at most.       *)
LEMMA OneBusy ==
  ASSUME TypeOK, InTurn, NEW t \in Threads, NEW l, Goto(t, l), waited'
  PROVE  /\ waited
         /\ pc[t] # "idle" \/ l # "idle" => \A s \in Threads \ {t} : pc[s] = "idle"
         /\ \A s, u \in Threads : pc'[s] # "idle" /\ pc'[u] # "idle" => s = u
<1>1. waited /\ (l = "idle" \/ \A s \in Threads \ {t} : pc[s] = "idle")
  BY DEF Goto
<1>2. pc'[t] = l /\ \A s \in Threads \ {t} : pc'[s] = pc[s]
  BY DEF Goto, TypeOK
<1>3. pc[t] # "idle" \/ l # "idle" => \A s \in Threads \ {t} : pc[s] = "idle"
  BY <1>1 DEF InTurn
<1>4. ASSUME NEW s \in Threads, NEW u \in Threads, pc'[s] # "idle", pc'[u] # "idle"
      PROVE  s = u
  <2>1. CASE l = "idle"
    <3>1. s # t /\ u # t BY <1>2, <1>4, <2>1
    <3>2. pc[s] # "idle" /\ pc[u] # "idle" BY <1>2, <1>4, <3>1
    <3> QED BY <1>1, <3>2 DEF InTurn
  <2>2. CASE l # "idle" BY <1>2, <1>3, <1>4, <2>2
  <2> QED BY <2>1, <2>2
<1> QED BY <1>1, <1>3, <1>4

(* A step that leaves the questions and the answers alone.                  *)
LEMMA TurnFrame ==
  ASSUME TypeOK, TurnInv, NEW t \in Threads, NEW l, Goto(t, l),
         UNCHANGED <<question, correct, answers>>, PageIsCurrent => PageIsCurrent',
         \A s \in Threads \ {t} : loc'[s] = loc[s],
         waited /\ l \in {"answering", "asked", "grading"} /\ question < NQuiz =>
           loc'[t].seen = question,
         waited /\ l = "grading" => loc'[t].item = question /\ question < NQuiz
  PROVE  TurnInv'
<1>1. SUFFICES ASSUME waited' PROVE TurnInv'
  BY DEF TurnInv, InTurn, GradedInTurn
<1>2. waited /\ \A s, u \in Threads : pc'[s] # "idle" /\ pc'[u] # "idle" => s = u
  BY <1>1, OneBusy DEF TurnInv
<1>3. pc'[t] = l /\ \A s \in Threads \ {t} : pc'[s] = pc[s]
  BY DEF Goto, TypeOK
<1>4. \A s \in Threads :
        pc'[s] \in {"answering", "asked", "grading"} /\ question' < NQuiz =>
          loc'[s].seen = question'
  BY <1>2, <1>3 DEF TurnInv, InTurn
<1>5. \A s \in Threads : pc'[s] = "grading" =>
        loc'[s].item = question' /\ question' < NQuiz
  BY <1>2, <1>3 DEF TurnInv, InTurn
<1>6. PageIsCurrent' BY <1>2 DEF TurnInv, InTurn
<1>7. GradedInTurn' BY <1>2 DEF TurnInv, GradedInTurn, QuizGradedOnce
<1> QED BY <1>2, <1>4, <1>5, <1>6, <1>7 DEF TurnInv, InTurn

(* The page that an answer renders is current.                              *)
LEMMA RespondCurrent ==
  ASSUME NEW t \in Threads, Respond(t), question' \in Nat
  PROVE  Goto(t, "idle") /\ PageIsCurrent'
<1>1. CASE page' = [stage |-> stage', question |-> IF stage' = Quiz THEN question' ELSE 0]
  BY <1>1 DEF Respond, PageIsCurrent
<1>2. CASE page' = page /\ (stage' = Teaching \/ question' >= NQuiz)
  <2>1. stage' = Quiz => ~(question' < NQuiz)
    BY <1>2, LessonAssumption DEF Teaching, Quiz
  <2> QED BY <1>2, <2>1 DEF PageIsCurrent, Respond
<1> QED BY <1>1, <1>2 DEF Respond

(* The answer to the current question is the next one of the quiz.          *)
LEMMA CountInTurn ==
  ASSUME TypeOK, WalkInv, QuizGradedOnce, question < NQuiz,
         NEW b \in BOOLEAN, CountAnswer(question, question, b)
  PROVE  QuizGradedOnce'
<1> DEFINE row == [item |-> question, seen |-> question, right |-> b]
           Right == {k \in 1 .. Len(answers) : answers[k].right}
<1>1. answers' = Append(answers, row) /\ correct' = IF b THEN correct + 1 ELSE correct
  BY DEF CountAnswer
<1>2. answers \in Seq(AnswerRow) /\ Len(answers) = question /\ question \in Nat
      /\ correct = Cardinality(Right)
  BY DEF TypeOK, LessonTypeOK, WalkInv, QuizGradedOnce
<1>3. row.item = question /\ row.seen = question /\ row.right = b
  OBVIOUS
<1> HIDE DEF row
<1>4. /\ Len(answers') = question + 1 /\ answers'[question + 1] = row
      /\ \A k \in 1 .. Len(answers) : answers'[k] = answers[k]
  BY <1>1, <1>2
<1>5. \A k \in 1 .. Len(answers') : k \in 1 .. Len(answers) \/ k = question + 1
  BY <1>2, <1>4
<1>6. \A k \in 1 .. Len(answers') : answers'[k].item = k - 1 /\ answers'[k].seen = k - 1
  BY <1>2, <1>3, <1>4, <1>5 DEF QuizGradedOnce
<1>7. IsFiniteSet(Right)
  BY <1>2, FS_Interval, FS_Subset
<1>8. {k \in 1 .. Len(answers') : answers'[k].right} =
        IF b THEN Right \cup {question + 1} ELSE Right
  BY <1>2, <1>3, <1>4, <1>5
<1>9. question + 1 \notin Right
  BY <1>2
<1>10. correct' = Cardinality({k \in 1 .. Len(answers') : answers'[k].right})
  <2>1. Cardinality(Right \cup {question + 1}) = Cardinality(Right) + 1
    BY <1>7, <1>9, FS_AddElement
  <2> QED BY <1>1, <1>2, <1>8, <2>1
<1>11. Len(answers') <= NQuiz
  BY <1>2, <1>4, LessonAssumption
<1> QED BY <1>6, <1>10, <1>11 DEF QuizGradedOnce

(* The actions of act keep it.                                              *)
LEMMA ActInTurn ==
  ASSUME TypeOK, WalkInv, TurnInv, NEW t \in Threads, ActStep(t)
  PROVE  TurnInv'
<1>0. loc[t] \in Locals /\ loc \in [Threads -> Locals] /\ question \in Nat
  BY DEF TypeOK, LessonTypeOK
<1>a. ASSUME Respond(t) \/ Fail(t) PROVE \A s \in Threads \ {t} : loc'[s] = loc[s]
  BY <1>0, <1>a DEF Respond, Fail
<1>b. ASSUME Respond(t), UNCHANGED <<question, correct, answers>> PROVE TurnInv'
  BY <1>0, <1>a, <1>b, RespondCurrent, TurnFrame
<1>c. ASSUME UNCHANGED <<lessonVars, page>> PROVE PageIsCurrent => PageIsCurrent'
  BY <1>c DEF PageIsCurrent, lessonVars
<1>d. ASSUME Fail(t) PROVE TurnInv'
  BY <1>a, <1>c, <1>d, TurnFrame DEF Fail, lessonVars
<1>1. CASE Advance(t)
  <2>1. CASE stage = Teaching
    BY <1>1, <1>c, <2>1, TurnFrame DEF Advance, lessonVars
  <2>2. CASE stage # Teaching BY <1>b, <1>1, <2>2 DEF Advance, lessonVars
  <2> QED BY <2>1, <2>2
<1>2. CASE CompareSection(t)
  <2>1. CASE stage = Teaching
    <3>1. /\ Goto(t, "moving") /\ UNCHANGED <<lessonVars, page>>
          /\ \A s \in Threads \ {t} : loc'[s] = loc[s]
      BY <1>0, <1>2, <2>1 DEF CompareSection
    <3> QED BY <1>c, <3>1, TurnFrame DEF lessonVars
  <2>2. CASE stage # Teaching BY <1>d, <1>2, <2>2 DEF CompareSection
  <2> QED BY <2>1, <2>2
<1>3. CASE LeaveSection(t)
  BY <1>b, <1>3 DEF LeaveSection, OpenSection, CloseTeaching
<1>4. CASE Answer(t)
  <2>1. CASE stage = Quiz
    <3>1. /\ Goto(t, "answering") /\ UNCHANGED <<lessonVars, page>> /\ page.stage = Quiz
          /\ loc' = [loc EXCEPT ![t].seen = page.question]
      BY <1>4, <2>1 DEF Answer
    <3>2. loc'[t].seen = page.question /\ \A s \in Threads \ {t} : loc'[s] = loc[s]
      BY <1>0, <3>1 DEF Locals
    <3>3. waited /\ question < NQuiz => page.question = question
      BY <2>1, <3>1 DEF TurnInv, InTurn, PageIsCurrent
    <3> QED BY <1>c, <3>1, <3>2, <3>3, TurnFrame DEF lessonVars
  <2>2. CASE stage # Quiz BY <1>b, <1>4, <2>2 DEF Answer, lessonVars
  <2> QED BY <2>1, <2>2
<1>5. CASE ReadQuestion(t)
  <2>1. CASE Asking
    <3>1. pc[t] = "answering" /\ Goto(t, "asked") /\ UNCHANGED <<lessonVars, page, loc>>
      BY <1>5, <2>1 DEF ReadQuestion
    <3>2. waited /\ question < NQuiz => loc'[t].seen = question
      BY <3>1 DEF TurnInv, InTurn
    <3> QED BY <1>c, <3>1, <3>2, TurnFrame DEF lessonVars
  <2>2. CASE ~Asking BY <1>d, <1>5, <2>2 DEF ReadQuestion
  <2> QED BY <2>1, <2>2
<1>6. CASE TakeItem(t)
  <2>1. CASE Asking
    <3>1. /\ pc[t] = "asked" /\ Goto(t, "grading") /\ UNCHANGED <<lessonVars, page>>
          /\ loc' = [loc EXCEPT ![t].item = question] /\ question < NQuiz
      BY <1>6, <2>1 DEF TakeItem, Asking
    <3>2. /\ loc'[t].item = question /\ loc'[t].seen = loc[t].seen
          /\ \A s \in Threads \ {t} : loc'[s] = loc[s]
      BY <1>0, <3>1 DEF Locals
    <3>3. waited /\ question < NQuiz => loc'[t].seen = question
      BY <3>1, <3>2 DEF TurnInv, InTurn
    <3> QED BY <1>c, <3>1, <3>2, <3>3, TurnFrame DEF lessonVars
  <2>2. CASE ~Asking BY <1>d, <1>6, <2>2 DEF TakeItem
  <2> QED BY <2>1, <2>2
<1>7. CASE NoGrader(t) BY <1>d, <1>7 DEF NoGrader
<1>8. CASE Grade(t)
  <2>1. SUFFICES ASSUME waited' PROVE TurnInv'
    BY DEF TurnInv, InTurn, GradedInTurn
  <2>2. PICK l \in {"finishing", "idle"} : Goto(t, l) /\ pc[t] = "grading"
    BY <1>8 DEF Grade, Respond
  <2>3. /\ waited
        /\ \A s \in Threads \ {t} : pc[s] = "idle"
        /\ \A s, u \in Threads : pc'[s] # "idle" /\ pc'[u] # "idle" => s = u
    BY <2>1, <2>2, OneBusy DEF TurnInv
  <2>4. loc[t].item = question /\ loc[t].seen = question /\ question < NQuiz
    BY <2>2, <2>3 DEF TurnInv, InTurn
  <2>5. PICK b \in BOOLEAN : CountAnswer(question, question, b)
    BY <1>8, <2>4 DEF Grade
  <2>6. GradedInTurn'
    BY <2>3, <2>4, <2>5, CountInTurn DEF TurnInv, GradedInTurn
  <2>7. PageIsCurrent'
    <3>1. CASE LastQuestion
      <4>1. ~(question' < NQuiz)
        BY <1>0, <2>5, <3>1, LessonAssumption DEF LastQuestion, CountAnswer
      <4> QED BY <4>1 DEF PageIsCurrent
    <3>2. CASE ~LastQuestion
      <4>1. question' \in Nat BY <1>0, <2>5 DEF CountAnswer
      <4> QED BY <1>8, <3>2, <4>1, RespondCurrent DEF Grade
    <3> QED BY <3>1, <3>2
  <2>8. \A s \in Threads : pc'[s] \in {"finishing", "idle"}
    BY <2>2, <2>3 DEF Goto, TypeOK
  <2> QED BY <2>3, <2>6, <2>7, <2>8 DEF TurnInv, InTurn
<1>9. CASE FinishQuiz(t)
  BY <1>b, <1>9 DEF FinishQuiz, Finish
<1> QED BY <1>1, <1>2, <1>3, <1>4, <1>5, <1>6, <1>7, <1>8, <1>9 DEF ActStep

(* So does a message.                                                       *)
LEMMA MessageInTurn ==
  ASSUME TypeOK, TurnInv, NEW t \in Threads, Message(t)
  PROVE  TurnInv'
<1>1. PICK l \in TalkPlaces : Goto(t, l) BY MessagePlace
<1>2. l \notin {"answering", "asked", "grading"} BY <1>1 DEF TalkPlaces
<1>3. UNCHANGED <<question, correct, answers, stage, page, loc>>
  BY DEF Message, lessonVars
<1>4. PageIsCurrent => PageIsCurrent' BY <1>3 DEF PageIsCurrent
<1> QED BY <1>1, <1>2, <1>3, <1>4, TurnFrame

(* For a user who has waited for each answer, the web grades each question  *)
(* once, in order, and the one on the page, however long the quiz.          *)
THEOREM LessonInOrder == Spec => []GradedInTurn
<1>1. Init => TurnInv
  <2> SUFFICES ASSUME Init PROVE TurnInv OBVIOUS
  <2>1. \A t \in Threads : pc[t] = "idle" BY DEF Init, TalkInit
  <2>2. PageIsCurrent BY DEF Init, LessonInit, PageIsCurrent, Teaching, Quiz
  <2>3. QuizGradedOnce
    <3>1. Len(answers) = 0 /\ correct = 0 BY DEF Init, LessonInit
    <3>2. {k \in 1 .. Len(answers) : answers[k].right} = {} BY <3>1
    <3> QED BY <3>1, <3>2, FS_EmptySet, LessonAssumption DEF QuizGradedOnce
  <2> QED BY <2>1, <2>2, <2>3 DEF TurnInv, InTurn, GradedInTurn
<1>2. IInv /\ TurnInv /\ [Next]_vars => TurnInv'
  <2> SUFFICES ASSUME IInv, TurnInv, [Next]_vars PROVE TurnInv' OBVIOUS
  <2>1. CASE UNCHANGED vars
    BY <2>1 DEF vars, lessonVars, TurnInv, InTurn, PageIsCurrent, GradedInTurn,
                QuizGradedOnce
  <2>2. ASSUME NEW t \in Threads, ActStep(t) PROVE TurnInv'
    BY <2>2, ActInTurn DEF IInv, TypeInv
  <2>3. ASSUME NEW t \in Threads, Message(t) PROVE TurnInv'
    BY <2>3, MessageInTurn DEF IInv, TypeInv
  <2> QED BY <2>1, <2>2, <2>3 DEF Next, Over
<1>3. TurnInv => GradedInTurn BY DEF TurnInv
<1> QED BY <1>1, <1>2, <1>3, LessonInvariant, PTL DEF Spec

(* A lesson is complete only in the last section and after as many answers  *)
(* as it has questions, for a user who has waited after one to each of      *)
(* them; and its conversation is in the table as far as the store's calls   *)
(* have not met.                                                            *)
THEOREM LessonCorrect == Spec => [](CompletionIsWhole /\ ConversationStored)
<1>1. IInv => CompletionCounted
  BY DEF IInv, WalkInv, CompletionCounted, LastSection, Teaching, Complete
<1>2. IInv /\ GradedInTurn => (waited => EveryQuestionAnswered)
  <2> SUFFICES ASSUME IInv, GradedInTurn, waited, stage = Complete,
                      NEW q \in 0 .. NQuiz - 1
               PROVE  \E k \in 1 .. Len(answers) : answers[k].item = q
    BY DEF EveryQuestionAnswered
  <2>1. Len(answers) = question /\ question >= NQuiz /\ question \in Nat
    BY DEF IInv, WalkInv, TypeInv, TypeOK, LessonTypeOK
  <2>2. q + 1 \in 1 .. Len(answers) /\ (q + 1) - 1 = q BY <2>1, LessonAssumption
  <2>3. answers[q + 1].item = (q + 1) - 1
    BY <2>2 DEF GradedInTurn, QuizGradedOnce
  <2> QED BY <2>2, <2>3
<1>3. IInv => ConversationStored BY TalkQuiet DEF IInv, TypeInv, TypeOK
<1>4. IInv /\ GradedInTurn => CompletionIsWhole /\ ConversationStored
  BY <1>1, <1>2, <1>3 DEF CompletionIsWhole
<1> QED BY <1>4, LessonInvariant, LessonInOrder, PTL

-----------------------------------------------------------------------------
(* The guesstimate session.                                                 *)

(* The types are invariant.                                                 *)
LEMMA GuessTypeInit == GuessInit => GuessTypeOK
<1> SUFFICES ASSUME GuessInit PROVE GuessTypeOK OBVIOUS
<1>1. [shown |-> 0, taken |-> 0] \in GuessLocals
  BY GuessAssumption DEF GuessLocals
<1>2. TalkTypeOK BY TalkTypeInit DEF GuessInit
<1> QED BY <1>1, <1>2
    DEF GuessInit, TalkInit, GuessTypeOK, GuessPlaces, TalkPlaces

(* The locals of a thread are set one at a time.                            *)
LEMMA GuessLocalUpdate ==
  ASSUME NEW l \in GuessLocals, NEW s \in 0 .. NSegments - 1
  PROVE  /\ [l EXCEPT !.shown = s] \in GuessLocals
         /\ [l EXCEPT !.taken = s] \in GuessLocals
BY DEF GuessLocals

(* The actions of act keep the types.                                       *)
LEMMA GuessActType ==
  ASSUME GuessTypeOK, NEW t \in Threads, GuessStep(t)
  PROVE  GuessTypeOK'
<1> USE GuessAssumption
        DEF GuessTypeOK, TalkTypeOK, CallsTypeOK, talkVars, callVars, flowVars, Goto,
            GuessPlaces, TalkPlaces, NSteps, Estimation, Sanity
<1>1. CASE AdvanceGuess(t) BY <1>1 DEF AdvanceGuess
<1>2. CASE AdvanceRefused(t) BY <1>2 DEF AdvanceRefused, guessVars
<1>3. CASE LeaveStep(t) BY <1>3 DEF LeaveStep
<1>4. CASE Estimate(t)
  <2>1. locals' = [locals EXCEPT ![t].shown = segment] BY <1>4 DEF Estimate
  <2>2. segment \in 0 .. NSegments - 1 BY <1>4 DEF Estimate, Estimating
  <2>3. [locals[t] EXCEPT !.shown = segment] \in GuessLocals
    BY <2>2, GuessLocalUpdate
  <2>4. locals' \in [Threads -> GuessLocals] BY <2>1, <2>3
  <2> QED BY <1>4, <2>4 DEF Estimate
<1>5. CASE TakeSegment(t)
  <2>1. CASE Estimating
    <3>1. segment \in 0 .. NSegments - 1 BY <2>1 DEF Estimating
    <3>2. [locals[t] EXCEPT !.taken = segment] \in GuessLocals
      BY <3>1, GuessLocalUpdate
    <3>3. locals' \in [Threads -> GuessLocals] BY <1>5, <2>1, <3>2
        DEF TakeSegment
    <3> QED BY <1>5, <2>1, <3>3 DEF TakeSegment
  <2>2. CASE ~Estimating BY <1>5, <2>2 DEF TakeSegment
  <2> QED BY <2>1, <2>2
<1>6. CASE RecordEstimate(t)
  <2>1. locals[t].taken \in 0 .. NSegments - 1 /\ locals[t].shown \in 0 .. NSegments - 1
    BY DEF GuessLocals
  <2>2. estimates' \in Seq([segment : 0 .. NSegments - 1, shown : 0 .. NSegments - 1])
    BY <1>6, <2>1 DEF RecordEstimate
  <2> QED BY <1>6, <2>2 DEF RecordEstimate
<1>7. CASE CountSegment(t) BY <1>7 DEF CountSegment
<1>8. CASE CloseEstimation(t) BY <1>8 DEF CloseEstimation
<1> QED BY <1>1, <1>2, <1>3, <1>4, <1>5, <1>6, <1>7, <1>8 DEF GuessStep

(* A message's first step reads a step of the flow.                         *)
LEMMA GuessMessageTalks ==
  ASSUME GuessTypeOK, NEW t \in Threads, GuessMessage(t)
  PROVE  (\E n \in Nat : SendMessage(t, n)) \/ TalkStep(t)
<1>1. (IF step < NSteps THEN step ELSE NSteps) \in Nat BY
    DEF GuessTypeOK, NSteps
<1> QED BY <1>1 DEF GuessMessage

(* It moves its thread among the places of a message.                       *)
LEMMA GuessMessagePlace ==
  ASSUME GuessTypeOK, NEW t \in Threads, GuessMessage(t)
  PROVE  /\ pc' \in [Threads -> GuessPlaces]
         /\ pc[t] \in TalkPlaces /\ \E l \in TalkPlaces : Goto(t, l)
<1>1. TalkPlaces \subseteq GuessPlaces BY DEF GuessPlaces
<1>2. pc \in [Threads -> GuessPlaces] BY DEF GuessTypeOK
<1>3. (\E n \in Nat : SendMessage(t, n)) \/ TalkStep(t) BY GuessMessageTalks
<1> QED BY <1>1, <1>2, <1>3, TalkPlace

(* The steps of a message keep the types.                                   *)
LEMMA GuessMessageType ==
  ASSUME GuessTypeOK, NEW t \in Threads, GuessMessage(t)
  PROVE  GuessTypeOK'
<1>1. TalkTypeOK' BY GuessMessageTalks, TalkType DEF GuessTypeOK
<1>2. pc' \in [Threads -> GuessPlaces] BY GuessMessagePlace
<1>3. PICK l \in TalkPlaces : Goto(t, l) BY GuessMessagePlace
<1>4. waited' \in BOOLEAN BY <1>3, WaitedType DEF GuessTypeOK
<1> QED BY <1>1, <1>2, <1>4 DEF GuessMessage, flowVars, GuessTypeOK

(* The types hold of every behaviour.                                       *)
THEOREM GuessTypes == GuessSpec => []GuessTypeOK
<1>1. GuessTypeOK /\ [GuessNext]_guessVars => GuessTypeOK'
  <2>1. GuessTypeOK /\ UNCHANGED guessVars => GuessTypeOK'
    BY DEF GuessTypeOK, TalkTypeOK, CallsTypeOK, guessVars, talkVars, callVars, flowVars
  <2> QED BY <2>1, GuessActType, GuessMessageType DEF GuessNext
<1> QED BY GuessTypeInit, <1>1, PTL DEF GuessSpec

-----------------------------------------------------------------------------
(* The estimates recorded are the segments counted and those that a thread  *)
(* has recorded and not yet counted; and nobody closes the estimation, or   *)
(* has closed it, before as many segments are counted as the tree has.      *)
Counted == {"counting"}

CountInv ==
  /\ Len(estimates) = segment + Cardinality(At(Counted))
  /\ step > Estimation => segment >= NSegments
  /\ \A t \in Threads : pc[t] = "closing" => segment >= NSegments

GuessIInv == GuessTypeOK /\ TalkInv /\ CountInv

(* Nothing is counted at the start.                                         *)
LEMMA CountInit == GuessInit => CountInv
<1> SUFFICES ASSUME GuessInit PROVE CountInv OBVIOUS
<1>1. At(Counted) = {} BY DEF GuessInit, TalkInit, At, Counted
<1> QED BY <1>1, FS_EmptySet
        DEF GuessInit, TalkInit, CountInv, Estimation

(* A step that neither records nor counts an estimate nor moves to close.   *)
LEMMA CountFrame ==
  ASSUME GuessTypeOK, CountInv, NEW t \in Threads, NEW l, Goto(t, l),
         pc[t] \notin Counted, l \notin Counted \cup {"closing"},
         UNCHANGED <<segment, estimates>>,
         step' > Estimation => step > Estimation \/ pc[t] = "closing"
  PROVE  CountInv'
<1>1. Cardinality(At(Counted)') = Cardinality(At(Counted)) BY AtStay
    DEF GuessTypeOK
<1>2. \A s \in Threads : pc'[s] = "closing" => pc[s] = "closing"
  BY DEF Goto, GuessTypeOK
<1> QED BY <1>1, <1>2 DEF CountInv

(* The steps of an action keep the count.                                   *)
LEMMA ActCounts ==
  ASSUME GuessTypeOK, CountInv, NEW t \in Threads, GuessStep(t)
  PROVE  CountInv'
<1> DEFINE c == Cardinality(At(Counted))
<1>0. c \in Nat /\ pc \in [Threads -> GuessPlaces] BY AtFinite DEF GuessTypeOK
<1>1. CASE AdvanceGuess(t)
  <2>1. Goto(t, "leaving") /\ pc[t] = "idle" BY <1>1 DEF AdvanceGuess
  <2> QED BY <1>1, <2>1, CountFrame DEF AdvanceGuess, flowVars, Counted
<1>2. CASE AdvanceRefused(t)
  BY <1>2 DEF AdvanceRefused, guessVars, flowVars, CountInv, At
<1>3. CASE LeaveStep(t)
  <2>1. Goto(t, "idle") /\ pc[t] = "leaving" BY <1>3 DEF LeaveStep
  <2>2. step' > Estimation => step > Estimation
    BY <1>3 DEF LeaveStep, GuessTypeOK, Estimation
  <2> QED BY <1>3, <2>1, <2>2, CountFrame DEF LeaveStep, Counted
<1>4. CASE Estimate(t)
  <2>1. Goto(t, "submitting") /\ pc[t] = "idle" BY <1>4 DEF Estimate
  <2> QED BY <1>4, <2>1, CountFrame DEF Estimate, flowVars, Counted
<1>5. CASE TakeSegment(t)
  <2>1. PICK l \in {"recording", "idle"} : Goto(t, l) BY <1>5 DEF TakeSegment
  <2>2. pc[t] = "submitting" BY <1>5 DEF TakeSegment
  <2> QED BY <1>5, <2>1, <2>2, CountFrame DEF TakeSegment, flowVars, Counted
<1>6. CASE RecordEstimate(t)
  <2>1. Goto(t, "counting") /\ pc[t] = "recording" BY <1>6 DEF RecordEstimate
  <2>2. c' = c + 1 BY <1>0, <2>1, AtEnter DEF Counted
  <2>3. Len(estimates') = Len(estimates) + 1 BY <1>6
      DEF RecordEstimate, GuessTypeOK
  <2>4. \A s \in Threads : pc'[s] = "closing" => pc[s] = "closing"
    BY <1>0, <2>1 DEF Goto
  <2>5. step' = step /\ segment' = segment BY <1>6 DEF RecordEstimate
  <2> QED BY <1>0, <2>2, <2>3, <2>4, <2>5 DEF CountInv, GuessTypeOK
<1>7. CASE CountSegment(t)
  <2>1. PICK l \in {"closing", "idle"} :
          Goto(t, l) /\ (l = "closing" => segment + 1 >= NSegments)
    BY <1>7 DEF CountSegment
  <2>2. pc[t] = "counting" BY <1>7 DEF CountSegment
  <2>3. c' = c - 1 BY <1>0, <2>1, <2>2, AtLeave DEF Counted
  <2>4. step' = step /\ segment' = segment + 1 /\ estimates' = estimates
    BY <1>7 DEF CountSegment
  <2>5. \A s \in Threads :
          pc'[s] = "closing" => pc[s] = "closing" \/ segment + 1 >= NSegments
    BY <1>0, <2>1 DEF Goto
  <2>6. segment + 1 > segment BY DEF GuessTypeOK
  <2>7. Len(estimates') = segment' + c'
    BY <1>0, <2>3, <2>4 DEF CountInv, GuessTypeOK
  <2>8. step' > Estimation => segment' >= NSegments
    BY <2>4, GuessAssumption DEF CountInv, GuessTypeOK
  <2>9. \A s \in Threads : pc'[s] = "closing" => segment' >= NSegments
    BY <2>4, <2>5, GuessAssumption DEF CountInv, GuessTypeOK
  <2> QED BY <2>7, <2>8, <2>9 DEF CountInv
<1>8. CASE CloseEstimation(t)
  <2>1. Goto(t, "idle") /\ pc[t] = "closing" BY <1>8 DEF CloseEstimation
  <2> QED BY <1>8, <2>1, CountFrame DEF CloseEstimation, Counted
<1> QED BY <1>1, <1>2, <1>3, <1>4, <1>5, <1>6, <1>7, <1>8 DEF GuessStep

(* The steps of act leave the conversation alone.                           *)
LEMMA GuessActSilent ==
  ASSUME GuessTypeOK, TalkInv, NEW t \in Threads, GuessStep(t)
  PROVE  TalkInv'
<1>1. CASE AdvanceRefused(t)
  BY <1>1, TalkStutter DEF AdvanceRefused, guessVars
<1>2. CASE ~AdvanceRefused(t)
  <2>1. /\ UNCHANGED talkVars
        /\ pc[t] \notin Between
        /\ \E l : l \notin Between /\ Goto(t, l)
    BY <1>2 DEF GuessStep, AdvanceGuess, LeaveStep, Estimate, TakeSegment,
               RecordEstimate, CountSegment, CloseEstimation, Between
  <2> QED BY <2>1, TalkSilent DEF GuessTypeOK
<1> QED BY <1>1, <1>2

(* A message changes no count.                                              *)
LEMMA MessageCounts ==
  ASSUME GuessTypeOK, CountInv, NEW t \in Threads, GuessMessage(t)
  PROVE  CountInv'
<1>1. PICK l \in TalkPlaces : Goto(t, l) BY GuessMessagePlace
<1>2. pc[t] \in TalkPlaces BY GuessMessagePlace
<1> QED BY <1>1, <1>2, CountFrame
        DEF GuessMessage, flowVars, Counted, TalkPlaces

(* The invariant, for every tree and any finite set of threads.             *)
THEOREM GuessInvariant == GuessSpec => []GuessIInv
<1>1. GuessInit => GuessIInv BY GuessTypeInit, CountInit, TalkInvInit
    DEF GuessIInv, GuessInit
<1>2. GuessIInv /\ [GuessNext]_guessVars => GuessIInv'
  <2> SUFFICES ASSUME GuessIInv, [GuessNext]_guessVars PROVE GuessIInv' OBVIOUS
  <2>1. CASE UNCHANGED guessVars
    <3>1. GuessTypeOK' /\ CountInv'
      BY <2>1 DEF GuessIInv, GuessTypeOK, TalkTypeOK, CallsTypeOK, CountInv, At,
                  guessVars, talkVars, callVars, flowVars
    <3>2. TalkInv' BY <2>1, TalkStutter DEF GuessIInv, guessVars
    <3> QED BY <3>1, <3>2 DEF GuessIInv
  <2>2. ASSUME NEW t \in Threads, GuessStep(t) PROVE GuessIInv'
    BY <2>2, GuessActType, ActCounts, GuessActSilent DEF GuessIInv
  <2>3. ASSUME NEW t \in Threads, GuessMessage(t) PROVE GuessIInv'
    <3>1. TalkInv' BY <2>3, GuessMessageTalks, TalkKept
        DEF GuessIInv, GuessTypeOK
    <3> QED BY <2>3, <3>1, GuessMessageType, MessageCounts DEF GuessIInv
  <2> QED BY <2>1, <2>2, <2>3 DEF GuessNext
<1> QED BY <1>1, <1>2, PTL DEF GuessSpec

(* The estimation is never left with a segment's estimate missing from the  *)
(* count, and the conversation is in the table as far as the store's calls  *)
(* have not met.                                                            *)
THEOREM GuessCorrect == GuessSpec => [](EstimationNotSkipped /\ ConversationStored)
<1>1. GuessIInv => EstimationNotSkipped
  <2> SUFFICES ASSUME GuessIInv, step > Estimation PROVE Len(estimates) >= NSegments
    BY DEF EstimationNotSkipped
  <2>1. Cardinality(At(Counted)) \in Nat BY AtFinite
  <2> QED BY <2>1, GuessAssumption DEF GuessIInv, CountInv, GuessTypeOK
<1>2. GuessIInv => ConversationStored BY TalkQuiet DEF GuessIInv, GuessTypeOK
<1> QED BY <1>1, <1>2, GuessInvariant, PTL
-----------------------------------------------------------------------------
(* While every request has waited, one thread at most is busy; the segment  *)
(* it captured is still the current one, and so is the one it records for.  *)
GuessInTurn ==
  waited =>
    /\ \A s, t \in Threads : pc[s] # "idle" /\ pc[t] # "idle" => s = t
    /\ \A t \in Threads : pc[t] = "submitting" => locals[t].shown = segment
    /\ \A t \in Threads : pc[t] = "recording" =>
         locals[t].shown = segment /\ locals[t].taken = segment /\ segment < NSegments

GuessTurnInv == GuessInTurn /\ TreeWalkedInOrder

(* A thread that moves while it waits leaves one thread busy at most.       *)
LEMMA GuessOneBusy ==
  ASSUME GuessTypeOK, GuessInTurn, NEW t \in Threads, NEW l, Goto(t, l), waited'
  PROVE  /\ waited
         /\ pc[t] # "idle" \/ l # "idle" => \A s \in Threads \ {t} : pc[s] = "idle"
         /\ \A s, u \in Threads : pc'[s] # "idle" /\ pc'[u] # "idle" => s = u
<1>1. waited /\ (l = "idle" \/ \A s \in Threads \ {t} : pc[s] = "idle")
  BY DEF Goto
<1>2. pc'[t] = l /\ \A s \in Threads \ {t} : pc'[s] = pc[s]
  BY DEF Goto, GuessTypeOK
<1>3. pc[t] # "idle" \/ l # "idle" => \A s \in Threads \ {t} : pc[s] = "idle"
  BY <1>1 DEF GuessInTurn
<1>4. ASSUME NEW s \in Threads, NEW u \in Threads, pc'[s] # "idle", pc'[u] # "idle"
      PROVE  s = u
  <2>1. CASE l = "idle"
    <3>1. s # t /\ u # t BY <1>2, <1>4, <2>1
    <3>2. pc[s] # "idle" /\ pc[u] # "idle" BY <1>2, <1>4, <3>1
    <3> QED BY <1>1, <3>2 DEF GuessInTurn
  <2>2. CASE l # "idle" BY <1>2, <1>3, <1>4, <2>2
  <2> QED BY <2>1, <2>2
<1> QED BY <1>1, <1>3, <1>4

(* A step that leaves the segments and the estimates alone.                 *)
LEMMA GuessTurnFrame ==
  ASSUME GuessTypeOK, GuessTurnInv, NEW t \in Threads, NEW l, Goto(t, l),
         UNCHANGED <<segment, estimates>>,
         \A s \in Threads \ {t} : locals'[s] = locals[s],
         waited /\ l = "submitting" => locals'[t].shown = segment,
         waited /\ l = "recording" =>
           locals'[t].shown = segment /\ locals'[t].taken = segment /\ segment < NSegments
  PROVE  GuessTurnInv'
<1>1. SUFFICES ASSUME waited' PROVE GuessTurnInv'
  BY DEF GuessTurnInv, GuessInTurn, TreeWalkedInOrder
<1>2. waited /\ \A s, u \in Threads : pc'[s] # "idle" /\ pc'[u] # "idle" => s = u
  BY <1>1, GuessOneBusy DEF GuessTurnInv
<1>3. pc'[t] = l /\ \A s \in Threads \ {t} : pc'[s] = pc[s]
  BY DEF Goto, GuessTypeOK
<1>4. \A s \in Threads : pc'[s] = "submitting" => locals'[s].shown = segment'
  BY <1>2, <1>3 DEF GuessTurnInv, GuessInTurn
<1>5. \A s \in Threads : pc'[s] = "recording" =>
        locals'[s].shown = segment' /\ locals'[s].taken = segment' /\ segment' < NSegments
  BY <1>2, <1>3 DEF GuessTurnInv, GuessInTurn
<1>6. TreeWalkedInOrder' BY <1>2 DEF GuessTurnInv, TreeWalkedInOrder
<1> QED BY <1>2, <1>4, <1>5, <1>6 DEF GuessTurnInv, GuessInTurn

(* The actions of act keep it.                                              *)
LEMMA GuessActInTurn ==
  ASSUME GuessTypeOK, CountInv, GuessTurnInv, NEW t \in Threads, GuessStep(t)
  PROVE  GuessTurnInv'
<1>0. locals[t] \in GuessLocals /\ locals \in [Threads -> GuessLocals] BY
    DEF GuessTypeOK
<1>1. CASE AdvanceGuess(t)
  BY <1>1, GuessTurnFrame DEF AdvanceGuess, flowVars
<1>2. CASE AdvanceRefused(t)
  BY <1>2 DEF AdvanceRefused, guessVars, flowVars, GuessTurnInv, GuessInTurn,
         TreeWalkedInOrder
<1>3. CASE LeaveStep(t)
  BY <1>3, GuessTurnFrame DEF LeaveStep
<1>4. CASE Estimate(t)
  <2>1. locals' = [locals EXCEPT ![t].shown = segment] BY <1>4 DEF Estimate
  <2>2. locals'[t].shown = segment /\ \A s \in Threads \ {t} : locals'[s] = locals[s]
    BY <1>0, <2>1 DEF GuessLocals
  <2> QED BY <1>4, <2>2, GuessTurnFrame DEF Estimate, flowVars
<1>5. CASE TakeSegment(t)
  <2>1. CASE Estimating
    <3>1. locals' = [locals EXCEPT ![t].taken = segment] /\ Goto(t, "recording")
      BY <1>5, <2>1 DEF TakeSegment
    <3>2. /\ locals'[t].taken = segment /\ locals'[t].shown = locals[t].shown
          /\ \A s \in Threads \ {t} : locals'[s] = locals[s]
      BY <1>0, <3>1 DEF GuessLocals
    <3>3. waited => locals[t].shown = segment
      BY <1>5 DEF TakeSegment, GuessTurnInv, GuessInTurn
    <3> QED BY <1>5, <2>1, <3>1, <3>2, <3>3, GuessTurnFrame
            DEF TakeSegment, flowVars, Estimating
  <2>2. CASE ~Estimating
    BY <1>5, <2>2, GuessTurnFrame DEF TakeSegment, flowVars
  <2> QED BY <2>1, <2>2
<1>6. CASE RecordEstimate(t)
  <2>1. SUFFICES ASSUME waited' PROVE GuessTurnInv'
    BY DEF GuessTurnInv, GuessInTurn, TreeWalkedInOrder
  <2>2. Goto(t, "counting") /\ pc[t] = "recording" BY <1>6 DEF RecordEstimate
  <2>3. /\ waited
        /\ \A s \in Threads \ {t} : pc[s] = "idle"
        /\ \A s, u \in Threads : pc'[s] # "idle" /\ pc'[u] # "idle" => s = u
    BY <2>1, <2>2, GuessOneBusy DEF GuessTurnInv
  <2>4. pc'[t] = "counting" /\ \A s \in Threads \ {t} : pc'[s] = "idle"
    BY <2>2, <2>3 DEF Goto, GuessTypeOK
  <2>5. /\ locals[t].shown = segment /\ locals[t].taken = segment /\ segment < NSegments
    BY <2>2, <2>3 DEF GuessTurnInv, GuessInTurn
  <2>6. Len(estimates) = segment
    <3>1. At(Counted) = {} BY <2>2, <2>3 DEF At, Counted
    <3> QED BY <3>1, FS_EmptySet DEF CountInv, GuessTypeOK
  <2>7. TreeWalkedInOrder'
    <3> DEFINE e == [segment |-> locals[t].taken, shown |-> locals[t].shown]
    <3>1. estimates' = Append(estimates, e) BY <1>6 DEF RecordEstimate
    <3>2. estimates \in Seq([segment : 0 .. NSegments - 1, shown : 0 .. NSegments - 1])
      BY DEF GuessTypeOK
    <3>3. e.segment = segment /\ e.shown = segment BY <2>5
    <3> HIDE DEF e
    <3>4. Len(estimates') = segment + 1 /\ segment + 1 <= NSegments
      BY <2>5, <2>6, <3>1, <3>2, GuessAssumption DEF GuessTypeOK
    <3>5. ASSUME NEW k \in 1 .. Len(estimates')
          PROVE  estimates'[k].segment = k - 1 /\ estimates'[k].shown = k - 1
      <4>1. CASE k = segment + 1
        BY <2>6, <3>1, <3>2, <3>3, <4>1 DEF GuessTypeOK
      <4>2. CASE k # segment + 1
        <5>1. k \in 1 .. Len(estimates) BY <2>6, <3>4, <3>5, <4>2
            DEF GuessTypeOK
        <5>2. estimates'[k] = estimates[k] BY <3>1, <3>2, <5>1
        <5> QED BY <2>3, <5>1, <5>2 DEF GuessTurnInv, TreeWalkedInOrder
      <4> QED BY <4>1, <4>2
    <3> QED BY <3>4, <3>5 DEF TreeWalkedInOrder
  <2> QED BY <2>3, <2>4, <2>7 DEF GuessTurnInv, GuessInTurn
<1>7. CASE CountSegment(t)
  <2>1. SUFFICES ASSUME waited' PROVE GuessTurnInv'
    BY DEF GuessTurnInv, GuessInTurn, TreeWalkedInOrder
  <2>2. PICK l \in {"closing", "idle"} : Goto(t, l)
    BY <1>7 DEF CountSegment
  <2>3. pc[t] = "counting" /\ estimates' = estimates BY <1>7 DEF CountSegment
  <2>4. /\ waited
        /\ \A s \in Threads \ {t} : pc[s] = "idle"
        /\ \A s, u \in Threads : pc'[s] # "idle" /\ pc'[u] # "idle" => s = u
    BY <2>1, <2>2, <2>3, GuessOneBusy DEF GuessTurnInv
  <2>5. \A s \in Threads : pc'[s] \in {"closing", "idle"}
    BY <2>2, <2>4 DEF Goto, GuessTypeOK
  <2>6. TreeWalkedInOrder' BY <2>3, <2>4 DEF GuessTurnInv, TreeWalkedInOrder
  <2> QED BY <2>4, <2>5, <2>6 DEF GuessTurnInv, GuessInTurn
<1>8. CASE CloseEstimation(t)
  BY <1>8, GuessTurnFrame DEF CloseEstimation
<1> QED BY <1>1, <1>2, <1>3, <1>4, <1>5, <1>6, <1>7, <1>8 DEF GuessStep

(* A message does not move the tree.                                        *)
LEMMA GuessMessageInTurn ==
  ASSUME GuessTypeOK, GuessTurnInv, NEW t \in Threads, GuessMessage(t)
  PROVE  GuessTurnInv'
<1>1. PICK l \in TalkPlaces : Goto(t, l) BY GuessMessagePlace
<1>2. l \notin {"submitting", "recording"} BY <1>1 DEF TalkPlaces
<1>3. UNCHANGED <<segment, estimates, locals>> BY DEF GuessMessage, flowVars
<1> QED BY <1>1, <1>2, <1>3, GuessTurnFrame

(* For a user who has waited for each answer, every estimate is of the next *)
(* segment and checked against it, however long the tree.                   *)
THEOREM GuessInOrder == GuessSpec => []TreeWalkedInOrder
<1>1. GuessInit => GuessTurnInv
  <2> SUFFICES ASSUME GuessInit PROVE GuessTurnInv OBVIOUS
  <2>1. \A t \in Threads : pc[t] = "idle" BY DEF GuessInit, TalkInit
  <2>2. TreeWalkedInOrder
    <3>1. Len(estimates) = 0 BY DEF GuessInit
    <3> QED BY <3>1, GuessAssumption DEF TreeWalkedInOrder
  <2> QED BY <2>1, <2>2 DEF GuessTurnInv, GuessInTurn
<1>2. GuessIInv /\ GuessTurnInv /\ [GuessNext]_guessVars => GuessTurnInv'
  <2> SUFFICES ASSUME GuessIInv, GuessTurnInv, [GuessNext]_guessVars PROVE GuessTurnInv' OBVIOUS
  <2>1. CASE UNCHANGED guessVars
    BY <2>1
       DEF guessVars, flowVars, GuessTurnInv, GuessInTurn, TreeWalkedInOrder
  <2>2. ASSUME NEW t \in Threads, GuessStep(t) PROVE GuessTurnInv'
    BY <2>2, GuessActInTurn DEF GuessIInv
  <2>3. ASSUME NEW t \in Threads, GuessMessage(t) PROVE GuessTurnInv'
    BY <2>3, GuessMessageInTurn DEF GuessIInv
  <2> QED BY <2>1, <2>2, <2>3 DEF GuessNext
<1>3. GuessTurnInv => TreeWalkedInOrder BY DEF GuessTurnInv
<1> QED BY <1>1, <1>2, <1>3, GuessInvariant, PTL DEF GuessSpec
=============================================================================
