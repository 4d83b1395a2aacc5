-------------------------- MODULE WebClient_proofs --------------------------
(***************************************************************************)
(* Proofs about WebClient, for any number of requests, answers in any order,*)
(* sentences and recordings.                                                *)
(*                                                                          *)
(* What is claimed in every interleaving follows from what the handlers do  *)
(* to the state they share: OrderInv for the queue of sentences, EverInv    *)
(* for the rest.  What is claimed while the user waits follows from what a  *)
(* click then finds: no request and no sentence under way.  CalmInv says    *)
(* what the one request that can be under way knows of the page.            *)
(***************************************************************************)
EXTENDS WebClient, FiniteSetTheorems, SequenceTheorems, TLAPS

(* Sentences are started, and wait, in the order they arrive.               *)
Rising(s) == \A i, j \in 1 .. Len(s) : i < j => s[i] < s[j]

Below(s, q) == \A i \in 1 .. Len(s), j \in 1 .. Len(q) : s[i] < q[j]

OrderInv ==
  /\ arrived \in Nat
  /\ audioQueue \in Seq(1 .. arrived) /\ started \in Seq(1 .. arrived)
  /\ Rising(started) /\ Rising(audioQueue) /\ Below(started, audioQueue)

(* The first m that wait are started.                                       *)
LEMMA TakeFirst ==
  ASSUME NEW n \in Nat, NEW s \in Seq(1 .. n), NEW q \in Seq(1 .. n),
         Rising(s), Rising(q), Below(s, q), NEW m \in 0 .. Len(q)
  PROVE  LET taken == SubSeq(q, 1, m)
             rest == SubSeq(q, m + 1, Len(q))
         IN  /\ taken \in Seq(1 .. n) /\ rest \in Seq(1 .. n)
             /\ s \o taken \in Seq(1 .. n)
             /\ Rising(s \o taken) /\ Rising(rest) /\ Below(s \o taken, rest)
<1> DEFINE taken == SubSeq(q, 1, m)
           rest == SubSeq(q, m + 1, Len(q))
           both == s \o taken
<1>0. Len(s) \in Nat /\ Len(q) \in Nat
  OBVIOUS
<1>1. /\ taken \in Seq(1 .. n) /\ Len(taken) = m
      /\ \A i \in 1 .. m : taken[i] = q[i] /\ i \in 1 .. Len(q)
  <2>1. taken \in Seq(1 .. n) /\ Len(taken) = m
    BY <1>0, SubSeqProperties
  <2>2. \A i \in 1 .. m : taken[i] = q[i]
    BY <1>0, SubSeqProperties
  <2> QED
    BY <1>0, <2>1, <2>2
<1>2. /\ rest \in Seq(1 .. n) /\ Len(rest) = Len(q) - m
      /\ \A i \in 1 .. Len(q) - m : rest[i] = q[i + m] /\ i + m \in 1 .. Len(q)
  <2>1. rest \in Seq(1 .. n) /\ Len(rest) = Len(q) - m
    BY <1>0, SubSeqProperties
  <2>2. \A i \in 1 .. Len(q) - m : rest[i] = q[i + m]
    BY <1>0, SubSeqProperties
  <2> QED
    BY <1>0, <2>1, <2>2
<1> HIDE DEF taken, rest
<1>3. /\ both \in Seq(1 .. n) /\ Len(both) = Len(s) + m
      /\ \A i \in 1 .. Len(s) : both[i] = s[i]
      /\ \A i \in Len(s) + 1 .. Len(s) + m :
           both[i] = taken[i - Len(s)] /\ i - Len(s) \in 1 .. m
  <2>1. both \in Seq(1 .. n) /\ Len(both) = Len(s) + m
    BY <1>1, ConcatProperties
  <2>2. \A i \in 1 .. Len(s) + m :
          both[i] = IF i <= Len(s) THEN s[i] ELSE taken[i - Len(s)]
    BY <1>1, ConcatProperties
  <2> QED
    BY <1>0, <2>1, <2>2
<1> HIDE DEF both
(* What the places hold, without arithmetic on what they are.               *)
<1>6. Len(rest) = Len(q) - m /\ Len(both) = Len(s) + m
  BY <1>2, <1>3
<1>7. ASSUME NEW i \in 1 .. Len(rest)
      PROVE  /\ i + m \in 1 .. Len(q) /\ rest[i] = q[i + m]
  BY <1>0, <1>2
<1>8. ASSUME NEW i \in 1 .. Len(both)
      PROVE  /\ i <= Len(s) => i \in 1 .. Len(s) /\ both[i] = s[i]
             /\ ~(i <= Len(s)) => /\ i - Len(s) \in 1 .. Len(q) /\ i - Len(s) <= m
                                 /\ both[i] = q[i - Len(s)]
  <2>1. CASE i <= Len(s)
    BY <1>0, <1>3, <2>1
  <2>2. CASE ~(i <= Len(s))
    <3>1. i \in Len(s) + 1 .. Len(s) + m
      BY <1>0, <1>6, <2>2
    <3>2. both[i] = taken[i - Len(s)] /\ i - Len(s) \in 1 .. m
      BY <1>3, <3>1
    <3> QED
      BY <1>0, <1>1, <2>2, <3>2
  <2> QED
    BY <2>1, <2>2
<1>9. Rising(rest)
  <2> SUFFICES ASSUME NEW i \in 1 .. Len(rest), NEW j \in 1 .. Len(rest), i < j
               PROVE  rest[i] < rest[j]
    BY DEF Rising
  <2>1. i + m < j + m
    BY <1>0, <1>6
  <2>2. q[i + m] < q[j + m]
    BY <1>7, <2>1 DEF Rising
  <2> QED
    BY <1>7, <2>2
<1>10. Rising(both)
  <2> SUFFICES ASSUME NEW i \in 1 .. Len(both), NEW j \in 1 .. Len(both), i < j
               PROVE  both[i] < both[j]
    BY DEF Rising
  <2>0. i \in Int /\ j \in Int
    BY <1>0, <1>6
  <2>1. CASE j <= Len(s)
    <3>1. i <= Len(s)
      BY <1>0, <2>0, <2>1
    <3>2. s[i] < s[j]
      BY <1>8, <2>1, <3>1 DEF Rising
    <3> QED
      BY <1>8, <2>1, <3>1, <3>2
  <2>2. CASE i <= Len(s) /\ ~(j <= Len(s))
    <3>1. s[i] < q[j - Len(s)]
      BY <1>8, <2>2 DEF Below
    <3> QED
      BY <1>8, <2>2, <3>1
  <2>3. CASE ~(i <= Len(s))
    <3>1. ~(j <= Len(s)) /\ i - Len(s) < j - Len(s)
      BY <1>0, <2>0, <2>3
    <3>2. q[i - Len(s)] < q[j - Len(s)]
      BY <1>8, <2>3, <3>1 DEF Rising
    <3> QED
      BY <1>8, <2>3, <3>1, <3>2
  <2> QED
    BY <2>1, <2>2, <2>3
<1>11. Below(both, rest)
  <2> SUFFICES ASSUME NEW i \in 1 .. Len(both), NEW j \in 1 .. Len(rest)
               PROVE  both[i] < rest[j]
    BY DEF Below
  <2>0. i \in Int /\ j \in Int /\ 1 <= j
    BY <1>0, <1>6
  <2>1. CASE i <= Len(s)
    <3>1. s[i] < q[j + m]
      BY <1>7, <1>8, <2>1 DEF Below
    <3> QED
      BY <1>7, <1>8, <2>1, <3>1
  <2>2. CASE ~(i <= Len(s))
    <3>1. i - Len(s) < j + m
      BY <1>0, <1>8, <2>0, <2>2
    <3>2. q[i - Len(s)] < q[j + m]
      BY <1>7, <1>8, <2>2, <3>1 DEF Rising
    <3> QED
      BY <1>7, <1>8, <2>2, <3>2
  <2> QED
    BY <2>1, <2>2
<1> QED
  BY <1>1, <1>2, <1>3, <1>9, <1>10, <1>11 DEF taken, rest, both

(* playNextAudio takes the first, if there is one.                          *)
LEMMA PlayNextOrder ==
  ASSUME NEW n \in Nat, NEW q \in Seq(1 .. n), started \in Seq(1 .. n),
         Rising(started), Rising(q), Below(started, q), NEW live, PlayNext(q, live)
  PROVE  /\ audioQueue' \in Seq(1 .. n) /\ started' \in Seq(1 .. n)
         /\ Rising(started') /\ Rising(audioQueue') /\ Below(started', audioQueue')
<1>1. CASE q = <<>>
  BY <1>1 DEF PlayNext
<1>2. CASE q # <<>>
  <2>1. audioQueue' = Tail(q) /\ started' = Append(started, Head(q))
    BY <1>2 DEF PlayNext
  <2>2. Len(q) \in Nat \ {0} /\ Head(q) \in 1 .. n
    BY <1>2, EmptySeq, HeadTailProperties
  <2>3. SubSeq(q, 1, 1) = <<Head(q)>>
    <3>1. \A i \in 1 .. 1 : q[i] \in 1 .. n
      BY <2>2, ElementOfSeq
    <3>2. /\ SubSeq(q, 1, 1) \in Seq(1 .. n) /\ Len(SubSeq(q, 1, 1)) = 1
          /\ SubSeq(q, 1, 1)[1] = q[1]
      BY <3>1, SubSeqProperties
    <3>3. Head(q) = q[1]
      BY <1>2
    <3>4. <<Head(q)>> \in Seq(1 .. n) /\ Len(<<Head(q)>>) = 1 /\ <<Head(q)>>[1] = Head(q)
      BY <2>2
    <3> DEFINE one == SubSeq(q, 1, 1)
               head == <<Head(q)>>
    <3> HIDE DEF one, head
    <3>5. /\ one \in Seq(1 .. n) /\ head \in Seq(1 .. n) /\ Len(one) = Len(head)
          /\ \A i \in 1 .. Len(one) : one[i] = head[i]
      BY <3>2, <3>3, <3>4 DEF one, head
    <3>6. one = head
      BY <3>5, SeqEqual
    <3> QED
      BY <3>6 DEF one, head
  <2>4. SubSeq(q, 1 + 1, Len(q)) = Tail(q)
    BY <1>2, TailIsSubSeq
  <2>5. started \o <<Head(q)>> = Append(started, Head(q))
    BY <2>2, AppendIsConcat
  <2>6. 1 \in 0 .. Len(q)
    BY <2>2
  <2>7. LET taken == SubSeq(q, 1, 1)
            rest == SubSeq(q, 1 + 1, Len(q))
        IN  /\ started \o taken \in Seq(1 .. n) /\ rest \in Seq(1 .. n)
            /\ Rising(started \o taken) /\ Rising(rest) /\ Below(started \o taken, rest)
    BY <2>6, TakeFirst
  <2> QED
    BY <2>1, <2>3, <2>4, <2>5, <2>7
<1> QED
  BY <1>1, <1>2

(* A sentence that arrives is later than all before.                        *)
LEMMA QueuedOrder ==
  ASSUME OrderInv
  PROVE  /\ Queued \in Seq(1 .. arrived + 1) /\ started \in Seq(1 .. arrived + 1)
         /\ Rising(Queued) /\ Below(started, Queued)
<1>1. /\ arrived \in Nat /\ arrived + 1 \in 1 .. arrived + 1
      /\ audioQueue \in Seq(1 .. arrived + 1) /\ started \in Seq(1 .. arrived + 1)
      /\ Len(audioQueue) \in Nat /\ Len(started) \in Nat
  BY DEF OrderInv
<1>2. /\ Queued \in Seq(1 .. arrived + 1)
      /\ Len(Queued) = Len(audioQueue) + 1
      /\ \A i \in 1 .. Len(audioQueue) : Queued[i] = audioQueue[i]
      /\ Queued[Len(audioQueue) + 1] = arrived + 1
  BY <1>1, AppendProperties DEF Queued
<1>3. /\ \A i \in 1 .. Len(audioQueue) : audioQueue[i] \in 1 .. arrived
      /\ \A i \in 1 .. Len(started) : started[i] \in 1 .. arrived
  BY ElementOfSeq DEF OrderInv
<1>4. ASSUME NEW i \in 1 .. Len(Queued)
      PROVE  i \in 1 .. Len(audioQueue) \/ i = Len(audioQueue) + 1
  BY <1>1, <1>2
<1>5. Rising(Queued)
  <2> SUFFICES ASSUME NEW i \in 1 .. Len(Queued), NEW j \in 1 .. Len(Queued), i < j
               PROVE  Queued[i] < Queued[j]
    BY DEF Rising
  <2>1. i \in 1 .. Len(audioQueue)
    BY <1>1, <1>2
  <2>2. CASE j \in 1 .. Len(audioQueue)
    BY <1>2, <2>1, <2>2 DEF OrderInv, Rising
  <2>3. CASE j = Len(audioQueue) + 1
    <3>1. Queued[i] \in 1 .. arrived /\ Queued[j] = arrived + 1
      BY <1>2, <1>3, <2>1, <2>3
    <3> QED
      BY <1>1, <3>1
  <2> QED
    BY <1>4, <2>2, <2>3
<1>6. Below(started, Queued)
  <2> SUFFICES ASSUME NEW i \in 1 .. Len(started), NEW j \in 1 .. Len(Queued)
               PROVE  started[i] < Queued[j]
    BY DEF Below
  <2>1. CASE j \in 1 .. Len(audioQueue)
    BY <1>2, <2>1 DEF OrderInv, Below
  <2>2. CASE j = Len(audioQueue) + 1
    <3>1. started[i] \in 1 .. arrived /\ Queued[j] = arrived + 1
      BY <1>2, <1>3, <2>2
    <3> QED
      BY <1>1, <3>1
  <2> QED
    BY <1>4, <2>1, <2>2
<1> QED
  BY <1>1, <1>2, <1>5, <1>6

(* What a step does to the sentences.                                       *)
AudioStep ==
  \/ Enqueue
  \/ \E k \in players : PlayerEnds(k) \/ PlayerRefused(k)
  \/ StopAudio
  \/ UNCHANGED audioVars

(* Whatever the page does, its player makes one of these steps.             *)
LEMMA StepIsAudioStep == [Next]_vars => AudioStep
  BY DEF Next, Clicks, ClickStart, ClickInView, ClickSend, ClickQuit, ClickSprint,
         ClickGrade, CloseDrills, ClickDashboard, CloseDashboard, ClickSpeak, ClickStop,
         Arrives, Started, Rendered, RenderThrows, ExhibitShown, ReviewShown,
         ReviewThrows, Speaks,
         Streamed, SprintOpens, SprintGraded, GradeThrows, DashboardOpens, Recording,
         Uploads, Transcribed, NotTranscribed, Lost, Plays, EndOfSentence,
         SentenceFails, vars, AudioStep

(* Each of them keeps the order.                                            *)
LEMMA OrderStep == OrderInv /\ AudioStep => OrderInv'
<1> SUFFICES ASSUME OrderInv, AudioStep PROVE OrderInv'
  OBVIOUS
<1>1. CASE Enqueue
  <2>1. arrived' = arrived + 1 /\ arrived + 1 \in Nat
    BY <1>1 DEF Enqueue, OrderInv
  <2>2. CASE audioPlaying
    BY <1>1, <2>1, <2>2, QueuedOrder DEF Enqueue, OrderInv
  <2>3. CASE ~audioPlaying
    <3>1. PlayNext(Queued, players)
      BY <1>1, <2>3 DEF Enqueue
    <3> QED
      BY <2>1, <3>1, QueuedOrder, PlayNextOrder DEF OrderInv
  <2> QED
    BY <2>2, <2>3
<1>2. ASSUME NEW k \in players, PlayerEnds(k) PROVE OrderInv'
  BY <1>2, PlayNextOrder DEF PlayerEnds, OrderInv
<1>3. ASSUME NEW k \in players, PlayerRefused(k) PROVE OrderInv'
  <2> DEFINE m == IF Len(audioQueue) < 2 THEN Len(audioQueue) ELSE 2
  <2>1. m \in 0 .. Len(audioQueue) /\ Len(SubSeq(audioQueue, 1, m)) = m
    BY DEF OrderInv
  <2>2. /\ arrived' = arrived
        /\ audioQueue' = SubSeq(audioQueue, m + 1, Len(audioQueue))
        /\ started' = started \o SubSeq(audioQueue, 1, m)
    BY <1>3, <2>1 DEF PlayerRefused
  <2> HIDE DEF m
  <2> QED
    BY <2>1, <2>2, TakeFirst DEF OrderInv
<1>4. CASE StopAudio
  BY <1>4 DEF StopAudio, OrderInv, Rising, Below
<1>5. CASE UNCHANGED audioVars
  BY <1>5 DEF audioVars, OrderInv
<1> QED
  BY <1>1, <1>2, <1>3, <1>4, <1>5 DEF AudioStep

(* "Queue so sentences play in order" (app.js:687): with any number of      *)
(* sentences, failures to play and sessions that are quit, no sentence is   *)
(* started before an earlier one, or twice.                                 *)
THEOREM SentencesInOrder == Spec => []StartedInOrder
<1>1. Init => OrderInv
  BY DEF Init, AudioInit, OrderInv, Rising, Below
<1>2. OrderInv => StartedInOrder
  <2>1. OrderInv => DOMAIN started = 1 .. Len(started)
    BY DEF OrderInv
  <2> QED
    BY <2>1 DEF OrderInv, StartedInOrder, Rising
<1> QED
  BY <1>1, <1>2, StepIsAudioStep, OrderStep, PTL DEF Spec

-----------------------------------------------------------------------------
(* The sentences that play have arrived.                                    *)
LEMMA AudioType ==
  ASSUME OrderInv, AudioTypeOK, AudioStep
  PROVE  AudioTypeOK'
<1>1. OrderInv'
  BY OrderStep
<1>2. ASSUME NEW n \in Nat, NEW q \in Seq(1 .. n), NEW live, live \subseteq 1 .. n,
             PlayNext(q, live)
      PROVE  audioPlaying' \in BOOLEAN /\ players' \subseteq 1 .. n
  <2>1. q # <<>> => Head(q) \in 1 .. n
    BY HeadTailProperties
  <2> QED
    BY <1>2, <2>1 DEF PlayNext
<1>3. audioPlaying' \in BOOLEAN /\ players' \subseteq 1 .. arrived'
  <2>1. CASE Enqueue
    <3>1. /\ arrived' = arrived + 1 /\ arrived + 1 \in Nat
          /\ players \subseteq 1 .. arrived + 1
      BY <2>1 DEF Enqueue, AudioTypeOK
    <3>2. CASE audioPlaying
      BY <2>1, <3>1, <3>2 DEF Enqueue, AudioTypeOK
    <3>3. CASE ~audioPlaying
      <4>1. PlayNext(Queued, players)
        BY <2>1, <3>3 DEF Enqueue
      <4> QED
        BY <1>2, <3>1, <4>1, QueuedOrder
    <3> QED
      BY <3>2, <3>3
  <2>2. ASSUME NEW k \in players, PlayerEnds(k)
        PROVE  audioPlaying' \in BOOLEAN /\ players' \subseteq 1 .. arrived'
    BY <1>2, <2>2 DEF PlayerEnds, AudioTypeOK
  <2>3. ASSUME NEW k \in players, PlayerRefused(k)
        PROVE  audioPlaying' \in BOOLEAN /\ players' \subseteq 1 .. arrived'
    <3> DEFINE m == IF Len(audioQueue) < 2 THEN Len(audioQueue) ELSE 2
               taken == SubSeq(audioQueue, 1, m)
    <3>1. m \in 0 .. Len(audioQueue)
      BY DEF OrderInv
    <3>2. taken \in Seq(1 .. arrived)
      BY <3>1, TakeFirst DEF OrderInv
    <3>3. /\ arrived' = arrived /\ audioPlaying' \in BOOLEAN
          /\ players' = (players \ {k}) \cup {taken[i] : i \in DOMAIN taken}
      BY <2>3 DEF PlayerRefused
    <3> HIDE DEF taken
    <3>4. \A i \in DOMAIN taken : taken[i] \in 1 .. arrived
      BY <3>2, ElementOfSeq, LenProperties
    <3> QED
      BY <3>3, <3>4 DEF AudioTypeOK
  <2>4. CASE StopAudio \/ UNCHANGED audioVars
    BY <2>4 DEF StopAudio, audioVars, AudioTypeOK
  <2> QED
    BY <2>1, <2>2, <2>3, <2>4 DEF AudioStep
<1> QED
  BY <1>1, <1>3 DEF OrderInv, AudioTypeOK

(* What holds of the page in every interleaving.                            *)
EverInv ==
  /\ OrderInv /\ TypeOK
  /\ \A f \in flights : f.n # 0
  /\ recorder = "recording" => microphones # 0
  /\ drillId \in {0, form}
  /\ SpokenOncePerRecording

(* A request that is sent.                                                  *)
LEMMA SendType ==
  ASSUME EverInv, NEW kind \in {"start", "act", "exhibit", "review", "message", "audio",
                                "sprint", "grade", "dashboard", "microphone", "stop"},
         NEW sid \in Nat, NEW speak \in BOOLEAN, Send(kind, sid, speak)
  PROVE  /\ flights' \subseteq Flight /\ \A f \in flights' : f.n # 0
         /\ issued' \in Nat
<1>1. issued \in Nat /\ issued + 1 # 0 /\ flights \subseteq Flight
  BY DEF EverInv, TypeOK
<1>2. [n |-> issued + 1, kind |-> kind, sid |-> sid, speak |-> speak] \in Flight
  BY <1>1 DEF Flight
<1> QED
  BY <1>1, <1>2 DEF Send, EverInv

(* The clicks, but for what they do to the sentences.                       *)
LEMMA ClickKeeps ==
  ASSUME EverInv, AudioTypeOK', Clicks
  PROVE  TypeOK' /\ (\A f \in flights : f.n # 0)'
         /\ (recorder = "recording" => microphones # 0)'
         /\ (drillId \in {0, form})' /\ SpokenOncePerRecording'
<1> USE DEF EverInv, TypeOK, SpokenOncePerRecording, Click, pageVars, shownVars,
            drillVars, micVars, netVars, Shows
<1>1. CASE ClickStart BY <1>1, SendType DEF ClickStart
<1>2. CASE ClickInView
  <2>1. PICK kind \in {"act", "exhibit", "review"} : Send(kind, sessionId, FALSE)
    BY <1>2 DEF ClickInView
  <2> QED
    BY <1>2, <2>1, SendType DEF ClickInView
<1>3. CASE ClickSend
  <2>1. /\ flights' \subseteq Flight /\ (\A f \in flights' : f.n # 0) /\ issued' \in Nat
    BY <1>3, SendType DEF ClickSend
  <2>2. turns' \subseteq Nat
    BY <1>3 DEF ClickSend
  <2>3. /\ voiceTurn' = FALSE /\ recorded' = recorded
        /\ spoken' = IF voiceTurn THEN spoken + 1 ELSE spoken
    BY <1>3 DEF ClickSend, TakeVoiceTurn
  <2>4. spoken' \in Nat /\ spoken' + (IF voiceTurn' THEN 1 ELSE 0) <= recorded'
    BY <2>3
  <2> QED
    BY <1>3, <2>1, <2>2, <2>3, <2>4 DEF ClickSend
<1>4. CASE ClickQuit BY <1>4 DEF ClickQuit
<1>5. CASE ClickSprint BY <1>5, SendType DEF ClickSprint
<1>6. CASE ClickGrade BY <1>6, SendType DEF ClickGrade
<1>7. CASE CloseDrills BY <1>7 DEF CloseDrills
<1>8. CASE ClickDashboard BY <1>8, SendType DEF ClickDashboard
<1>9. CASE CloseDashboard BY <1>9 DEF CloseDashboard
<1>10. CASE ClickSpeak BY <1>10, SendType DEF ClickSpeak
<1>11. CASE ClickStop
  <2>1. /\ flights' \subseteq Flight /\ (\A f \in flights' : f.n # 0) /\ issued' \in Nat
    BY <1>11, SendType DEF ClickStop
  <2>2. microphones' \in Nat
    BY <1>11 DEF ClickStop, ReleaseTracks
  <2>3. recorder' = "inactive" /\ calm' \in BOOLEAN
    BY <1>11 DEF ClickStop
  <2> QED
    BY <1>11, <2>1, <2>2, <2>3 DEF ClickStop
<1> QED
  BY <1>1, <1>2, <1>3, <1>4, <1>5, <1>6, <1>7, <1>8, <1>9, <1>10, <1>11 DEF Clicks

(* The answers, in any order.                                               *)
LEMMA AnswerKeeps ==
  ASSUME EverInv, AudioTypeOK', NEW f \in flights, Arrives(f)
  PROVE  TypeOK' /\ (\A g \in flights : g.n # 0)'
         /\ (recorder = "recording" => microphones # 0)'
         /\ (drillId \in {0, form})' /\ SpokenOncePerRecording'
<1>1. f \in Flight /\ f.n \in Nat /\ f.sid \in Nat /\ f.n # 0
  BY DEF EverInv, TypeOK, Flight
<1> USE <1>1 DEF EverInv, TypeOK, SpokenOncePerRecording, Answered, pageVars, shownVars,
                 drillVars, micVars, netVars, Shows
<1>2. CASE Started(f) BY <1>2 DEF Started
<1>3. CASE Rendered(f) BY <1>3 DEF Rendered
<1>4. CASE RenderThrows(f) BY <1>4 DEF RenderThrows
<1>5. CASE ExhibitShown(f) BY <1>5 DEF ExhibitShown
<1>6. CASE ReviewShown(f) BY <1>6 DEF ReviewShown
<1>18. CASE ReviewThrows(f) BY <1>18 DEF ReviewThrows
<1>7. CASE Speaks(f) BY <1>7 DEF Speaks
<1>8. CASE Streamed(f) BY <1>8 DEF Streamed
<1>9. CASE SprintOpens(f) BY <1>9 DEF SprintOpens, OpenForm
<1>10. CASE SprintGraded(f) BY <1>10 DEF SprintGraded
<1>11. CASE GradeThrows(f) BY <1>11 DEF GradeThrows
<1>12. CASE DashboardOpens(f) BY <1>12 DEF DashboardOpens
<1>13. CASE Recording(f) BY <1>13 DEF Recording
<1>14. CASE Uploads(f)
  <2>1. [f EXCEPT !.kind = "audio", !.sid = sessionId] \in Flight
        /\ [f EXCEPT !.kind = "audio", !.sid = sessionId].n = f.n
    BY DEF Flight
  <2> QED
    BY <1>14, <2>1 DEF Uploads
<1>15. CASE Transcribed(f) BY <1>15 DEF Transcribed
<1>16. CASE NotTranscribed(f) BY <1>16 DEF NotTranscribed
<1>17. CASE Lost(f) BY <1>17 DEF Lost
<1> QED
  BY <1>2, <1>3, <1>4, <1>5, <1>6, <1>7, <1>8, <1>9, <1>10, <1>11, <1>12, <1>13, <1>14,
     <1>15, <1>16, <1>17, <1>18 DEF Arrives

(* So every step keeps it.                                                  *)
LEMMA EverStep == EverInv /\ [Next]_vars => EverInv'
<1> SUFFICES ASSUME EverInv, [Next]_vars PROVE EverInv'
  OBVIOUS
<1>1. OrderInv' /\ AudioTypeOK'
  BY StepIsAudioStep, OrderStep, AudioType DEF EverInv, TypeOK
<1>2. CASE Clicks
  BY <1>1, <1>2, ClickKeeps DEF EverInv
<1>3. ASSUME NEW f \in flights, Arrives(f) PROVE EverInv'
  BY <1>1, <1>3, AnswerKeeps DEF EverInv
<1>4. CASE Plays \/ UNCHANGED vars
  <2>1. /\ UNCHANGED <<pageVars, drillVars, micVars, netVars>>
        /\ calm' \in {calm, FALSE}
    BY <1>4 DEF Plays, EndOfSentence, SentenceFails, vars
  <2> QED
    BY <1>1, <2>1 DEF pageVars, shownVars, drillVars, micVars, netVars, EverInv, TypeOK,
         SpokenOncePerRecording
<1> QED
  BY <1>2, <1>3, <1>4 DEF Next

(* The page as it is loaded.                                                *)
LEMMA EverInit == Init => EverInv
<1> SUFFICES ASSUME Init PROVE EverInv
  OBVIOUS
<1>1. OrderInv
  BY DEF Init, AudioInit, OrderInv, Rising, Below
<1>2. AudioTypeOK
  BY <1>1 DEF Init, AudioInit, OrderInv, AudioTypeOK
<1>3. TypeOK
  <2>1. sessionId \in Nat /\ view \in Nat /\ buttons \in {0, view} /\ turns \subseteq Nat
    BY DEF Init
  <2>2. panels \subseteq {"library", "session", "drills", "dashboard"}
    BY DEF Init
  <2>3. drillId \in Nat /\ form \in Nat /\ graded \subseteq Nat /\ microphones \in Nat
    BY DEF Init
  <2>4. composer \in BOOLEAN /\ voiceTurn \in BOOLEAN /\ calm \in BOOLEAN
    BY DEF Init
  <2>5. flights \subseteq Flight /\ issued \in Nat /\ recorded \in Nat /\ spoken \in Nat
    BY DEF Init
  <2>6. recorder \in {"none", "recording", "inactive"}
    BY DEF Init
  <2> QED
    BY <1>2, <2>1, <2>2, <2>3, <2>4, <2>5, <2>6 DEF TypeOK
<1>4. SpokenOncePerRecording
  <2>1. spoken = 0 /\ recorded = 0 /\ voiceTurn = FALSE
    BY DEF Init
  <2> QED
    BY <2>1 DEF SpokenOncePerRecording
<1>5. recorder # "recording" /\ flights = {} /\ drillId = 0 /\ form = 0
  BY DEF Init
<1> QED
  BY <1>1, <1>3, <1>4, <1>5 DEF EverInv

(* The page's types.                                                        *)
THEOREM TypeCorrect == Spec => []TypeOK
<1>1. EverInv => TypeOK
  BY DEF EverInv
<1> QED
  BY <1>1, EverInit, EverStep, PTL DEF Spec

-----------------------------------------------------------------------------
(* What the awaited request f says of the page while the user waits for it. *)
Expects(f) ==
  /\ f.kind \in {"start", "sprint", "dashboard"} => panels = {"library"}
  /\ f.kind \in {"act", "exhibit", "review", "message", "audio"} =>
       panels = {"session"} /\ f.sid = sessionId
  /\ f.kind \in {"microphone", "stop"} => panels = {"session"}
  /\ f.kind = "microphone" => recorder # "recording"
  /\ f.kind = "grade" => panels = {"drills"} /\ f.sid = form

(* What holds of the page as long as the user waits: PageIsSound and        *)
(* VoiceIsSound need to know what is awaited, and on which panel.           *)
CalmInv ==
  calm =>
    /\ \A f, g \in flights : f = g
    /\ \A f \in flights : Expects(f)
    /\ players # {} => audioPlaying
    /\ \A k, l \in players : k = l
    /\ microphones = IF recorder = "recording" THEN 1 ELSE 0
    /\ panels \in {{"library"}, {"session"}, {"drills"}, {"dashboard"}}
    /\ "session" \in panels <=> sessionId # 0
    /\ sessionId # 0 => view \in {0, sessionId} /\ turns \subseteq {sessionId}
    /\ "drills" \in panels /\ form \notin graded => drillId = form

(* The click of a user who waits comes when nothing is awaited or playing.  *)
LEMMA CalmClick == ASSUME EverInv, CalmInv, Clicks PROVE CalmInv'
<1> SUFFICES ASSUME calm' PROVE CalmInv'
  BY DEF CalmInv
<1>1. calm /\ flights = {} /\ players = {}
  BY DEF Clicks, ClickStart, ClickInView, ClickSend, ClickQuit, ClickSprint, ClickGrade,
         CloseDrills, ClickDashboard, CloseDashboard, ClickSpeak, ClickStop, Click
<1>2. /\ sessionId \in Nat /\ drillId \in {0, form} /\ drillId \in Nat /\ form \in Nat
      /\ microphones \in Nat /\ voiceTurn \in BOOLEAN
  BY DEF EverInv, TypeOK
<1> USE <1>1, <1>2 DEF CalmInv, Expects, Click, pageVars, shownVars, drillVars, micVars,
                      netVars, audioVars, Shows
<1>3. CASE ClickStart
  <2>1. flights' = {[n |-> issued + 1, kind |-> "start", sid |-> 0, speak |-> FALSE]}
    BY <1>3 DEF ClickStart, Send
  <2> QED
    BY <1>3, <2>1 DEF ClickStart
<1>4. CASE ClickInView
  <2>1. PICK kind \in {"act", "exhibit", "review"} : Send(kind, sessionId, FALSE)
    BY <1>4 DEF ClickInView
  <2>2. flights' = {[n |-> issued + 1, kind |-> kind, sid |-> sessionId, speak |-> FALSE]}
    BY <2>1 DEF Send
  <2> QED
    BY <1>4, <2>2 DEF ClickInView
<1>5. CASE ClickSend
  <2>1. flights' = {[n |-> issued + 1, kind |-> "message", sid |-> sessionId, speak |-> voiceTurn]}
    BY <1>5 DEF ClickSend, Send
  <2> QED
    BY <1>5, <2>1 DEF ClickSend, TakeVoiceTurn
<1>6. CASE ClickQuit BY <1>6 DEF ClickQuit, StopAudio
<1>7. CASE ClickSprint
  <2>1. flights' = {[n |-> issued + 1, kind |-> "sprint", sid |-> 0, speak |-> FALSE]}
    BY <1>7 DEF ClickSprint, Send
  <2> QED
    BY <1>7, <2>1 DEF ClickSprint
<1>8. CASE ClickGrade
  <2>1. flights' = {[n |-> issued + 1, kind |-> "grade", sid |-> drillId, speak |-> FALSE]}
    BY <1>8 DEF ClickGrade, Send
  <2> QED
    BY <1>8, <2>1 DEF ClickGrade
<1>9. CASE CloseDrills BY <1>9 DEF CloseDrills
<1>10. CASE ClickDashboard
  <2>1. flights' = {[n |-> issued + 1, kind |-> "dashboard", sid |-> 0, speak |-> FALSE]}
    BY <1>10 DEF ClickDashboard, Send
  <2> QED
    BY <1>10, <2>1 DEF ClickDashboard
<1>11. CASE CloseDashboard BY <1>11 DEF CloseDashboard
<1>12. CASE ClickSpeak
  <2>1. flights' = {[n |-> issued + 1, kind |-> "microphone", sid |-> 0, speak |-> FALSE]}
    BY <1>12 DEF ClickSpeak, Send
  <2> QED
    BY <1>12, <2>1 DEF ClickSpeak
<1>13. CASE ClickStop
  <2>1. flights' = {[n |-> issued + 1, kind |-> "stop", sid |-> 0, speak |-> FALSE]}
    BY <1>13 DEF ClickStop, Send
  <2> QED
    BY <1>13, <2>1 DEF ClickStop, ReleaseTracks
<1> QED
  BY <1>3, <1>4, <1>5, <1>6, <1>7, <1>8, <1>9, <1>10, <1>11, <1>12, <1>13 DEF Clicks

(* The answer that is awaited finds the page as the request left it.        *)
LEMMA CalmAnswer ==
  ASSUME EverInv, CalmInv, NEW f \in flights, Arrives(f) PROVE CalmInv'
<1> SUFFICES ASSUME calm' PROVE CalmInv'
  BY DEF CalmInv
<1>1. calm
  BY DEF Arrives, Started, Rendered, RenderThrows, ExhibitShown, ReviewShown,
         ReviewThrows, Speaks,
         Streamed, SprintOpens, SprintGraded, GradeThrows, DashboardOpens, Recording,
         Uploads, Transcribed, NotTranscribed, Lost, Answered
<1>2. /\ f \in Flight /\ f.n \in Nat /\ f.n # 0 /\ f.sid \in Nat
      /\ flights \ {f} = {} /\ Expects(f)
      /\ microphones \in Nat
  BY <1>1 DEF EverInv, TypeOK, Flight, CalmInv
<1>3. Answered(f) => flights' = {}
  BY <1>2 DEF Answered
<1> USE <1>1, <1>2, <1>3 DEF CalmInv, Expects, pageVars, shownVars, drillVars, micVars,
                           netVars, audioVars
<1>4. CASE Started(f)
  <2>1. panels' = {"session"}
    BY <1>4 DEF Started, Shows
  <2> QED
    BY <1>4, <2>1 DEF Started
<1>5. CASE Rendered(f) BY <1>5 DEF Rendered
<1>6. CASE RenderThrows(f) BY <1>6 DEF RenderThrows
<1>7. CASE ExhibitShown(f) BY <1>7 DEF ExhibitShown
<1>8. CASE ReviewShown(f) BY <1>8 DEF ReviewShown
<1>20. CASE ReviewThrows(f) BY <1>20 DEF ReviewThrows
<1>9. CASE Speaks(f)
  <2>1. (players # {} => audioPlaying)' /\ (\A k, l \in players : k = l)'
    BY <1>9 DEF Speaks, Enqueue, PlayNext
  <2>2. UNCHANGED <<pageVars, drillVars, micVars, netVars>>
    BY <1>9 DEF Speaks
  <2> QED
    BY <2>1, <2>2
<1>10. CASE Streamed(f) BY <1>10 DEF Streamed
<1>11. CASE SprintOpens(f)
  <2>1. panels = {"library"} /\ panels' = {"drills"}
    BY <1>11 DEF SprintOpens, Shows
  <2> QED
    BY <1>11, <2>1 DEF SprintOpens, OpenForm
<1>12. CASE SprintGraded(f)
  <2>1. form \in graded' /\ panels = {"drills"}
    BY <1>12 DEF SprintGraded
  <2> QED
    BY <1>12, <2>1 DEF SprintGraded
<1>13. CASE GradeThrows(f) BY <1>13 DEF GradeThrows
<1>14. CASE DashboardOpens(f)
  <2>1. panels = {"library"} /\ panels' = {"dashboard"}
    BY <1>14 DEF DashboardOpens, Shows
  <2> QED
    BY <1>14, <2>1 DEF DashboardOpens
<1>15. CASE Recording(f) BY <1>15 DEF Recording
<1>16. CASE Uploads(f)
  <2>1. sessionId # 0 /\ panels = {"session"}
    BY <1>16 DEF Uploads
  <2>2. flights' = {[f EXCEPT !.kind = "audio", !.sid = sessionId]}
    BY <1>16, <2>1 DEF Uploads
  <2>3. /\ [f EXCEPT !.kind = "audio", !.sid = sessionId].kind = "audio"
        /\ [f EXCEPT !.kind = "audio", !.sid = sessionId].sid = sessionId
    BY DEF Flight
  <2> QED
    BY <1>16, <2>1, <2>2, <2>3 DEF Uploads
<1>17. CASE Transcribed(f) BY <1>17 DEF Transcribed
<1>18. CASE NotTranscribed(f) BY <1>18 DEF NotTranscribed
<1>19. CASE Lost(f) BY <1>19 DEF Lost
<1> QED
  BY <1>4, <1>5, <1>6, <1>7, <1>8, <1>9, <1>10, <1>11, <1>12, <1>13, <1>14, <1>15, <1>16,
     <1>17, <1>18, <1>19, <1>20 DEF Arrives

(* A sentence that ends makes way for the next one.                         *)
LEMMA CalmStep == EverInv /\ CalmInv /\ [Next]_vars => CalmInv'
<1> SUFFICES ASSUME EverInv, CalmInv, [Next]_vars, calm' PROVE CalmInv'
  BY DEF CalmInv
<1>1. CASE Clicks
  BY <1>1, CalmClick
<1>2. CASE \E f \in flights : Arrives(f)
  BY <1>2, CalmAnswer
<1>3. CASE Plays
  <2>1. PICK k \in players : EndOfSentence(k)
    BY <1>3 DEF Plays, SentenceFails
  <2>2. calm /\ players \ {k} = {} /\ UNCHANGED <<pageVars, drillVars, micVars, netVars>>
    BY <2>1 DEF EndOfSentence, CalmInv
  <2>3. (players # {} => audioPlaying)' /\ (\A m, l \in players : m = l)'
    BY <2>1, <2>2 DEF EndOfSentence, PlayerEnds, PlayNext
  <2> QED
    BY <2>2, <2>3 DEF CalmInv, Expects, pageVars, shownVars, drillVars, micVars, netVars
<1>4. CASE UNCHANGED vars
  BY <1>4 DEF CalmInv, Expects, vars, audioVars, pageVars, shownVars, drillVars, micVars,
       netVars
<1> QED
  BY <1>1, <1>2, <1>3, <1>4 DEF Next

(* Both hold in every reachable state.                                      *)
LEMMA CalmAlways == Spec => [](EverInv /\ CalmInv)
<1>1. Init => CalmInv
  BY DEF Init, AudioInit, CalmInv
<1>2. (EverInv /\ CalmInv) /\ [Next]_vars => (EverInv /\ CalmInv)'
  BY EverStep, CalmStep
<1> QED
  BY <1>1, <1>2, EverInit, PTL DEF Spec

(* "One session at a time" (app.js:1): for any number of requests,          *)
(* sentences and recordings, the page of a user who waits is that of the    *)
(* open session, and a sprint on it can be graded.                          *)
THEOREM PageStaysSound == Spec => []PageIsSound
<1>1. EverInv /\ CalmInv => PageIsSound
  <2> SUFFICES ASSUME EverInv, CalmInv PROVE PageIsSound
    OBVIOUS
  <2>1. calm => Cardinality(panels) = 1
    BY FS_Singleton DEF CalmInv
  <2> QED
    BY <2>1 DEF EverInv, CalmInv, PageIsSound, PageIsOfSession, FormIsGradable
<1> QED
  BY <1>1, CalmAlways, PTL

(* A recording is answered aloud at most once; and while the user waits, an *)
(* open microphone is being recorded from and one sentence is heard.        *)
THEOREM VoiceStaysSound == Spec => []VoiceIsSound
<1>1. EverInv /\ CalmInv => VoiceIsSound
  <2> SUFFICES ASSUME EverInv, CalmInv PROVE VoiceIsSound
    OBVIOUS
  <2>1. ASSUME calm PROVE OneVoice
    <3>1. CASE players = {}
      BY <3>1, FS_EmptySet DEF OneVoice
    <3>2. CASE players # {}
      <4>1. PICK k \in players : players = {k}
        BY <2>1, <3>2 DEF CalmInv
      <4> QED
        BY <4>1, FS_Singleton DEF OneVoice
    <3> QED
      BY <3>1, <3>2
  <2> QED
    BY <2>1 DEF EverInv, CalmInv, VoiceIsSound, MicrophoneReleased, OneVoiceIfCalm
<1> QED
  BY <1>1, CalmAlways, PTL
=============================================================================
