---------------------------- MODULE Router_proofs ----------------------------
(***************************************************************************)
(* Proofs about Router: for every chain, retry limit and number of          *)
(* concurrent turns, who is called, who serves and why a turn fails; and    *)
(* that Router implements TurnService: each step of a turn is a step of the *)
(* service, or does not show.                                               *)
(***************************************************************************)
EXTENDS RouterRefinement, TLAPS

(* Everybody in the chain before the provider of turn t was given up.       *)
Before(t) == \A p \in Eligible : p < at[t] => GivenUp(t, p)

Untouched(t, p) == tries[t][p] = 0 /\ verdict[t][p] = "none"

TurnOK(t) ==
  /\ \A p \in Providers :
       /\ tries[t][p] <= MaxRetries + 1
       /\ p \notin Eligible \/ p > at[t] => Untouched(t, p)
       /\ verdict[t][p] = "auth" =>
            p \in authSurfaced /\ (at[t] = p => stage[t] = "failed")
  /\ stage[t] = "idle" => at[t] = 0 /\ record[t] = 0
  /\ stage[t] = "calling" =>
       /\ at[t] \in Eligible /\ Before(t) /\ record[t] = 0
       /\ tries[t][at[t]] = attempt[t]
       /\ verdict[t][at[t]] \in {"none", "retry"}
  /\ stage[t] = "backing_off" =>
       /\ at[t] \in Eligible /\ Before(t) /\ record[t] = 0
       /\ tries[t][at[t]] = attempt[t] + 1 /\ attempt[t] < MaxRetries
       /\ verdict[t][at[t]] = "retry"
  /\ record[t] # 0 =>
       /\ record[t] = at[t] /\ at[t] \in Eligible /\ Before(t)
       /\ stage[t] \in {"serving", "served", "broken", "dropped"}
  /\ stage[t] = "failed" =>
       \/ \A p \in Eligible : GivenUp(t, p)
       \/ \E p \in Eligible :
            verdict[t][p] = "fatal" /\ \A q \in Providers : q > p => tries[t][q] = 0

LogOK == \A p \in Providers : authLog[p] = IF p \in authSurfaced THEN 1 ELSE 0

IInv == TypeOK /\ LogOK /\ \A t \in Turns : TurnOK(t)

(* The invariant holds at the start.                                        *)
LEMMA InitInv == Init => IInv
<1> USE RouterAssumption DEF Init, Providers, Eligible
<1>1. Init => TypeOK BY DEF TypeOK, Stages, Ended, Verdicts
<1>2. Init => LogOK BY DEF LogOK
<1>3. ASSUME Init, NEW t \in Turns PROVE TurnOK(t)
  BY <1>3 DEF TurnOK, Untouched
<1> QED BY <1>1, <1>2, <1>3 DEF IInv

(* Nothing that happens in one turn disturbs another, as long as surfaced   *)
(* auth failures stay surfaced.                                             *)
LEMMA OtherTurns ==
  ASSUME IInv, NEW t \in Turns, NEW s \in Turns, s # t,
         stage'[s] = stage[s], at'[s] = at[s], attempt'[s] = attempt[s],
         record'[s] = record[s], tries'[s] = tries[s], verdict'[s] = verdict[s],
         authSurfaced \subseteq authSurfaced'
  PROVE  TurnOK(s)'
BY DEF IInv, TurnOK, Untouched, Before, GivenUp

(* One more call by turn t to the provider it is at.                        *)
LEMMA Counted ==
  ASSUME TypeOK, NEW t \in Turns, at[t] \in Providers, CountCall(t)
  PROVE  /\ tries' \in [Turns -> [Providers -> Nat]]
         /\ tries'[t][at[t]] = tries[t][at[t]] + 1
         /\ \A p \in Providers \ {at[t]} : tries'[t][p] = tries[t][p]
         /\ \A s \in Turns \ {t} : tries'[s] = tries[s]
BY DEF TypeOK, CountCall

(* ... which fails: the class of its error is noted.                        *)
LEMMA Judged ==
  ASSUME TypeOK, NEW t \in Turns, at[t] \in Providers, NEW e \in Errors,
         CallFails(t, e)
  PROVE  /\ Classify(e) \in Verdicts \ {"none"}
         /\ verdict' \in [Turns -> [Providers -> Verdicts]]
         /\ verdict'[t][at[t]] = Classify(e)
         /\ \A p \in Providers \ {at[t]} : verdict'[t][p] = verdict[t][p]
         /\ \A s \in Turns \ {t} : verdict'[s] = verdict[s]
<1>1. Classify(e) \in Verdicts \ {"none"} BY DEF Classify, Errors, Verdicts
<1> QED BY <1>1 DEF TypeOK, CallFails

(* What a turn knows while it is calling.                                   *)
LEMMA Calling ==
  ASSUME IInv, NEW t \in Turns, stage[t] = "calling"
  PROVE  /\ TypeOK /\ at[t] \in Eligible /\ at[t] \in Providers
         /\ Before(t) /\ record[t] = 0
         /\ tries[t][at[t]] = attempt[t] /\ attempt[t] \in 0 .. MaxRetries
         /\ verdict[t][at[t]] \in {"none", "retry"}
         /\ MaxRetries \in Nat /\ NProviders \in Nat
         /\ Eligible \subseteq Providers
BY RouterAssumption DEF IInv, TypeOK, TurnOK, Eligible

(* The turn has given up its provider and goes on along the chain.          *)
LEMMA MoveOn ==
  ASSUME IInv, NEW t \in Turns, stage[t] = "calling",
         CountCall(t), NEW e \in Errors, CallFails(t, e),
         TryNext(t, After(at[t])),
         Classify(e) # "fatal", Classify(e) = "retry" => attempt[t] = MaxRetries,
         Classify(e) = "auth" => at[t] \in authSurfaced',
         authSurfaced \subseteq authSurfaced'
  PROVE  TurnOK(t)' /\ stage' \in [Turns -> Stages] /\ at' \in [Turns -> 0 .. NProviders]
         /\ attempt' \in [Turns -> 0 .. MaxRetries]
<1> USE DEF Stages, Ended
<1>1. /\ TypeOK /\ at[t] \in Eligible /\ at[t] \in Providers
      /\ Before(t) /\ record[t] = 0 /\ tries[t][at[t]] = attempt[t]
      /\ attempt[t] \in 0 .. MaxRetries
      /\ MaxRetries \in Nat /\ NProviders \in Nat /\ Eligible \subseteq Providers
  BY Calling
<1>2. /\ tries'[t][at[t]] = attempt[t] + 1
      /\ \A p \in Providers \ {at[t]} : tries'[t][p] = tries[t][p]
  BY <1>1, Counted
<1>3. /\ verdict'[t][at[t]] = Classify(e) /\ Classify(e) \in Verdicts \ {"none"}
      /\ \A p \in Providers \ {at[t]} : verdict'[t][p] = verdict[t][p]
  BY <1>1, Judged
<1>4. \A p \in Eligible : p <= at[t] => GivenUp(t, p)'
  BY <1>1, <1>2, <1>3 DEF Before, GivenUp, Verdicts, Providers
<1>5. \A p \in Providers :
        /\ tries'[t][p] <= MaxRetries + 1
        /\ p \notin Eligible \/ p > at[t] =>
             tries'[t][p] = 0 /\ verdict'[t][p] = "none"
        /\ verdict'[t][p] = "auth" => p \in authSurfaced' /\ p <= at[t]
  BY <1>1, <1>2, <1>3 DEF IInv, TurnOK, Untouched, Providers
<1>6. record'[t] = 0 BY <1>1 DEF CallFails
<1>7. CASE After(at[t]) = {}
  <2>1. \A p \in Eligible : GivenUp(t, p)'
    BY <1>1, <1>4, <1>7 DEF After, Providers
  <2>2. stage'[t] = "failed" /\ at' = at /\ attempt' = attempt
    BY <1>1, <1>7 DEF TryNext, Enter, TypeOK
  <2> QED BY <1>1, <1>5, <1>6, <1>7, <2>1, <2>2
          DEF TurnOK, Untouched, TypeOK, TryNext, Enter
<1>8. CASE After(at[t]) # {}
  <2>1. PICK n \in After(at[t]) :
          /\ \A q \in After(at[t]) : n <= q
          /\ Enter(t, "calling")
          /\ at' = [at EXCEPT ![t] = n] /\ attempt' = [attempt EXCEPT ![t] = 0]
    BY <1>8 DEF TryNext
  <2>2. /\ stage'[t] = "calling" /\ at'[t] = n /\ attempt'[t] = 0
        /\ n \in Eligible /\ n > at[t] /\ n \in Providers
    BY <1>1, <2>1 DEF Enter, TypeOK, After
  <2>3. \A p \in Eligible : p < n => p <= at[t]
    BY <1>1, <2>1, <2>2 DEF After, Providers
  <2>4. Before(t)' BY <1>4, <2>2, <2>3 DEF Before
  <2>5. \A p \in Providers : p > n => p > at[t] BY <1>1, <2>2 DEF Providers
  <2>6. TurnOK(t)'
    BY <1>1, <1>5, <1>6, <2>2, <2>4, <2>5 DEF TurnOK, Untouched, Providers
  <2> QED BY <1>1, <2>1, <2>2, <2>6 DEF TypeOK, Enter, Providers
<1> QED BY <1>7, <1>8

(* The first provider of the chain is called, or there is none.             *)
LEMMA StartTurn ==
  ASSUME IInv, NEW t \in Turns, Start(t)
  PROVE  IInv'
<1> USE RouterAssumption DEF Stages, Ended
<1>1. TypeOK /\ Eligible \subseteq Providers BY DEF IInv, Eligible
<1>2. /\ at[t] = 0 /\ record[t] = 0 /\ stage[t] = "idle"
      /\ \A p \in Providers : Untouched(t, p)
  BY DEF Start, IInv, TurnOK, Providers
<1>3. CASE Eligible = {}
  <2>1. stage' = [stage EXCEPT ![t] = "failed"] /\ at' = at /\ attempt' = attempt
    BY <1>3 DEF Start, TryNext, Enter
  <2>2. TypeOK' BY <1>1, <2>1 DEF Start, TypeOK
  <2>3. TurnOK(t)' BY <1>1, <1>2, <1>3, <2>1 DEF Start, TypeOK, TurnOK, Untouched
  <2>4. \A s \in Turns \ {t} : TurnOK(s)'
    BY <1>1, <2>1, OtherTurns DEF Start, TypeOK
  <2> QED BY <2>2, <2>3, <2>4 DEF Start, IInv, LogOK
<1>4. CASE Eligible # {}
  <2>1. PICK n \in Eligible :
          /\ \A q \in Eligible : n <= q
          /\ stage' = [stage EXCEPT ![t] = "calling"]
          /\ at' = [at EXCEPT ![t] = n] /\ attempt' = [attempt EXCEPT ![t] = 0]
    BY <1>4 DEF Start, TryNext, Enter
  <2>2. TypeOK'
    <3>1. n \in 0 .. NProviders /\ 0 \in 0 .. MaxRetries
      BY <1>1 DEF Providers
    <3> QED BY <1>1, <2>1, <3>1 DEF Start, TypeOK
  <2>3. /\ stage'[t] = "calling" /\ at'[t] = n /\ attempt'[t] = 0
        /\ record' = record /\ tries' = tries /\ verdict' = verdict
        /\ authSurfaced' = authSurfaced
    BY <1>1, <2>1 DEF Start, TypeOK
  <2>4. Before(t)' BY <1>1, <2>1, <2>3 DEF Before, Providers
  <2>5. TurnOK(t)' BY <1>1, <1>2, <2>3, <2>4 DEF TurnOK, Untouched
  <2>6. \A s \in Turns \ {t} : TurnOK(s)'
    BY <1>1, <2>1, OtherTurns DEF Start, TypeOK
  <2> QED BY <2>2, <2>5, <2>6 DEF Start, IInv, LogOK
<1> QED BY <1>3, <1>4

(* An answer from the provider that ends the turn's tries: a first token, an *)
(* empty reply or a malformed chunk.                                        *)
LEMMA AnswerTurn ==
  ASSUME IInv, NEW t \in Turns, FirstToken(t) \/ EmptyReply(t) \/ Malformed(t)
  PROVE  IInv'
<1> USE DEF Stages, Ended
<1>1. stage[t] = "calling" /\ CountCall(t)
  BY DEF FirstToken, EmptyReply, Malformed
<1>2. /\ TypeOK /\ at[t] \in Eligible /\ at[t] \in Providers
      /\ Before(t) /\ record[t] = 0 /\ tries[t][at[t]] = attempt[t]
      /\ attempt[t] \in 0 .. MaxRetries /\ verdict[t][at[t]] \in {"none", "retry"}
      /\ MaxRetries \in Nat /\ NProviders \in Nat /\ Eligible \subseteq Providers
  BY <1>1, Calling
<1>3. /\ tries' \in [Turns -> [Providers -> Nat]]
      /\ tries'[t][at[t]] = attempt[t] + 1
      /\ \A p \in Providers \ {at[t]} : tries'[t][p] = tries[t][p]
      /\ \A s \in Turns \ {t} : tries'[s] = tries[s]
  BY <1>1, <1>2, Counted
<1>4. PICK w \in {"serving", "served", "broken"} :
        stage' = [stage EXCEPT ![t] = w] /\ (w # "broken" => record' = [record EXCEPT ![t] = at[t]])
          /\ (w = "broken" => record' = record)
  BY DEF FirstToken, EmptyReply, Malformed, Enter
<1>5. /\ UNCHANGED <<at, attempt, verdict, authSurfaced, authLog>>
      /\ lastProvider' \in {lastProvider, at[t]}
  BY DEF FirstToken, EmptyReply, Malformed
<1>6. TypeOK'
  <2>1. at[t] \in 0 .. NProviders BY <1>2 DEF TypeOK
  <2>2. /\ stage' \in [Turns -> Stages] /\ record' \in [Turns -> 0 .. NProviders]
        /\ lastProvider' \in 0 .. NProviders
    BY <1>2, <1>4, <1>5, <2>1 DEF TypeOK
  <2> QED BY <1>2, <1>3, <1>5, <2>2 DEF TypeOK
<1>7. TurnOK(t)'
  <2>1. stage'[t] = w /\ record'[t] \in {0, at[t]} BY <1>2, <1>4 DEF TypeOK
  <2>2. Before(t)'
    <3>1. \A p \in Eligible : p < at[t] => p \in Providers \ {at[t]}
      BY <1>2 DEF Providers
    <3> QED BY <1>2, <1>3, <1>5, <3>1 DEF Before, GivenUp
  <2>3. \A p \in Providers :
         /\ tries'[t][p] <= MaxRetries + 1
         /\ p \notin Eligible \/ p > at[t] => Untouched(t, p)'
         /\ verdict'[t][p] = "auth" => p \in authSurfaced' /\ at'[t] # p
    <3> SUFFICES ASSUME NEW p \in Providers
                 PROVE  /\ tries'[t][p] <= MaxRetries + 1
                        /\ p \notin Eligible \/ p > at[t] => Untouched(t, p)'
                        /\ verdict'[t][p] = "auth" => p \in authSurfaced' /\ at'[t] # p
      OBVIOUS
    <3>1. CASE p = at[t] BY <1>2, <1>3, <1>5, <3>1 DEF Providers
    <3>2. CASE p # at[t]
      BY <1>1, <1>2, <1>3, <1>5, <3>2 DEF IInv, TurnOK, Untouched
    <3> QED BY <3>1, <3>2
  <2> QED BY <1>2, <1>4, <1>5, <2>1, <2>2, <2>3 DEF TurnOK
<1>8. \A s \in Turns \ {t} : TurnOK(s)'
  BY <1>2, <1>3, <1>4, <1>5, OtherTurns DEF TypeOK
<1> QED BY <1>5, <1>6, <1>7, <1>8 DEF IInv, LogOK

(* A retryable failure with a retry left.                                   *)
LEMMA RetryTurn ==
  ASSUME IInv, NEW t \in Turns, Retry(t)
  PROVE  IInv'
<1> USE DEF Stages, Ended
<1>1. PICK e \in Errors : Classify(e) = "retry" /\ CallFails(t, e) BY DEF Retry
<1>2. stage[t] = "calling" /\ CountCall(t) BY <1>1 DEF CallFails
<1>3. /\ TypeOK /\ at[t] \in Eligible /\ at[t] \in Providers
      /\ Before(t) /\ record[t] = 0 /\ tries[t][at[t]] = attempt[t]
      /\ attempt[t] \in 0 .. MaxRetries
      /\ MaxRetries \in Nat /\ NProviders \in Nat /\ Eligible \subseteq Providers
  BY <1>2, Calling
<1>4. /\ tries' \in [Turns -> [Providers -> Nat]]
      /\ tries'[t][at[t]] = attempt[t] + 1
      /\ \A p \in Providers \ {at[t]} : tries'[t][p] = tries[t][p]
      /\ \A s \in Turns \ {t} : tries'[s] = tries[s]
  BY <1>2, <1>3, Counted
<1>5. /\ verdict' \in [Turns -> [Providers -> Verdicts]]
      /\ verdict'[t][at[t]] = "retry"
      /\ \A p \in Providers \ {at[t]} : verdict'[t][p] = verdict[t][p]
      /\ \A s \in Turns \ {t} : verdict'[s] = verdict[s]
  BY <1>1, <1>3, Judged
<1>6. /\ stage' = [stage EXCEPT ![t] = "backing_off"] /\ attempt[t] < MaxRetries
      /\ UNCHANGED <<at, attempt, record, lastProvider, authSurfaced, authLog>>
  BY <1>1 DEF Retry, CallFails, Enter
<1>7. TypeOK' BY <1>3, <1>4, <1>5, <1>6 DEF TypeOK
<1>8. TurnOK(t)'
  <2>1. stage'[t] = "backing_off" BY <1>3, <1>6 DEF TypeOK
  <2>2. Before(t)'
    <3>1. \A p \in Eligible : p < at[t] => p \in Providers \ {at[t]}
      BY <1>3 DEF Providers
    <3> QED BY <1>3, <1>4, <1>5, <1>6, <3>1 DEF Before, GivenUp
  <2>3. \A p \in Providers :
         /\ tries'[t][p] <= MaxRetries + 1
         /\ p \notin Eligible \/ p > at[t] => Untouched(t, p)'
         /\ verdict'[t][p] = "auth" => p \in authSurfaced' /\ at'[t] # p
    <3> SUFFICES ASSUME NEW p \in Providers
                 PROVE  /\ tries'[t][p] <= MaxRetries + 1
                        /\ p \notin Eligible \/ p > at[t] => Untouched(t, p)'
                        /\ verdict'[t][p] = "auth" => p \in authSurfaced' /\ at'[t] # p
      OBVIOUS
    <3>1. CASE p = at[t] BY <1>3, <1>4, <1>5, <1>6, <3>1 DEF Providers
    <3>2. CASE p # at[t]
      BY <1>2, <1>3, <1>4, <1>5, <1>6, <3>2 DEF IInv, TurnOK, Untouched
    <3> QED BY <3>1, <3>2
  <2> QED BY <1>3, <1>4, <1>5, <1>6, <2>1, <2>2, <2>3 DEF TurnOK
<1>9. \A s \in Turns \ {t} : TurnOK(s)'
  BY <1>3, <1>4, <1>5, <1>6, OtherTurns DEF TypeOK
<1> QED BY <1>6, <1>7, <1>8, <1>9 DEF IInv, LogOK

(* The sleep is over, or a stream comes to its end.                         *)
LEMMA WaitingTurn ==
  ASSUME IInv, NEW t \in Turns, Resume(t) \/ FinishStream(t)
  PROVE  IInv'
<1> USE DEF Stages, Ended
<1>1. TypeOK /\ TurnOK(t) /\ MaxRetries \in Nat BY RouterAssumption DEF IInv
<1>2. /\ UNCHANGED <<at, record, tries, verdict, lastProvider, authSurfaced, authLog>>
      /\ attempt' = attempt \/ attempt' = [attempt EXCEPT ![t] = attempt[t] + 1]
  BY DEF Resume, FinishStream
<1>3. CASE Resume(t)
  <2>1. stage'[t] = "calling" /\ attempt'[t] = attempt[t] + 1 /\ stage[t] = "backing_off"
    BY <1>1, <1>3 DEF Resume, Enter, TypeOK
  <2>2. attempt[t] \in Nat /\ attempt[t] < MaxRetries BY <1>1, <2>1 DEF TurnOK, TypeOK
  <2>3. TypeOK' BY <1>1, <1>2, <1>3, <2>2 DEF Resume, Enter, TypeOK
  <2>4. TurnOK(t)'
    BY <1>1, <1>2, <2>1 DEF TurnOK, Untouched, Before, GivenUp
  <2>5. \A s \in Turns \ {t} : TurnOK(s)'
    BY <1>1, <1>2, <1>3, OtherTurns DEF Resume, Enter, TypeOK
  <2> QED BY <1>2, <2>3, <2>4, <2>5 DEF IInv, LogOK
<1>4. CASE FinishStream(t)
  <2>1. PICK w \in {"served", "broken", "dropped"} : stage' = [stage EXCEPT ![t] = w]
    BY <1>4 DEF FinishStream, Enter
  <2>2. stage'[t] = w /\ attempt' = attempt /\ stage[t] = "serving"
    BY <1>1, <1>4, <2>1 DEF FinishStream, TypeOK
  <2>3. TypeOK' BY <1>1, <1>2, <2>1, <2>2 DEF TypeOK
  <2>4. TurnOK(t)'
    BY <1>1, <1>2, <2>2 DEF TurnOK, Untouched, Before, GivenUp
  <2>5. \A s \in Turns \ {t} : TurnOK(s)'
    BY <1>1, <1>2, <2>1, <2>2, OtherTurns DEF TypeOK
  <2> QED BY <1>2, <2>3, <2>4, <2>5 DEF IInv, LogOK
<1> QED BY <1>3, <1>4

(* Giving a provider up, by failover or for its auth failure.               *)
LEMMA GiveUpTurn ==
  ASSUME IInv, NEW t \in Turns, FailOver(t) \/ AuthFails(t)
  PROVE  IInv'
<1>1. PICK e \in Errors :
        /\ CallFails(t, e) /\ Classify(e) # "fatal"
        /\ Classify(e) = "retry" => attempt[t] = MaxRetries
        /\ Classify(e) = "auth" => at[t] \in authSurfaced'
  <2>1. CASE FailOver(t) BY <2>1 DEF FailOver
  <2>2. CASE AuthFails(t)
    <3>1. "auth" \in Errors /\ Classify("auth") = "auth" BY DEF Errors, Classify
    <3> QED BY <2>2, <3>1 DEF AuthFails
  <2> QED BY <2>1, <2>2
<1>2. stage[t] = "calling" /\ CountCall(t) /\ UNCHANGED <<record, lastProvider>>
  BY <1>1 DEF CallFails
<1>3. TypeOK /\ at[t] \in Providers BY <1>2, Calling
<1>4. TryNext(t, After(at[t])) BY DEF FailOver, AuthFails
<1>5. /\ authSurfaced \subseteq authSurfaced' /\ authSurfaced' \subseteq Providers
      /\ authLog' \in [Providers -> Nat] /\ LogOK'
  <2>1. CASE FailOver(t) BY <1>3, <2>1 DEF FailOver, IInv, LogOK, TypeOK
  <2>2. CASE AuthFails(t) BY <1>3, <2>2 DEF AuthFails, IInv, LogOK, TypeOK
  <2> QED BY <2>1, <2>2
<1>6. /\ TurnOK(t)' /\ stage' \in [Turns -> Stages]
      /\ at' \in [Turns -> 0 .. NProviders] /\ attempt' \in [Turns -> 0 .. MaxRetries]
  BY <1>1, <1>2, <1>4, <1>5, MoveOn
<1>7. /\ tries' \in [Turns -> [Providers -> Nat]]
      /\ \A s \in Turns \ {t} : tries'[s] = tries[s]
  BY <1>2, <1>3, Counted
<1>8. /\ verdict' \in [Turns -> [Providers -> Verdicts]]
      /\ \A s \in Turns \ {t} : verdict'[s] = verdict[s]
  BY <1>1, <1>3, Judged
<1>9. TypeOK' BY <1>2, <1>3, <1>5, <1>6, <1>7, <1>8 DEF TypeOK
<1>10. \A s \in Turns \ {t} :
         stage'[s] = stage[s] /\ at'[s] = at[s] /\ attempt'[s] = attempt[s]
  BY <1>3, <1>4 DEF TryNext, Enter, TypeOK
<1>11. \A s \in Turns \ {t} : TurnOK(s)'
  BY <1>2, <1>5, <1>7, <1>8, <1>10, OtherTurns
<1> QED BY <1>5, <1>6, <1>9, <1>11 DEF IInv

(* A fatal answer ends the turn at its provider.                            *)
LEMMA FatalTurn ==
  ASSUME IInv, NEW t \in Turns, Fatal(t)
  PROVE  IInv'
<1> USE DEF Stages, Ended
<1>1. PICK e \in Errors : Classify(e) = "fatal" /\ CallFails(t, e) BY DEF Fatal
<1>2. stage[t] = "calling" /\ CountCall(t) BY <1>1 DEF CallFails
<1>3. /\ TypeOK /\ at[t] \in Eligible /\ at[t] \in Providers
      /\ record[t] = 0 /\ tries[t][at[t]] = attempt[t]
      /\ attempt[t] \in 0 .. MaxRetries
      /\ MaxRetries \in Nat /\ NProviders \in Nat /\ Eligible \subseteq Providers
  BY <1>2, Calling
<1>4. /\ tries' \in [Turns -> [Providers -> Nat]]
      /\ tries'[t][at[t]] = attempt[t] + 1
      /\ \A p \in Providers \ {at[t]} : tries'[t][p] = tries[t][p]
      /\ \A s \in Turns \ {t} : tries'[s] = tries[s]
  BY <1>2, <1>3, Counted
<1>5. /\ verdict' \in [Turns -> [Providers -> Verdicts]]
      /\ verdict'[t][at[t]] = "fatal"
      /\ \A p \in Providers \ {at[t]} : verdict'[t][p] = verdict[t][p]
      /\ \A s \in Turns \ {t} : verdict'[s] = verdict[s]
  BY <1>1, <1>3, Judged
<1>6. /\ stage' = [stage EXCEPT ![t] = "failed"]
      /\ UNCHANGED <<at, attempt, record, lastProvider, authSurfaced, authLog>>
  BY <1>1 DEF Fatal, CallFails, Enter
<1>7. TypeOK' BY <1>3, <1>4, <1>5, <1>6 DEF TypeOK
<1>8. TurnOK(t)'
  <2>1. stage'[t] = "failed" BY <1>3, <1>6 DEF TypeOK
  <2>2. \A p \in Providers :
         /\ tries'[t][p] <= MaxRetries + 1
         /\ p \notin Eligible \/ p > at[t] => Untouched(t, p)'
         /\ verdict'[t][p] = "auth" => p \in authSurfaced' /\ at'[t] # p
    <3> SUFFICES ASSUME NEW p \in Providers
                 PROVE  /\ tries'[t][p] <= MaxRetries + 1
                        /\ p \notin Eligible \/ p > at[t] => Untouched(t, p)'
                        /\ verdict'[t][p] = "auth" => p \in authSurfaced' /\ at'[t] # p
      OBVIOUS
    <3>1. CASE p = at[t] BY <1>3, <1>4, <1>5, <1>6, <3>1 DEF Providers
    <3>2. CASE p # at[t]
      BY <1>2, <1>3, <1>4, <1>5, <1>6, <3>2 DEF IInv, TurnOK, Untouched
    <3> QED BY <3>1, <3>2
  <2>3. \A q \in Providers : q > at[t] => tries'[t][q] = 0
    BY <1>6, <2>2 DEF Untouched
  <2> QED BY <1>3, <1>5, <1>6, <2>1, <2>2, <2>3 DEF TurnOK
<1>9. \A s \in Turns \ {t} : TurnOK(s)'
  BY <1>3, <1>4, <1>5, <1>6, OtherTurns DEF TypeOK
<1> QED BY <1>6, <1>7, <1>8, <1>9 DEF IInv, LogOK

(* A step that changes nothing.                                             *)
LEMMA Stutter == IInv /\ UNCHANGED vars => IInv'
BY DEF vars, IInv, LogOK, TypeOK, TurnOK, Untouched, Before, GivenUp

(* The inductive invariant contains the properties.                         *)
LEMMA CallsAreBounded ==
  IInv => CallsBounded /\ ChainHonoured /\ AuthSurfacedOnce
<1> SUFFICES ASSUME IInv PROVE CallsBounded /\ ChainHonoured /\ AuthSurfacedOnce OBVIOUS
<1> USE DEF IInv, TurnOK
<1>1. CallsBounded BY DEF CallsBounded, Untouched, Eligible
<1>2. ServedInOrder BY DEF ServedInOrder, Before, Untouched, Eligible
<1>3. FailsForReason BY DEF FailsForReason
<1>4. AuthSurfacedOnce BY DEF AuthSurfacedOnce, LogOK
<1> QED BY <1>1, <1>2, <1>3, <1>4 DEF ChainHonoured

(* The routing invariant: the state of every turn stays what IInv says.     *)
THEOREM RoutingInvariant == Spec => []IInv
<1>1. ASSUME IInv, [Next]_vars PROVE IInv'
  <2>1. CASE UNCHANGED vars BY <1>1, <2>1, Stutter
  <2>2. CASE AllEnded BY <1>1, <2>2, Stutter DEF AllEnded
  <2>3. ASSUME NEW t \in Turns, Start(t) PROVE IInv' BY <1>1, <2>3, StartTurn
  <2>4. ASSUME NEW t \in Turns, Step(t) PROVE IInv'
    BY <1>1, <2>4, AnswerTurn, RetryTurn, WaitingTurn, GiveUpTurn, FatalTurn
       DEF Step
  <2> QED BY <1>1, <2>1, <2>2, <2>3, <2>4 DEF Next
<1> QED BY <1>1, InitInv, PTL DEF Spec

(* Whatever the providers answer and however turns interleave: no provider  *)
(* is called more than MaxRetries + 1 times in a turn, none that needs a    *)
(* key offline; the first provider that can serve does; a turn fails only   *)
(* for a reason; an auth failure is surfaced once.                          *)
THEOREM RouterCorrect ==
  Spec => [](CallsBounded /\ ChainHonoured /\ AuthSurfacedOnce)
BY RoutingInvariant, CallsAreBounded, PTL

(* The type invariant of the router is invariant.                           *)
THEOREM RouterTypes == Spec => []TypeOK
<1>1. IInv => TypeOK BY DEF IInv
<1> QED BY <1>1, RoutingInvariant, PTL

-----------------------------------------------------------------------------
(* The variables of the service, as the mapping has them.                   *)
Outcomes == [t \in Turns |-> Outcome(t)]
Owners == [t \in Turns |-> {record[t]} \ {0}]

(* A stream that is read has a provider: only then is a turn that breaks    *)
(* off cut and not failed.                                                  *)
Owned == \A t \in Turns : stage[t] = "serving" => record[t] # 0

(* It holds throughout: a first token sets both.                            *)
LEMMA OwnedStep == IInv /\ Owned /\ [Next]_vars => Owned'
<1> SUFFICES ASSUME IInv, Owned, [Next]_vars PROVE Owned'
  OBVIOUS
<1>1. TypeOK
  BY DEF IInv
<1>2. CASE UNCHANGED vars
  BY <1>2 DEF Owned, vars
<1>3. ASSUME NEW t \in Turns, Start(t) \/ Step(t) PROVE Owned'
  <2>1. CASE FirstToken(t)
    <3>1. at[t] # 0 /\ record' = [record EXCEPT ![t] = at[t]]
          /\ stage' = [stage EXCEPT ![t] = "serving"]
      BY <2>1, Calling DEF FirstToken, Enter, Providers
    <3> QED
      BY <1>1, <3>1 DEF Owned, TypeOK
  <2>2. CASE EmptyReply(t)
    <3>1. at[t] # 0 /\ record' = [record EXCEPT ![t] = at[t]]
          /\ stage' = [stage EXCEPT ![t] = "served"]
      BY <2>2, Calling DEF EmptyReply, Enter, Providers
    <3> QED
      BY <1>1, <3>1 DEF Owned, TypeOK
  <2>3. CASE Start(t) \/ FailOver(t) \/ AuthFails(t)
    <3>1. record' = record
          /\ \E s \in {"calling", "failed"} : stage' = [stage EXCEPT ![t] = s]
      BY <2>3 DEF Start, FailOver, AuthFails, CallFails, TryNext, Enter
    <3> QED
      BY <1>1, <3>1 DEF Owned, TypeOK
  <2>4. CASE Retry(t) \/ Resume(t) \/ Fatal(t) \/ Malformed(t) \/ FinishStream(t)
    <3>1. record' = record
          /\ \E s \in Stages \ {"serving"} : stage' = [stage EXCEPT ![t] = s]
      BY <2>4 DEF Retry, Resume, Fatal, Malformed, FinishStream, CallFails, Enter,
                  Stages, Ended
    <3> QED
      BY <1>1, <3>1 DEF Owned, TypeOK
  <2> QED
    BY <1>3, <2>1, <2>2, <2>3, <2>4 DEF Step
<1> QED
  BY <1>2, <1>3 DEF Next, AllEnded

(* What a turn shows changes with its own stage and record only.            *)
LEMMA Shown ==
  ASSUME NEW t \in Turns,
         \A s \in Turns \ {t} : stage'[s] = stage[s] /\ record'[s] = record[s]
  PROVE  /\ Outcomes' = [Outcomes EXCEPT ![t] = Outcomes'[t]]
         /\ Owners' = [Owners EXCEPT ![t] = Owners'[t]]
<1>1. ASSUME NEW s \in Turns \ {t}
      PROVE  Outcome(s)' = Outcome(s) /\ record'[s] = record[s]
  BY DEF Outcome
<1>2. /\ Outcomes' = [s \in Turns |-> Outcome(s)']
      /\ Outcomes = [s \in Turns |-> Outcome(s)]
  BY DEF Outcomes
<1>3. /\ Owners' = [s \in Turns |-> {record'[s]} \ {0}]
      /\ Owners = [s \in Turns |-> {record[s]} \ {0}]
  BY DEF Owners
<1> QED BY <1>1, <1>2, <1>3

(* A step that does not show.                                               *)
LEMMA Hidden ==
  ASSUME NEW t \in Turns,
         \A s \in Turns \ {t} : stage'[s] = stage[s] /\ record'[s] = record[s],
         Outcome(t)' = Outcome(t), record'[t] = record[t]
  PROVE  Outcomes' = Outcomes /\ Owners' = Owners
  BY DEF Outcomes, Outcome, Owners

(* A turn that fails before anyone has taken it.                            *)
LEMMA Failing ==
  ASSUME NEW t \in Turns,
         \A s \in Turns \ {t} : stage'[s] = stage[s] /\ record'[s] = record[s],
         Outcome(t) = "open", Outcome(t)' = "failed", record'[t] = record[t]
  PROVE  Service!Fail(t)
<1>1. Outcomes' = [Outcomes EXCEPT ![t] = "failed"] /\ Outcomes[t] = "open"
  BY Shown DEF Outcomes
<1>2. Owners' = Owners
  BY DEF Owners
<1> QED
  BY <1>1, <1>2 DEF Service!Fail, Outcomes, Owners

(* Every step of a turn.                                                    *)
LEMMA TurnSteps ==
  ASSUME IInv, Owned, NEW t \in Turns, Start(t) \/ Step(t)
  PROVE  Service!Next \/ (Outcomes' = Outcomes /\ Owners' = Owners)
<1>1. TypeOK /\ TurnOK(t) /\ Eligible \subseteq Providers
  BY DEF IInv, Eligible
<1>2. CASE FirstToken(t) \/ EmptyReply(t)
  <2>1. PICK s \in {"serving", "served"} :
          /\ stage[t] = "calling" /\ stage' = [stage EXCEPT ![t] = s]
          /\ record' = [record EXCEPT ![t] = at[t]]
    BY <1>2 DEF FirstToken, EmptyReply, Enter
  <2>2. at[t] \in Eligible /\ at[t] # 0
    BY <2>1, Calling DEF Providers
  <2>3. /\ stage'[t] = s /\ record'[t] = at[t]
        /\ \A u \in Turns \ {t} : stage'[u] = stage[u] /\ record'[u] = record[u]
    BY <1>1, <2>1 DEF TypeOK
  <2>4. Outcomes[t] = "open" /\ Owners'[t] = {at[t]}
    BY <2>1, <2>2, <2>3 DEF Outcomes, Outcome, Owners
  <2>5. Outcomes'[t] = IF s = "serving" THEN "streaming" ELSE "whole"
    BY <2>1, <2>3 DEF Outcomes, Outcome
  <2>6. Service!Take(t, at[t], "streaming") \/ Service!Take(t, at[t], "whole")
    BY <2>3, <2>4, <2>5, Shown DEF Service!Take, Outcomes, Owners
  <2> QED
    BY <2>2, <2>6 DEF Service!Next
<1>3. CASE Start(t) \/ FailOver(t) \/ AuthFails(t) \/ Retry(t) \/ Resume(t) \/ Fatal(t)
           \/ Malformed(t)
  <2>1. /\ stage[t] \in {"idle", "calling", "backing_off"} /\ record' = record
        /\ \E s \in {"calling", "backing_off", "failed", "broken"} :
             stage' = [stage EXCEPT ![t] = s]
    BY <1>3 DEF Start, FailOver, AuthFails, Retry, Resume, Fatal, Malformed, CallFails,
                TryNext, Enter
  <2>2. record[t] = 0
    BY <1>1, <2>1 DEF TurnOK
  <2>3. \A u \in Turns \ {t} : stage'[u] = stage[u] /\ record'[u] = record[u]
    BY <1>1, <2>1 DEF TypeOK
  <2>4. /\ stage'[t] \in {"calling", "backing_off", "failed", "broken"}
        /\ record'[t] = record[t]
    BY <1>1, <2>1 DEF TypeOK
  <2>5. Outcome(t) = "open" /\ Outcome(t)' \in {"open", "failed"}
    BY <2>1, <2>2, <2>4 DEF Outcome
  <2>6. CASE Outcome(t)' = "open"
    BY <2>3, <2>4, <2>5, <2>6, Hidden
  <2>7. CASE Outcome(t)' = "failed"
    BY <2>3, <2>4, <2>5, <2>7, Failing DEF Service!Next
  <2> QED
    BY <2>5, <2>6, <2>7
<1>4. CASE FinishStream(t)
  <2>1. PICK s \in {"served", "broken", "dropped"} :
          /\ stage[t] = "serving" /\ record' = record
          /\ stage' = [stage EXCEPT ![t] = s]
    BY <1>4 DEF FinishStream, Enter
  <2>2. /\ record[t] # 0 /\ stage'[t] = s
        /\ \A u \in Turns \ {t} : stage'[u] = stage[u] /\ record'[u] = record[u]
    BY <1>1, <2>1 DEF Owned, TypeOK
  <2>3. Outcomes[t] = "streaming" /\ Outcomes'[t] \in {"whole", "cut"}
    BY <2>1, <2>2 DEF Outcomes, Outcome
  <2>4. Owners' = Owners
    BY <2>1 DEF Owners
  <2>5. Service!Finish(t)
    BY <2>2, <2>3, <2>4, Shown DEF Service!Finish, Outcomes, Owners
  <2> QED
    BY <2>5 DEF Service!Next
<1> QED
  BY <1>2, <1>3, <1>4 DEF Step

(* 02_ARCHITECTURE §3, callers never learn about providers: a turn is taken *)
(* by one permitted provider, which then owns the reply to its end, or it   *)
(* fails, and nothing reopens it.                                           *)
THEOREM RouterImplementsService == Spec => ImplementsTurnService
<1>1. Init => Service!Init /\ Owned
  <2> SUFFICES ASSUME Init PROVE Service!Init /\ Owned
    OBVIOUS
  <2>1. \A t \in Turns : stage[t] = "idle" /\ record[t] = 0
    BY DEF Init
  <2> QED
    BY <2>1 DEF Service!Init, Outcome, Owned
<1>2. IInv /\ Owned /\ [Next]_vars => [Service!Next]_<<Outcomes, Owners>>
  <2> SUFFICES ASSUME IInv, Owned, [Next]_vars
               PROVE  Service!Next \/ (Outcomes' = Outcomes /\ Owners' = Owners)
    OBVIOUS
  <2>1. CASE UNCHANGED vars
    BY <2>1 DEF vars, Outcomes, Outcome, Owners
  <2>2. CASE AllEnded
    BY <2>2 DEF AllEnded, vars, Outcomes, Outcome, Owners
  <2> QED
    BY <2>1, <2>2, TurnSteps DEF Next
<1>3. IInv /\ Owned /\ [Next]_vars => Owned'
  BY OwnedStep
<1> QED
  BY <1>1, <1>2, <1>3, RoutingInvariant, PTL
     DEF Spec, ImplementsTurnService, Service!Spec, Outcomes, Owners
=============================================================================
