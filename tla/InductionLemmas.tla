--------------------------- MODULE InductionLemmas ---------------------------
(***************************************************************************)
(* Lemmas about recursion over data, stated for sets and functions instead  *)
(* of operators so that they can be cited: induction on the naturals, and   *)
(* that the recursive function behind a fold of the community modules       *)
(* exists; and a sequence of at most one element.                           *)
(***************************************************************************)
EXTENDS Integers, SequencesExt, FiniteSetTheorems, SequenceTheorems, TLAPS

(* A sequence of at most one element that is not empty is that element.     *)
LEMMA OneElement ==
  ASSUME NEW S, NEW s \in Seq(S), Len(s) <= 1, s # <<>>
  PROVE  \E x \in S : s = <<x>>
<1>1. Len(s) = 1
  <2>1. Len(s) \in Nat \ {0} BY EmptySeq, Zenon
  <2> QED BY <2>1
<1>2. s[1] \in S BY <1>1
<1>3. <<s[1]>> \in Seq(S) /\ Len(<<s[1]>>) = 1 /\ <<s[1]>>[1] = s[1] BY <1>2
<1>4. s = <<s[1]>> BY <1>1, <1>3, SeqEqual
<1> QED BY <1>2, <1>4

Smaller == {ss \in Nat \X Nat : ss[1] < ss[2]}

(* The order of the naturals is well-founded.                               *)
LEMMA SmallerWellFounded == IsWellFoundedOn(Smaller, Nat)
BY NatLessThanWellFounded DEF OpToRel, Smaller

(* A set of naturals that is not empty has a least element.                 *)
LEMMA LeastNatural ==
  ASSUME NEW T, T \subseteq Nat, T # {}
  PROVE  \E m \in T : \A k \in T : m <= k
<1>1. PICK m \in T : \A k \in T : <<k, m>> \notin Smaller
  BY SmallerWellFounded, WFMin
<1>2. ASSUME NEW k \in T PROVE m <= k
  <2>1. k \in Nat /\ m \in Nat OBVIOUS
  <2>2. ~(k < m) BY <1>1, <2>1 DEF Smaller
  <2> QED BY <2>1, <2>2
<1> QED BY <1>2

(* ... and a greatest one, if it is bounded.                                *)
LEMMA GreatestNatural ==
  ASSUME NEW T, T \subseteq Nat, T # {}, NEW n \in Nat, \A k \in T : k <= n
  PROVE  \E m \in T : \A k \in T : m >= k
<1> DEFINE U == {n - k : k \in T}
<1>1. U \subseteq Nat /\ U # {}
  <2>1. \A k \in T : n - k \in Nat OBVIOUS
  <2>2. PICK k \in T : TRUE OBVIOUS
  <2>3. n - k \in U BY <2>2
  <2> QED BY <2>1, <2>3
<1>2. PICK m \in U : \A k \in U : m <= k BY <1>1, LeastNatural
<1>3. PICK i \in T : m = n - i OBVIOUS
<1>4. ASSUME NEW k \in T PROVE i >= k
  <2>1. n - k \in U OBVIOUS
  <2>2. n - i <= n - k BY <2>1, <1>2, <1>3
  <2>3. i \in Nat /\ k \in Nat OBVIOUS
  <2> QED BY <2>2, <2>3
<1> QED BY <1>4

(* Induction: the property is a set of naturals.                            *)
LEMMA SetInduction ==
  ASSUME NEW T, 0 \in T, \A n \in Nat : n \in T => n + 1 \in T
  PROVE  Nat \subseteq T
<1> SUFFICES ASSUME Nat \ T # {} PROVE FALSE OBVIOUS
<1>1. PICK m \in Nat \ T : \A k \in Nat \ T : m <= k BY LeastNatural
<1>2. m # 0 /\ m - 1 \in Nat BY <1>1
<1>3. m - 1 \in T BY <1>1, <1>2
<1>4. (m - 1) + 1 \in T BY <1>2, <1>3
<1> QED BY <1>1, <1>4

(* Induction up to a bound.                                                 *)
LEMMA BoundedInduction ==
  ASSUME NEW n \in Nat, NEW T, 0 \in T,
         \A k \in 0 .. n - 1 : k \in T => k + 1 \in T
  PROVE  0 .. n \subseteq T
<1> DEFINE U == {k \in Nat : k <= n => k \in T}
<1>1. 0 \in U OBVIOUS
<1>2. ASSUME NEW k \in Nat, k \in U PROVE k + 1 \in U
  <2>1. CASE k + 1 <= n
    <3>1. k \in 0 .. n - 1 BY <2>1
    <3> QED BY <1>2, <3>1
  <2> QED BY <2>1
<1>3. Nat \subseteq U
  <2> HIDE DEF U
  <2> QED BY <1>1, <1>2, SetInduction
<1> QED BY <1>3

(* A recursive definition that takes one element after another out of a     *)
(* finite set: next is the element that is taken, step what becomes of it   *)
(* and of the value for the rest.                                           *)
IsFold(iter, S, base, next, step) ==
  \A t \in SUBSET S :
    iter[t] = IF t = {} THEN base
              ELSE step[<<next[t], iter[t \ {next[t]}]>>]

(* Such a definition defines a function.                                    *)
LEMMA FoldExists ==
  ASSUME NEW S, IsFiniteSet(S), NEW V, NEW base \in V,
         NEW next, \A t \in SUBSET S : t # {} => next[t] \in t,
         NEW step \in [S \X V -> V]
  PROVE  \E iter \in [SUBSET S -> V] : IsFold(iter, S, base, next, step)
<1> DEFINE Small(n) == {t \in SUBSET S : Cardinality(t) <= n}
           Good(iter, n) == \A t \in Small(n) :
             iter[t] = IF t = {} THEN base
                       ELSE step[<<next[t], iter[t \ {next[t]}]>>]
           T == {n \in Nat : \E iter \in [Small(n) -> V] : Good(iter, n)}
<1>1. \A t \in SUBSET S : IsFiniteSet(t) /\ Cardinality(t) \in Nat
  BY FS_Subset, FS_CardinalityType
<1>2. ASSUME NEW t \in SUBSET S, t # {}
      PROVE  /\ t \ {next[t]} \in SUBSET S /\ next[t] \in S
             /\ Cardinality(t \ {next[t]}) = Cardinality(t) - 1
  BY <1>1, <1>2, FS_RemoveElement
<1>3. \A t \in SUBSET S : Cardinality(t) = 0 <=> t = {}
  BY <1>1, FS_EmptySet
<1>4. 0 \in T
  <2>1. \A t \in Small(0) : t = {} BY <1>1, <1>3
  <2>2. [t \in Small(0) |-> base] \in [Small(0) -> V] OBVIOUS
  <2>3. Good([t \in Small(0) |-> base], 0) BY <2>1
  <2> QED BY <2>2, <2>3
<1>5. ASSUME NEW n \in Nat, n \in T PROVE n + 1 \in T
  <2>1. PICK old \in [Small(n) -> V] : Good(old, n) BY <1>5
  <2> DEFINE new == [t \in Small(n + 1) |->
                       IF t \in Small(n) THEN old[t]
                       ELSE step[<<next[t], old[t \ {next[t]}]>>]]
  <2>2. ASSUME NEW t \in Small(n + 1), t # {}
        PROVE  t \ {next[t]} \in Small(n) /\ next[t] \in S
    <3>1. Cardinality(t) \in Nat /\ Cardinality(t) <= n + 1 BY <1>1
    <3>2. Cardinality(t \ {next[t]}) = Cardinality(t) - 1 BY <1>2, <2>2
    <3> QED BY <1>2, <2>2, <3>1, <3>2
  <2>3. {} \in Small(n) BY <1>3, <1>1
  <2>4. Small(n) \subseteq Small(n + 1) BY <1>1
  <2>5. new \in [Small(n + 1) -> V]
    <3> SUFFICES ASSUME NEW t \in Small(n + 1), t \notin Small(n)
                 PROVE  step[<<next[t], old[t \ {next[t]}]>>] \in V
      OBVIOUS
    <3>1. t \ {next[t]} \in Small(n) /\ next[t] \in S BY <2>2, <2>3
    <3>2. old[t \ {next[t]}] \in V BY <2>1, <3>1
    <3> HIDE DEF Small
    <3> QED BY <3>1, <3>2
  <2>6. Good(new, n + 1)
    <3> SUFFICES ASSUME NEW t \in Small(n + 1)
                 PROVE  new[t] = IF t = {} THEN base
                                 ELSE step[<<next[t], new[t \ {next[t]}]>>]
      OBVIOUS
    <3>1. CASE t = {}
      <4>1. new[t] = old[t] BY <3>1, <2>3, <2>4
      <4> QED BY <2>1, <2>3, <3>1, <4>1
    <3>2. CASE t # {}
      <4>1. t \ {next[t]} \in Small(n) BY <2>2, <3>2
      <4>2. new[t \ {next[t]}] = old[t \ {next[t]}] BY <2>4, <4>1
      <4>3. new[t] = step[<<next[t], old[t \ {next[t]}]>>]
        <5>1. CASE t \in Small(n) BY <2>1, <3>2, <5>1
        <5>2. CASE t \notin Small(n) BY <5>2
        <5> QED BY <5>1, <5>2
      <4> HIDE DEF new, Small
      <4> QED BY <3>2, <4>2, <4>3
    <3> QED BY <3>1, <3>2
  <2> HIDE DEF new, Small, Good
  <2> QED BY <2>5, <2>6
<1>6. Nat \subseteq T
  <2> HIDE DEF T
  <2> QED BY <1>4, <1>5, SetInduction
<1>7. Cardinality(S) \in T BY <1>1, <1>6
<1>8. Small(Cardinality(S)) = SUBSET S
  <2>1. \A t \in SUBSET S : Cardinality(t) <= Cardinality(S) BY FS_Subset
  <2> QED BY <2>1
<1> QED BY <1>7, <1>8 DEF IsFold

-----------------------------------------------------------------------------
(* Folds over a sequence of length n take the places 1 .. n one by one, the *)
(* greatest first in a fold from the left.                                  *)

(* A set of places has a greatest one; in 1 .. k it is k.                   *)
LEMMA GreatestPlace ==
  ASSUME NEW n \in Nat
  PROVE  /\ \A t \in SUBSET (1 .. n) : t # {} => Max(t) \in t
         /\ \A k \in 1 .. n : /\ Max(1 .. k) = k
                             /\ (1 .. k) \ {k} = 1 .. k - 1
<1>1. ASSUME NEW t \in SUBSET (1 .. n), t # {}
      PROVE  \E m \in t : \A k \in t : m >= k
  <2>1. t \subseteq Nat /\ \A k \in t : k <= n OBVIOUS
  <2> QED BY <2>1, <1>1, GreatestNatural
<1>2. ASSUME NEW t \in SUBSET (1 .. n), t # {} PROVE Max(t) \in t
  BY <1>1, <1>2 DEF Max
<1>3. ASSUME NEW k \in 1 .. n PROVE Max(1 .. k) = k
  <2>1. k \in 1 .. k /\ \A j \in 1 .. k : k >= j OBVIOUS
  <2>2. \A m \in 1 .. k : (\A j \in 1 .. k : m >= j) => m = k BY <2>1
  <2> QED BY <2>1, <2>2 DEF Max
<1> QED BY <1>2, <1>3

(* The recursive function behind a fold from the left exists: step takes    *)
(* the place and the value of the places before it.                         *)
LEMMA LeftFoldExists ==
  ASSUME NEW n \in Nat, NEW V, NEW base \in V, NEW step \in [(1 .. n) \X V -> V]
  PROVE  \E iter \in [SUBSET (1 .. n) -> V] :
           IsFold(iter, 1 .. n, base, [t \in SUBSET (1 .. n) |-> Max(t)], step)
<1> DEFINE S == 1 .. n
           next == [t \in SUBSET S |-> Max(t)]
<1>1. \A t \in SUBSET S : t # {} => next[t] \in t BY GreatestPlace
<1>2. IsFiniteSet(S) BY FS_Interval
<1>3. step \in [S \X V -> V] OBVIOUS
<1> HIDE DEF S, next
<1>4. \E iter \in [SUBSET S -> V] : IsFold(iter, S, base, next, step)
  BY <1>1, <1>2, <1>3, FoldExists
<1> QED BY <1>4 DEF S, next

(* A function that takes such steps as long as its values have their type.  *)
StepsLeft(iter, n, V, base, step) ==
  /\ iter[{}] = base
  /\ \A t \in SUBSET (1 .. n) : t # {} /\ iter[t \ {Max(t)}] \in V =>
       iter[t] = step[<<Max(t), iter[t \ {Max(t)}]>>]

(* The run of a fold: its value after each element, up to the last.         *)
IsRun(run, n, base, step, last) ==
  /\ run[0] = base
  /\ \A k \in 1 .. n : run[k] = step[<<k, run[k - 1]>>]
  /\ run[n] = last

(* The values for 1 .. k are the run of the fold, and have their type.      *)
LEMMA LeftFoldRuns ==
  ASSUME NEW n \in Nat, NEW V, NEW base \in V,
         NEW step \in [(1 .. n) \X V -> V], NEW iter,
         StepsLeft(iter, n, V, base, step)
  PROVE  \E run \in [0 .. n -> V] : IsRun(run, n, base, step, iter[1 .. n])
<1> DEFINE run == [k \in 0 .. n |-> iter[1 .. k]]
           T == {k \in Nat : k <= n => iter[1 .. k] \in V}
<1>1. 1 .. 0 = {} /\ iter[{}] = base BY DEF StepsLeft
<1>2. ASSUME NEW k \in 1 .. n, iter[1 .. k - 1] \in V
      PROVE  /\ iter[1 .. k] = step[<<k, iter[1 .. k - 1]>>]
             /\ iter[1 .. k] \in V
  <2>1. 1 .. k \in SUBSET (1 .. n) /\ 1 .. k # {} OBVIOUS
  <2>2. Max(1 .. k) = k /\ (1 .. k) \ {k} = 1 .. k - 1 BY GreatestPlace
  <2>3. iter[1 .. k] = step[<<k, iter[1 .. k - 1]>>]
    BY <1>2, <2>1, <2>2 DEF StepsLeft
  <2> QED BY <1>2, <2>3
<1>3. Nat \subseteq T
  <2>1. 0 \in T BY <1>1
  <2>2. ASSUME NEW k \in Nat, k \in T PROVE k + 1 \in T
    <3>1. CASE k + 1 <= n
      <4>1. k + 1 \in 1 .. n /\ (k + 1) - 1 = k BY <3>1
      <4>2. iter[1 .. k] \in V BY <2>2, <3>1
      <4>3. iter[1 .. k + 1] \in V BY <1>2, <4>1, <4>2
      <4> QED BY <4>3
    <3> QED BY <3>1
  <2> HIDE DEF T
  <2> QED BY <2>1, <2>2, SetInduction
<1>4. \A k \in 0 .. n : iter[1 .. k] \in V BY <1>3
<1>5. run \in [0 .. n -> V] BY <1>4
<1>6. run[0] = base BY <1>1
<1>7. ASSUME NEW k \in 1 .. n PROVE run[k] = step[<<k, run[k - 1]>>]
  <2>1. k - 1 \in 0 .. n OBVIOUS
  <2> QED BY <1>2, <1>4, <2>1
<1> HIDE DEF run
<1>8. run[n] = iter[1 .. n] BY DEF run
<1> QED BY <1>5, <1>6, <1>7, <1>8 DEF IsRun

(* Two runs take alike steps if they are alike before.                      *)
StepAlike(f, g, n) == \A k \in 1 .. n : f[k - 1] = g[k - 1] => f[k] = g[k]

(* If they start alike they end alike.                                      *)
LEMMA RunsAgree ==
  ASSUME NEW n \in Nat, NEW f, NEW g, f[0] = g[0], StepAlike(f, g, n)
  PROVE  f[n] = g[n]
<1> DEFINE T == {k \in 0 .. n : f[k] = g[k]}
<1>1. 0 \in T OBVIOUS
<1>2. ASSUME NEW k \in 0 .. n - 1, k \in T PROVE k + 1 \in T
  <2>1. k + 1 \in 1 .. n /\ (k + 1) - 1 = k OBVIOUS
  <2> QED BY <1>2, <2>1 DEF StepAlike
<1>3. 0 .. n \subseteq T
  <2> HIDE DEF T
  <2> QED BY <1>1, <1>2, BoundedInduction
<1> QED BY <1>3

-----------------------------------------------------------------------------
(* A fold from the right takes the least place first.                       *)
LEMMA LeastPlace ==
  ASSUME NEW n \in Nat
  PROVE  /\ \A t \in SUBSET (1 .. n) : t # {} => Min(t) \in t
         /\ \A k \in 1 .. n : /\ Min(k .. n) = k
                             /\ (k .. n) \ {k} = k + 1 .. n
<1>1. ASSUME NEW t \in SUBSET (1 .. n), t # {} PROVE Min(t) \in t
  <2>1. t \subseteq Nat OBVIOUS
  <2>2. \E m \in t : \A k \in t : m <= k BY <2>1, <1>1, LeastNatural
  <2> QED BY <2>2 DEF Min
<1>2. ASSUME NEW k \in 1 .. n PROVE Min(k .. n) = k
  <2>1. k \in k .. n /\ \A j \in k .. n : k <= j OBVIOUS
  <2>2. \A m \in k .. n : (\A j \in k .. n : m <= j) => m = k BY <2>1
  <2> QED BY <2>1, <2>2 DEF Min
<1> QED BY <1>1, <1>2

(* The recursive function behind a fold from the right exists.              *)
LEMMA RightFoldExists ==
  ASSUME NEW n \in Nat, NEW V, NEW base \in V, NEW step \in [(1 .. n) \X V -> V]
  PROVE  \E iter \in [SUBSET (1 .. n) -> V] :
           IsFold(iter, 1 .. n, base, [t \in SUBSET (1 .. n) |-> Min(t)], step)
<1> DEFINE S == 1 .. n
           next == [t \in SUBSET S |-> Min(t)]
<1>1. \A t \in SUBSET S : t # {} => next[t] \in t BY LeastPlace
<1>2. IsFiniteSet(S) BY FS_Interval
<1>3. step \in [S \X V -> V] OBVIOUS
<1> HIDE DEF S, next
<1>4. \E iter \in [SUBSET S -> V] : IsFold(iter, S, base, next, step)
  BY <1>1, <1>2, <1>3, FoldExists
<1> QED BY <1>4 DEF S, next

(* A function that takes such steps as long as its values have their type.  *)
StepsRight(iter, n, V, base, step) ==
  /\ iter[{}] = base
  /\ \A t \in SUBSET (1 .. n) : t # {} /\ iter[t \ {Min(t)}] \in V =>
       iter[t] = step[<<Min(t), iter[t \ {Min(t)}]>>]

(* The run of a fold from the right: its value after each element, from the *)
(* last element to the first.                                               *)
IsRunBack(run, n, base, step, last) ==
  /\ run[0] = base
  /\ \A k \in 1 .. n : run[k] = step[<<n - k + 1, run[k - 1]>>]
  /\ run[n] = last

(* The values for the last k places are the run, and have their type.       *)
LEMMA RightFoldRuns ==
  ASSUME NEW n \in Nat, NEW V, NEW base \in V,
         NEW step \in [(1 .. n) \X V -> V], NEW iter,
         StepsRight(iter, n, V, base, step)
  PROVE  \E run \in [0 .. n -> V] : IsRunBack(run, n, base, step, iter[1 .. n])
<1> DEFINE run == [k \in 0 .. n |-> iter[n - k + 1 .. n]]
           T == {k \in Nat : k <= n => iter[n - k + 1 .. n] \in V}
<1>1. n - 0 + 1 .. n = {} /\ iter[{}] = base BY DEF StepsRight
<1>2. ASSUME NEW k \in 1 .. n, iter[n - (k - 1) + 1 .. n] \in V
      PROVE  /\ iter[n - k + 1 .. n] =
                  step[<<n - k + 1, iter[n - (k - 1) + 1 .. n]>>]
             /\ iter[n - k + 1 .. n] \in V
  <2> DEFINE i == n - k + 1
  <2>0. i \in 1 .. n /\ n - (k - 1) + 1 = i + 1 OBVIOUS
  <2>1. i .. n \in SUBSET (1 .. n) /\ i .. n # {} BY <2>0
  <2>2. Min(i .. n) = i /\ (i .. n) \ {i} = i + 1 .. n
    <3> HIDE DEF i
    <3> QED BY <2>0, LeastPlace
  <2>3. iter[i + 1 .. n] \in V BY <1>2, <2>0
  <2> HIDE DEF i
  <2>4. iter[i .. n] = step[<<i, iter[i + 1 .. n]>>]
    BY <2>1, <2>2, <2>3 DEF StepsRight
  <2>5. iter[i .. n] \in V BY <2>0, <2>3, <2>4
  <2> QED BY <2>0, <2>4, <2>5 DEF i
<1>3. Nat \subseteq T
  <2>1. 0 \in T BY <1>1
  <2>2. ASSUME NEW k \in Nat, k \in T PROVE k + 1 \in T
    <3>1. CASE k + 1 <= n
      <4>1. k + 1 \in 1 .. n /\ (k + 1) - 1 = k BY <3>1
      <4>2. iter[n - k + 1 .. n] \in V BY <2>2, <3>1
      <4>3. iter[n - (k + 1) + 1 .. n] \in V BY <1>2, <4>1, <4>2
      <4> QED BY <4>3
    <3> QED BY <3>1
  <2> HIDE DEF T
  <2> QED BY <2>1, <2>2, SetInduction
<1>4. \A k \in 0 .. n : iter[n - k + 1 .. n] \in V BY <1>3
<1>5. run \in [0 .. n -> V] BY <1>4
<1>6. run[0] = base BY <1>1
<1>7. ASSUME NEW k \in 1 .. n PROVE run[k] = step[<<n - k + 1, run[k - 1]>>]
  <2>1. k - 1 \in 0 .. n OBVIOUS
  <2>2. iter[n - (k - 1) + 1 .. n] \in V BY <1>4, <2>1
  <2>3. run[k - 1] = iter[n - (k - 1) + 1 .. n] BY <2>1
  <2>4. iter[n - k + 1 .. n] = step[<<n - k + 1, iter[n - (k - 1) + 1 .. n]>>]
    BY <1>2, <2>2
  <2> HIDE DEF T
  <2> QED BY SMTT(30), <2>3, <2>4
<1>8. run[n] = iter[1 .. n]
  <2>1. n - n + 1 = 1 /\ n \in 0 .. n OBVIOUS
  <2> QED BY <2>1
<1> HIDE DEF run
<1> QED BY <1>5, <1>6, <1>7, <1>8 DEF IsRunBack

-----------------------------------------------------------------------------
(* The sum of some integers, one by one.                                    *)
Adds(s) == FoldLeft(LAMBDA sum, n : sum + n, 0, s)

(* Its run: the sums of the first ones.                                     *)
LEMMA AddsRuns ==
  ASSUME NEW s \in Seq(Int)
  PROVE  \E run \in [0 .. Len(s) -> Int] :
           /\ run[0] = 0
           /\ \A k \in 1 .. Len(s) : run[k] = run[k - 1] + s[k]
           /\ run[Len(s)] = Adds(s)
<1> DEFINE n == Len(s)
           step == [p \in (1 .. n) \X Int |-> p[2] + s[p[1]]]
           Is(f) == f = [t \in SUBSET (1 .. n) |->
                           IF t = {} THEN 0 ELSE f[t \ {Max(t)}] + s[Max(t)]]
           iter == CHOOSE f : Is(f)
<1>1. n \in Nat /\ DOMAIN s = 1 .. n OBVIOUS
<1>2. Adds(s) = iter[1 .. n] BY <1>1 DEF Adds, FoldLeft, MapThenFoldSet
<1>3. \A k \in 1 .. n, v \in Int : v + s[k] \in Int OBVIOUS
<1>4. step \in [(1 .. n) \X Int -> Int] BY <1>3
<1>5. \A k \in 1 .. n, v \in Int : step[<<k, v>>] = v + s[k] OBVIOUS
<1>6. \A t \in SUBSET (1 .. n) : t # {} => Max(t) \in 1 .. n
  BY <1>1, GreatestPlace
<1>0. 0 \in Int OBVIOUS
<1>7. Is(iter)
  <2> HIDE DEF n, step
  <2>1. PICK f \in [SUBSET (1 .. n) -> Int] :
          IsFold(f, 1 .. n, 0, [t \in SUBSET (1 .. n) |-> Max(t)], step)
    BY <1>0, <1>1, <1>4, LeftFoldExists
  <2>2. Is(f)
    <3> SUFFICES ASSUME NEW t \in SUBSET (1 .. n)
                 PROVE  f[t] = IF t = {} THEN 0
                               ELSE f[t \ {Max(t)}] + s[Max(t)]
      BY <2>1
    <3>1. f[t \ {Max(t)}] \in Int BY <2>1
    <3> QED BY <2>1, <3>1, <1>5, <1>6 DEF IsFold
  <2> QED BY <2>2
<1>8. StepsLeft(iter, n, Int, 0, step)
  <2> HIDE DEF n, step, iter
  <2> QED BY <1>5, <1>6, <1>7 DEF StepsLeft
<1> HIDE DEF n, step, iter
<1>9. PICK run \in [0 .. n -> Int] : IsRun(run, n, 0, step, iter[1 .. n])
  BY <1>0, <1>1, <1>4, <1>8, LeftFoldRuns
<1>10. ASSUME NEW k \in 1 .. n PROVE run[k] = run[k - 1] + s[k]
  <2>1. run[k - 1] \in Int BY <1>1, <1>9
  <2>2. run[k] = step[<<k, run[k - 1]>>] BY <1>9 DEF IsRun
  <2> QED BY <2>1, <2>2, <1>5
<1>11. run[0] = 0 /\ run[n] = Adds(s) BY <1>2, <1>9 DEF IsRun
<1> QED BY <1>9, <1>10, <1>11 DEF n

(* A function is the run of a sum.                                          *)
SumsUp(run, s) ==
  /\ run[0] = 0
  /\ \A k \in 1 .. Len(s) : run[k] = run[k - 1] + s[k]

(* A run determines the sum.                                                *)
LEMMA AddsIs ==
  ASSUME NEW s \in Seq(Int), NEW run, SumsUp(run, s)
  PROVE  run[Len(s)] = Adds(s) /\ Adds(s) \in Int
<1> DEFINE n == Len(s)
<1>1. PICK f \in [0 .. n -> Int] :
        /\ f[0] = 0
        /\ \A k \in 1 .. n : f[k] = f[k - 1] + s[k]
        /\ f[n] = Adds(s)
  BY AddsRuns
<1>2. n \in Nat OBVIOUS
<1>3. StepAlike(run, f, n) /\ run[0] = f[0]
  BY <1>1 DEF StepAlike, SumsUp
<1> HIDE DEF n
<1>4. run[n] = f[n] BY <1>2, <1>3, RunsAgree
<1> QED BY <1>1, <1>2, <1>4 DEF n

(* A sum is an integer; an empty one is zero.                               *)
LEMMA AddsType ==
  ASSUME NEW s \in Seq(Int)
  PROVE  Adds(s) \in Int /\ (Len(s) = 0 => Adds(s) = 0)
<1>1. PICK f \in [0 .. Len(s) -> Int] : f[0] = 0 /\ f[Len(s)] = Adds(s)
  BY AddsRuns
<1>2. Len(s) \in Nat OBVIOUS
<1> QED BY <1>1, <1>2

(* What is true at the start of a run, and after a step if it was before,   *)
(* is true of the sum: T holds the pairs of a place and the sum up to it.   *)
LEMMA AddsInduction ==
  ASSUME NEW s \in Seq(Int), NEW T, <<0, 0>> \in T,
         \A k \in 1 .. Len(s), v \in Int :
           <<k - 1, v>> \in T => <<k, v + s[k]>> \in T
  PROVE  <<Len(s), Adds(s)>> \in T
<1> DEFINE n == Len(s)
<1>1. PICK f \in [0 .. n -> Int] :
        /\ f[0] = 0
        /\ \A k \in 1 .. n : f[k] = f[k - 1] + s[k]
        /\ f[n] = Adds(s)
  BY AddsRuns
<1> DEFINE U == {k \in 0 .. n : <<k, f[k]>> \in T}
<1>2. n \in Nat OBVIOUS
<1> HIDE DEF n
<1>3. 0 \in U BY <1>1, <1>2
<1>4. ASSUME NEW k \in 0 .. n - 1, k \in U PROVE k + 1 \in U
  <2>1. k + 1 \in 1 .. n /\ (k + 1) - 1 = k /\ k \in 0 .. n BY <1>2
  <2>2. f[k] \in Int /\ <<k, f[k]>> \in T BY <1>1, <1>4, <2>1
  <2>3. f[k + 1] = f[k] + s[k + 1] BY <1>1, <2>1
  <2>4. <<k + 1, f[k] + s[k + 1]>> \in T BY <2>1, <2>2 DEF n
  <2>5. <<k + 1, f[k + 1]>> \in T BY <2>3, <2>4
  <2>6. k + 1 \in 0 .. n BY <1>2
  <2> QED BY <2>5, <2>6
<1>5. 0 .. n \subseteq U
  <2> HIDE DEF U
  <2> QED BY <1>2, <1>3, <1>4, BoundedInduction
<1>6. n \in U BY <1>2, <1>5
<1> QED BY <1>1, <1>6 DEF n

(* A sum without a negative part is not negative.                           *)
LEMMA AddsNotNegative ==
  ASSUME NEW s \in Seq(Int), \A k \in 1 .. Len(s) : s[k] >= 0
  PROVE  Adds(s) >= 0
<1> DEFINE T == {p \in Nat \X Int : p[2] >= 0}
<1>1. <<0, 0>> \in T OBVIOUS
<1>2. ASSUME NEW k \in 1 .. Len(s), NEW v \in Int, <<k - 1, v>> \in T
      PROVE  <<k, v + s[k]>> \in T
  <2>1. s[k] \in Int /\ s[k] >= 0 /\ v >= 0 BY <1>2
  <2> QED BY <2>1
<1> HIDE DEF T
<1>3. <<Len(s), Adds(s)>> \in T BY <1>1, <1>2, AddsInduction
<1> QED BY <1>3 DEF T

(* A sum of which no part is positive and one is negative is negative.      *)
LEMMA AddsNegative ==
  ASSUME NEW s \in Seq(Int), \A k \in 1 .. Len(s) : s[k] <= 0,
         NEW j \in 1 .. Len(s), s[j] < 0
  PROVE  Adds(s) < 0
<1> DEFINE T == {p \in Nat \X Int : p[2] <= 0 /\ (p[1] >= j => p[2] < 0)}
<1>1. <<0, 0>> \in T OBVIOUS
<1>2. ASSUME NEW k \in 1 .. Len(s), NEW v \in Int, <<k - 1, v>> \in T
      PROVE  <<k, v + s[k]>> \in T
  <2>1. s[k] \in Int /\ s[k] <= 0 /\ v <= 0 /\ (k - 1 >= j => v < 0) BY <1>2
  <2>2. k = j => s[k] < 0 OBVIOUS
  <2>3. k \in Nat /\ v + s[k] \in Int /\ v + s[k] <= 0 BY <2>1
  <2>4. k >= j => v + s[k] < 0 BY <2>1, <2>2
  <2> QED BY <2>3, <2>4
<1> HIDE DEF T
<1>3. <<Len(s), Adds(s)>> \in T BY <1>1, <1>2, AddsInduction
<1>4. Len(s) >= j OBVIOUS
<1> QED BY <1>3, <1>4 DEF T

(* The sum of a sequence with one part that is not zero is that part.       *)
LEMMA AddsOnly ==
  ASSUME NEW s \in Seq(Int), NEW j \in 1 .. Len(s),
         \A k \in 1 .. Len(s) : k # j => s[k] = 0
  PROVE  Adds(s) = s[j]
<1> DEFINE T == {p \in Nat \X Int : p[2] = IF p[1] >= j THEN s[j] ELSE 0}
<1>0. s[j] \in Int OBVIOUS
<1>1. <<0, 0>> \in T OBVIOUS
<1>2. ASSUME NEW k \in 1 .. Len(s), NEW v \in Int, <<k - 1, v>> \in T
      PROVE  <<k, v + s[k]>> \in T
  <2>1. s[k] \in Int /\ (k # j => s[k] = 0) OBVIOUS
  <2>2. v = IF k - 1 >= j THEN s[j] ELSE 0 BY <1>2
  <2>3. v + s[k] = IF k >= j THEN s[j] ELSE 0
    <3>1. CASE k = j BY <2>2, <3>1, <1>0
    <3>2. CASE k # j BY <2>1, <2>2, <3>2, <1>0
    <3> QED BY <3>1, <3>2
  <2> QED BY <2>1, <2>3
<1> HIDE DEF T
<1>3. <<Len(s), Adds(s)>> \in T BY <1>1, <1>2, AddsInduction
<1>4. Len(s) >= j OBVIOUS
<1> QED BY <1>3, <1>4 DEF T

(* A sequence is the sum of two others, place by place.                     *)
AddsUp(w, u, v) == \A k \in 1 .. Len(w) : w[k] = u[k] + v[k]

(* Sums add up place by place.                                              *)
LEMMA AddsPointwise ==
  ASSUME NEW u \in Seq(Int), NEW v \in Seq(Int), NEW w \in Seq(Int),
         Len(u) = Len(w), Len(v) = Len(w), AddsUp(w, u, v)
  PROVE  Adds(w) = Adds(u) + Adds(v)
<1> DEFINE n == Len(w)
<1>1. PICK f \in [0 .. n -> Int] :
        /\ f[0] = 0
        /\ \A k \in 1 .. n : f[k] = f[k - 1] + u[k]
        /\ f[n] = Adds(u)
  BY AddsRuns
<1>2. PICK g \in [0 .. n -> Int] :
        /\ g[0] = 0
        /\ \A k \in 1 .. n : g[k] = g[k - 1] + v[k]
        /\ g[n] = Adds(v)
  BY AddsRuns
<1> DEFINE h == [k \in 0 .. n |-> f[k] + g[k]]
<1>3. n \in Nat OBVIOUS
<1>4. h[0] = 0 BY <1>1, <1>2, <1>3
<1>5. ASSUME NEW k \in 1 .. n PROVE h[k] = h[k - 1] + w[k]
  <2>1. k \in 0 .. n /\ k - 1 \in 0 .. n OBVIOUS
  <2>2. f[k - 1] \in Int /\ g[k - 1] \in Int BY <1>1, <1>2, <2>1
  <2>3. u[k] \in Int /\ v[k] \in Int OBVIOUS
  <2>4. w[k] = u[k] + v[k] BY DEF AddsUp
  <2>5. f[k] = f[k - 1] + u[k] /\ g[k] = g[k - 1] + v[k] BY <1>1, <1>2
  <2>6. h[k] = f[k] + g[k] /\ h[k - 1] = f[k - 1] + g[k - 1] BY <2>1
  <2>7. (f[k - 1] + u[k]) + (g[k - 1] + v[k]) =
          (f[k - 1] + g[k - 1]) + (u[k] + v[k])
    BY SMTT(30), <2>2, <2>3
  <2> HIDE DEF h, n
  <2> QED BY <2>4, <2>5, <2>6, <2>7
<1>6. h[n] = f[n] + g[n] BY <1>3
<1>7. SumsUp(h, w)
  <2> HIDE DEF h
  <2> QED BY <1>4, <1>5 DEF SumsUp
<1> HIDE DEF h
<1>8. h[n] = Adds(w) BY <1>7, AddsIs
<1> QED BY <1>1, <1>2, <1>6, <1>8

(* A part in front of others, or at their end, adds itself.                 *)
LEMMA AddsConcat ==
  ASSUME NEW s \in Seq(Int), NEW t \in Seq(Int)
  PROVE  Adds(s \o t) = Adds(s) + Adds(t)
<1> DEFINE m == Len(s)
           n == Len(t)
           w == s \o t
<1>1. PICK f \in [0 .. m -> Int] :
        /\ f[0] = 0
        /\ \A k \in 1 .. m : f[k] = f[k - 1] + s[k]
        /\ f[m] = Adds(s)
  BY AddsRuns
<1>2. PICK g \in [0 .. n -> Int] :
        /\ g[0] = 0
        /\ \A k \in 1 .. n : g[k] = g[k - 1] + t[k]
        /\ g[n] = Adds(t)
  BY AddsRuns
<1>3. /\ m \in Nat /\ n \in Nat /\ w \in Seq(Int) /\ Len(w) = m + n
      /\ \A k \in 1 .. m : w[k] = s[k]
      /\ \A k \in m + 1 .. m + n : w[k] = t[k - m]
  BY ConcatProperties
<1> DEFINE h == [k \in 0 .. m + n |->
                   IF k <= m THEN f[k] ELSE Adds(s) + g[k - m]]
<1> HIDE DEF m, n, w
<1>4. h[0] = 0 BY <1>1, <1>3
<1>5. ASSUME NEW k \in 1 .. m + n PROVE h[k] = h[k - 1] + w[k]
  <2>1. CASE k <= m
    <3>1. k \in 1 .. m /\ k \in 0 .. m + n /\ k - 1 \in 0 .. m + n
          /\ k - 1 <= m
      BY <2>1, <1>3
    <3>2. f[k] = f[k - 1] + s[k] BY <1>1, <3>1
    <3>3. h[k] = f[k] /\ h[k - 1] = f[k - 1] BY <2>1, <3>1
    <3> HIDE DEF h
    <3> QED BY <3>1, <3>2, <3>3, <1>3
  <2>2. CASE k > m
    <3>1. k - m \in 1 .. n /\ k \in 0 .. m + n /\ k - 1 \in 0 .. m + n
          /\ k \in m + 1 .. m + n /\ (k - m) - 1 = (k - 1) - m
          /\ (k - m) - 1 \in 0 .. n /\ k - m \in 0 .. n
      BY <2>2, <1>3
    <3>2. g[k - m] = g[(k - 1) - m] + t[k - m] BY <1>2, <3>1
    <3>3. h[k] = Adds(s) + g[k - m] BY <2>2, <3>1, <1>3
    <3>4. h[k - 1] = Adds(s) + g[(k - 1) - m]
      <4>1. CASE k - 1 = m
        <5>1. h[k - 1] = f[m] BY <4>1, <3>1, <1>3
        <5>2. (k - 1) - m = 0 BY <4>1, <1>3
        <5>3. g[(k - 1) - m] = 0 BY <5>2, <1>2
        <5>4. Adds(s) \in Int BY AddsType
        <5> HIDE DEF h
        <5> QED BY <5>1, <5>3, <5>4, <1>1
      <4>2. CASE k - 1 # m BY <2>2, <4>2, <3>1, <1>3
      <4> QED BY <4>1, <4>2
    <3>5. /\ g[(k - 1) - m] \in Int /\ g[k - m] \in Int /\ Adds(s) \in Int
          /\ w[k] = t[k - m]
      BY <3>1, <1>2, <1>3, AddsType
    <3>6. t[k - m] \in Int
      <4>1. k - m \in DOMAIN t BY <3>1 DEF n
      <4> QED BY <4>1
    <3> HIDE DEF h
    <3> QED BY <3>2, <3>3, <3>4, <3>5, <3>6
  <2> QED BY <2>1, <2>2, <1>3
<1>6. h[m + n] = Adds(s) + Adds(t)
  <2>1. m + n \in 0 .. m + n /\ m + n - m = n BY <1>3
  <2>2. CASE n = 0
    <3>1. h[m + n] = f[m] BY <2>1, <2>2, <1>3
    <3>2. Adds(t) = 0 BY <2>2, <1>2
    <3>3. Adds(s) \in Int BY AddsType
    <3> HIDE DEF h
    <3> QED BY <3>1, <3>2, <3>3, <1>1
  <2>3. CASE n # 0 BY <2>1, <2>3, <1>2, <1>3
  <2> QED BY <2>2, <2>3
<1>7. SumsUp(h, w)
  <2> HIDE DEF h
  <2> QED BY <1>3, <1>4, <1>5 DEF SumsUp
<1> HIDE DEF h
<1>8. h[m + n] = Adds(w) BY <1>3, <1>7, AddsIs
<1> QED BY <1>6, <1>8 DEF w
-----------------------------------------------------------------------------
(* A finite set that is not empty has a least element in any order in which *)
(* any two elements can be compared.                                        *)
LEMMA LeastExists ==
  ASSUME NEW S, IsFiniteSet(S), S # {}, NEW R,
         \A x, y \in S : <<x, y>> \in R \/ <<y, x>> \in R,
         \A x, y, z \in S : <<x, y>> \in R /\ <<y, z>> \in R => <<x, z>> \in R
  PROVE  \E m \in S : \A x \in S : <<m, x>> \in R
<1> DEFINE Has(U) == \E m \in U : \A x \in U : <<m, x>> \in R
           T == {n \in Nat : \A U \in SUBSET S :
                               Cardinality(U) = n /\ U # {} => Has(U)}
<1>1. \A U \in SUBSET S : IsFiniteSet(U) /\ Cardinality(U) \in Nat
  BY FS_Subset, FS_CardinalityType
<1>2. 0 \in T
  <2>1. \A U \in SUBSET S : Cardinality(U) = 0 => U = {}
    BY <1>1, FS_EmptySet
  <2> QED BY <2>1
<1>3. ASSUME NEW n \in Nat, n \in T PROVE n + 1 \in T
  <2> SUFFICES ASSUME NEW U \in SUBSET S, Cardinality(U) = n + 1, U # {}
               PROVE  Has(U)
    OBVIOUS
  <2>1. PICK u \in U : TRUE OBVIOUS
  <2> DEFINE V == U \ {u}
  <2>2. V \in SUBSET S /\ Cardinality(V) = n
    <3>1. IsFiniteSet(U) /\ u \in U BY <1>1
    <3>2. Cardinality(V) = Cardinality(U) - 1 BY <3>1, FS_RemoveElement
    <3> QED BY <3>2
  <2>3. CASE V = {}
    <3>1. U = {u} /\ <<u, u>> \in R BY <2>1, <2>3
    <3> QED BY <3>1
  <2>4. CASE V # {}
    <3>1. Has(V)
      <4> HIDE DEF V, Has
      <4> QED BY <1>3, <2>2, <2>4
    <3>2. PICK m \in V : \A x \in V : <<m, x>> \in R BY <3>1
    <3>3. CASE <<m, u>> \in R
      <4>1. \A x \in U : <<m, x>> \in R BY <3>2, <3>3
      <4> QED BY <4>1
    <3>4. CASE <<u, m>> \in R
      <4>1. ASSUME NEW x \in U PROVE <<u, x>> \in R
        <5>1. CASE x = u BY <5>1
        <5>2. CASE x # u
          <6>1. <<m, x>> \in R BY <3>2, <5>2
          <6>2. u \in S /\ m \in S /\ x \in S OBVIOUS
          <6> QED BY <3>4, <6>1, <6>2
        <5> QED BY <5>1, <5>2
      <4> QED BY <4>1
    <3>5. m \in S /\ u \in S OBVIOUS
    <3> QED BY <3>3, <3>4, <3>5
  <2> QED BY <2>3, <2>4
<1>4. Nat \subseteq T
  <2> HIDE DEF T
  <2> QED BY <1>2, <1>3, SetInduction
<1>5. S \in SUBSET S /\ Cardinality(S) \in T BY <1>1, <1>4
<1> QED BY <1>5

(* The numbers of a sequence have a bound.                                  *)
LEMMA BoundExists ==
  ASSUME NEW s \in Seq(Nat)
  PROVE  \E M \in Nat : \A i \in 1 .. Len(s) : s[i] <= M
<1> DEFINE n == Len(s)
           T == {k \in 0 .. n : \E M \in Nat : \A i \in 1 .. k : s[i] <= M}
<1>1. n \in Nat OBVIOUS
<1>2. 0 \in T BY <1>1
<1>3. ASSUME NEW k \in 0 .. n - 1, k \in T PROVE k + 1 \in T
  <2>1. PICK M \in Nat : \A i \in 1 .. k : s[i] <= M BY <1>3
  <2>2. s[k + 1] \in Nat
    <3>1. k + 1 \in DOMAIN s OBVIOUS
    <3> QED BY <3>1
  <2>3. \A i \in 1 .. k : s[i] \in Nat OBVIOUS
  <2>4. \A i \in 1 .. k + 1 : s[i] <= M + s[k + 1]
    <3> SUFFICES ASSUME NEW i \in 1 .. k + 1 PROVE s[i] <= M + s[k + 1]
      OBVIOUS
    <3>1. CASE i = k + 1 BY <3>1, <2>2
    <3>2. CASE i # k + 1
      <4>1. i \in 1 .. k BY <3>2
      <4>2. s[i] \in Nat /\ s[i] <= M BY <4>1, <2>1, <2>3
      <4> QED BY <4>2, <2>2
    <3> QED BY <3>1, <3>2
  <2> DEFINE N == M + s[k + 1]
  <2>5. N \in Nat /\ k + 1 \in 0 .. n BY <1>1, <2>2
  <2> HIDE DEF N, n
  <2> QED BY <2>4, <2>5 DEF N
<1>4. 0 .. n \subseteq T
  <2> HIDE DEF T, n
  <2> QED BY <1>1, <1>2, <1>3, BoundedInduction
<1>5. n \in T
  <2> HIDE DEF T, n
  <2> QED BY <1>1, <1>4
<1> QED BY <1>5
-----------------------------------------------------------------------------
(* A sum over a set, whose elements are taken in any order.                 *)
IsSetSum(iter, K, val) ==
  \A t \in SUBSET K :
    iter[t] = IF t = {} THEN 0
              ELSE iter[t \ {CHOOSE x \in t : TRUE}]
                     + val[CHOOSE x \in t : TRUE]

(* The recursive function behind such a sum exists.                         *)
LEMMA SetSumExists ==
  ASSUME NEW K, IsFiniteSet(K), NEW val \in [K -> Int]
  PROVE  \E iter \in [SUBSET K -> Int] : IsSetSum(iter, K, val)
<1> DEFINE next == [t \in SUBSET K |-> CHOOSE x \in t : TRUE]
           step == [p \in K \X Int |-> p[2] + val[p[1]]]
<1>1. \A t \in SUBSET K : t # {} => next[t] \in t OBVIOUS
<1>2. step \in [K \X Int -> Int]
  <2>1. \A p \in K \X Int : p[2] + val[p[1]] \in Int OBVIOUS
  <2> QED BY <2>1
<1>3. 0 \in Int OBVIOUS
<1>4. \A x \in K, v \in Int : step[<<x, v>>] = v + val[x] OBVIOUS
<1>5. \A t \in SUBSET K : next[t] = CHOOSE x \in t : TRUE OBVIOUS
<1> HIDE DEF next, step
<1>6. PICK iter \in [SUBSET K -> Int] : IsFold(iter, K, 0, next, step)
  BY <1>1, <1>2, <1>3, FoldExists
<1>7. ASSUME NEW t \in SUBSET K
      PROVE  iter[t] = IF t = {} THEN 0
                       ELSE iter[t \ {next[t]}] + val[next[t]]
  <2>1. CASE t = {} BY <1>6, <2>1 DEF IsFold
  <2>2. CASE t # {}
    <3>1. next[t] \in K /\ iter[t \ {next[t]}] \in Int BY <1>1, <1>6, <2>2
    <3>2. iter[t] = step[<<next[t], iter[t \ {next[t]}]>>]
      BY <1>6, <2>2 DEF IsFold
    <3> DEFINE y == next[t]
               v == iter[t \ {y}]
    <3> HIDE DEF y, v
    <3>3. step[<<y, v>>] = v + val[y] BY <1>4, <3>1 DEF y, v
    <3> QED BY <2>2, <3>2, <3>3 DEF y, v
  <2> QED BY <2>1, <2>2
<1>8. ASSUME NEW t \in SUBSET K
      PROVE  iter[t] = IF t = {} THEN 0
                       ELSE iter[t \ {CHOOSE x \in t : TRUE}]
                              + val[CHOOSE x \in t : TRUE]
  <2>1. next[t] = CHOOSE x \in t : TRUE BY <1>5
  <2> QED BY <1>7, <2>1
<1>9. IsSetSum(iter, K, val) BY <1>8 DEF IsSetSum
<1> QED BY <1>6, <1>9

(* The parts of some amounts whose kind is in t; the others count nothing.  *)
PartOf(kindOf, amount, n, t) ==
  [i \in 1 .. n |-> IF kindOf[i] \in t THEN amount[i] ELSE 0]

(* Each kind's value is what the amounts of that kind add up to.            *)
PartsAre(K, val, kindOf, amount, n) ==
  \A x \in K : val[x] = Adds(PartOf(kindOf, amount, n, {x}))

(* What each kind sums up to sums up to the whole.                          *)
LEMMA PartsAddUp ==
  ASSUME NEW K, IsFiniteSet(K), NEW n \in Nat, NEW kindOf \in [1 .. n -> K],
         NEW amount \in [1 .. n -> Int], NEW val,
         PartsAre(K, val, kindOf, amount, n),
         NEW iter, IsSetSum(iter, K, val)
  PROVE  iter[K] = Adds(amount)
<1> DEFINE P(t) == PartOf(kindOf, amount, n, t)
           T == {c \in Nat : \A t \in SUBSET K :
                               Cardinality(t) = c => iter[t] = Adds(P(t))}
<1>1. \A t \in SUBSET K : IsFiniteSet(t) /\ Cardinality(t) \in Nat
  BY FS_Subset, FS_CardinalityType
<1>2. ASSUME NEW t PROVE P(t) \in Seq(Int) /\ Len(P(t)) = n
  <2>1. P(t) \in [1 .. n -> Int] BY DEF PartOf
  <2> HIDE DEF P
  <2> QED BY <2>1
<1>3. 0 \in T
  <2> SUFFICES ASSUME NEW t \in SUBSET K, Cardinality(t) = 0
               PROVE  iter[t] = Adds(P(t))
    OBVIOUS
  <2>1. t = {} BY <1>1, FS_EmptySet
  <2>2. iter[t] = 0 BY <2>1 DEF IsSetSum
  <2>3. \A i \in 1 .. n : P(t)[i] = 0 BY <2>1 DEF PartOf
  <2>4. Adds(P(t)) = 0
    <3> HIDE DEF P
    <3>1. CASE n = 0 BY <1>2, <3>1, AddsType
    <3>2. CASE n # 0
      <4>1. 1 \in 1 .. Len(P(t)) /\ 1 \in 1 .. n BY <1>2, <3>2
      <4>2. Adds(P(t)) = P(t)[1] BY <1>2, <2>3, <4>1, AddsOnly
      <4> QED BY <2>3, <4>1, <4>2
    <3> QED BY <3>1, <3>2
  <2> QED BY <2>2, <2>4
<1>4. ASSUME NEW c \in Nat, c \in T PROVE c + 1 \in T
  <2> SUFFICES ASSUME NEW t \in SUBSET K, Cardinality(t) = c + 1
               PROVE  iter[t] = Adds(P(t))
    OBVIOUS
  <2> DEFINE x == CHOOSE x \in t : TRUE
             u == t \ {x}
  <2>1. t # {} BY <1>1, FS_EmptySet
  <2>2. x \in t /\ x \in K BY <2>1
  <2>3. iter[t] = iter[u] + val[x] BY <2>1 DEF IsSetSum
  <2>4. u \in SUBSET K /\ Cardinality(u) = c
    <3> HIDE DEF x
    <3>1. Cardinality(u) = Cardinality(t) - 1 BY <1>1, <2>2, FS_RemoveElement
    <3> QED BY <3>1
  <2> HIDE DEF x
  <2>5. iter[u] = Adds(P(u)) BY <1>4, <2>4
  <2>6. val[x] = Adds(P({x})) BY <2>2 DEF PartsAre
  <2>7. Adds(P(t)) = Adds(P(u)) + Adds(P({x}))
    <3>1. ASSUME NEW i \in 1 .. n PROVE P(t)[i] = P(u)[i] + P({x})[i]
      <4>1. amount[i] \in Int OBVIOUS
      <4>2. /\ P(t)[i] = IF kindOf[i] \in t THEN amount[i] ELSE 0
            /\ P(u)[i] = IF kindOf[i] \in u THEN amount[i] ELSE 0
            /\ P({x})[i] = IF kindOf[i] \in {x} THEN amount[i] ELSE 0
        BY DEF PartOf
      <4>3. CASE kindOf[i] = x
        <5>1. kindOf[i] \in t /\ kindOf[i] \notin u /\ kindOf[i] \in {x}
          BY <2>2, <4>3
        <5> HIDE DEF P, u
        <5> QED BY <4>1, <4>2, <5>1
      <4>4. CASE kindOf[i] # x
        <5>1. (kindOf[i] \in t <=> kindOf[i] \in u) /\ kindOf[i] \notin {x}
          BY <4>4
        <5> HIDE DEF P, u
        <5> QED BY <4>1, <4>2, <5>1
      <4> QED BY <4>3, <4>4
    <3> HIDE DEF P, u
    <3>2. AddsUp(P(t), P(u), P({x})) BY <1>2, <3>1 DEF AddsUp
    <3> QED BY SMTT(30), <1>2, <3>2, AddsPointwise
  <2> QED BY <2>3, <2>5, <2>6, <2>7
<1>5. Nat \subseteq T
  <2> HIDE DEF T
  <2> QED BY <1>3, <1>4, SetInduction
<1>6. iter[K] = Adds(P(K))
  <2>1. K \in SUBSET K /\ Cardinality(K) \in T BY <1>1, <1>5
  <2> QED BY <2>1
<1>7. P(K) = amount BY DEF PartOf
<1> QED BY <1>6, <1>7

(* What is nowhere more sums up to no more.                                 *)
LEMMA AddsMonotonic ==
  ASSUME NEW u \in Seq(Int), NEW w \in Seq(Int), Len(u) = Len(w),
         \A k \in 1 .. Len(w) : u[k] <= w[k]
  PROVE  Adds(u) <= Adds(w)
<1> DEFINE n == Len(w)
           v == [k \in 1 .. n |-> w[k] - u[k]]
<1>1. /\ n \in Nat /\ \A k \in 1 .. n : u[k] \in Int /\ w[k] \in Int
  OBVIOUS
<1>2. v \in Seq(Int) /\ Len(v) = n
  <2>1. v \in [1 .. n -> Int] BY <1>1
  <2> HIDE DEF v, n
  <2> QED BY <1>1, <2>1
<1>3. \A k \in 1 .. n : v[k] = w[k] - u[k] OBVIOUS
<1> HIDE DEF v
<1>4. AddsUp(w, u, v) BY <1>1, <1>3 DEF AddsUp
<1>5. Adds(w) = Adds(u) + Adds(v) BY <1>2, <1>4, AddsPointwise
<1>6. Adds(v) >= 0 BY SMTT(30), <1>1, <1>2, <1>3, AddsNotNegative
<1>7. Adds(u) \in Int /\ Adds(v) \in Int BY <1>2, AddsType
<1> QED BY <1>5, <1>6, <1>7
=============================================================================
