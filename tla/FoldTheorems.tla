----------------------------- MODULE FoldTheorems -----------------------------
(***************************************************************************)
(* Induction for the folds of the models. The induction theorems of the    *)
(* library take the formula to prove as a parameter, which the provers     *)
(* cannot fill in; here the formula is a set of numbers.                   *)
(***************************************************************************)
EXTENDS Integers, Sequences, SequencesExt, WellFoundedInduction, TLAPS

\* A set that has 0 and every successor has all naturals.
LEMMA NatSets ==
  ASSUME NEW S, 0 \in S, \A n \in Nat : n \in S => n + 1 \in S
  PROVE  \A n \in Nat : n \in S
<1> SUFFICES ASSUME Nat \ S # {} PROVE FALSE
  OBVIOUS
<1>1. PICK x \in Nat \ S : \A y \in Nat \ S : ~(<<y, x>> \in OpToRel(<, Nat))
  BY NatLessThanWellFounded, WFMin
<1>2. x # 0 /\ x - 1 \in Nat \ S
  OBVIOUS
<1>3. <<x - 1, x>> \in OpToRel(<, Nat)
  BY <1>2 DEF OpToRel
<1> QED BY <1>1, <1>2, <1>3

\* Products keep the order of one factor.
LEMMA Times ==
  ASSUME NEW k \in Nat, NEW n \in Nat, NEW s \in Nat, k <= n
  PROVE  k * s <= n * s /\ k * s \in Nat /\ s * k = k * s
OBVIOUS

\* The greatest element of a set of positions.
LEMMA MaxOf ==
  ASSUME NEW n \in Nat, NEW s \in SUBSET (1..n), s # {}
  PROVE  /\ Max(s) \in s
         /\ \A y \in s : Max(s) >= y
<1> DEFINE S == {k \in Nat : \A t \in SUBSET (1..k) : t # {} => \E x \in t : \A y \in t : x >= y}
<1>1. 0 \in S
  <2>1. 1..0 = {}
    OBVIOUS
  <2> QED BY <2>1
<1>2. ASSUME NEW k \in Nat, k \in S PROVE k + 1 \in S
  <2> SUFFICES ASSUME NEW t \in SUBSET (1..(k + 1)), t # {} PROVE \E x \in t : \A y \in t : x >= y
    OBVIOUS
  <2>1. CASE k + 1 \in t
    BY <2>1
  <2>2. CASE k + 1 \notin t
    <3>1. t \in SUBSET (1..k)
      BY <2>2
    <3> QED BY <1>2, <3>1
  <2> QED BY <2>1, <2>2
<1>3. n \in S
  <2> HIDE DEF S
  <2> QED BY <1>1, <1>2, NatSets
<1>4. \E x \in s : \A y \in s : x >= y
  BY <1>3
<1> QED BY <1>4 DEF Max

\* The function a fold over 1..n is defined by, for a step g.
Folds(f, n, base, g) ==
  f = [s \in SUBSET (1..n) |-> IF s = {} THEN base ELSE g[<<f[s \ {Max(s)}], Max(s)>>]]

LEMMA FoldExists ==
  ASSUME NEW n \in Nat, NEW X, NEW base \in X, NEW g \in [X \X (1..n) -> X]
  PROVE  \E f \in [SUBSET (1..n) -> X] : Folds(f, n, base, g)
<1> DEFINE Step(f, s) == IF s = {} THEN base ELSE g[<<f[s \ {Max(s)}], Max(s)>>]
           Good(f, k) == \A s \in SUBSET (1..k) : f[s] = Step(f, s)
           S == {k \in Nat : k <= n => \E f \in [SUBSET (1..k) -> X] : Good(f, k)}
<1>1. \A k \in Nat : \A s \in SUBSET (1..k) : s # {} =>
        Max(s) \in s /\ Max(s) \in 1..k /\ s \ {Max(s)} \in SUBSET (1..k)
  BY MaxOf
<1>2. 0 \in S
  <2> DEFINE f == [s \in SUBSET (1..0) |-> base]
  <2>1. f \in [SUBSET (1..0) -> X] /\ Good(f, 0)
    OBVIOUS
  <2> HIDE DEF f
  <2> QED BY <2>1
<1>3. ASSUME NEW k \in Nat, k \in S PROVE k + 1 \in S
  <2> HIDE DEF Good
  <2>1. k + 1 \in Nat
    OBVIOUS
  <2> SUFFICES ASSUME k + 1 <= n PROVE \E f \in [SUBSET (1..(k + 1)) -> X] : Good(f, k + 1)
    BY <2>1, Zenon
  <2>2. k <= n
    OBVIOUS
  <2>3. PICK f \in [SUBSET (1..k) -> X] : Good(f, k)
    BY <1>3, <2>2, Zenon
  <2> USE DEF Good
  <2> DEFINE h == [s \in SUBSET (1..(k + 1)) |->
                     IF k + 1 \in s THEN g[<<f[s \ {k + 1}], k + 1>>] ELSE f[s]]
  <2>4. \A s \in SUBSET (1..(k + 1)) : /\ k + 1 \in s => s \ {k + 1} \in SUBSET (1..k)
                                       /\ k + 1 \notin s => s \in SUBSET (1..k)
    OBVIOUS
  <2>5. h \in [SUBSET (1..(k + 1)) -> X]
    <3> SUFFICES ASSUME NEW s \in SUBSET (1..(k + 1)) PROVE h[s] \in X
      OBVIOUS
    <3>1. CASE k + 1 \in s
      <4>1. f[s \ {k + 1}] \in X /\ k + 1 \in 1..n
        BY <2>3, <2>4, <3>1
      <4> QED BY <3>1, <4>1
    <3>2. CASE k + 1 \notin s
      BY <2>3, <2>4, <3>2
    <3> QED BY <3>1, <3>2
  <2>6. Good(h, k + 1)
    <3> SUFFICES ASSUME NEW s \in SUBSET (1..(k + 1)) PROVE h[s] = Step(h, s)
      OBVIOUS
    <3>1. CASE k + 1 \in s
      <4>1. Max(s) = k + 1
        <5> HIDE DEF h, Good, Step
        <5>1. k + 1 \in Nat /\ s # {}
          BY <3>1
        <5>2. Max(s) \in s /\ \A y \in s : Max(s) >= y
          BY <5>1, MaxOf
        <5>3. Max(s) \in 1..(k + 1) /\ Max(s) >= k + 1
          BY <3>1, <5>2
        <5> QED BY <5>3
      <4>2. h[s \ {k + 1}] = f[s \ {k + 1}]
        BY <2>4, <3>1
      <4> QED BY <3>1, <4>1, <4>2
    <3>2. CASE s = {}
      <4>1. s \in SUBSET (1..k) /\ f[s] = base /\ h[s] = f[s]
        BY <2>3, <2>4, <3>2
      <4> QED BY <3>2, <4>1
    <3>3. CASE k + 1 \notin s /\ s # {}
      <4>1. s \in SUBSET (1..k) /\ h[s] = f[s]
        BY <2>4, <3>3
      <4>2. s \ {Max(s)} \in SUBSET (1..k) /\ k + 1 \notin s \ {Max(s)}
        BY <1>1, <3>3, <4>1
      <4>3. h[s \ {Max(s)}] = f[s \ {Max(s)}]
        BY <4>2
      <4> QED BY <2>3, <3>3, <4>1, <4>3
    <3> QED BY <3>1, <3>2, <3>3
  <2> HIDE DEF h, Good
  <2> QED BY <2>5, <2>6
<1>4. n \in S
  <2> HIDE DEF S
  <2> QED BY <1>2, <1>3, NatSets
<1>5. PICK f \in [SUBSET (1..n) -> X] : Good(f, n)
  <2>1. n <= n
    OBVIOUS
  <2> HIDE DEF Good
  <2>2. n <= n => \E f \in [SUBSET (1..n) -> X] : Good(f, n)
    BY <1>4, Zenon
  <2> QED BY <2>1, <2>2, Zenon
<1>6. f = [s \in SUBSET (1..n) |-> f[s]]
  OBVIOUS
<1>7. Folds(f, n, base, g)
  BY <1>5, <1>6 DEF Folds
<1> QED BY <1>7

\* The last of the first k positions is k; without it they are the first k - 1.
LEMMA PrefixMax ==
  ASSUME NEW n \in Nat, NEW k \in 1..n
  PROVE  1..k \in SUBSET (1..n) /\ 1..k # {} /\ Max(1..k) = k
<1>1. k \in 1..k /\ 1..k \in SUBSET (1..n)
  OBVIOUS
<1>2. Max(1..k) \in 1..k /\ \A y \in 1..k : Max(1..k) >= y
  BY <1>1, MaxOf
<1>3. Max(1..k) = k
  BY <1>1, <1>2
<1> QED
  BY <1>1, <1>3

LEMMA PrefixLess ==
  ASSUME NEW n \in Nat, NEW k \in 1..n
  PROVE  (1..k) \ {Max(1..k)} = 1..(k - 1)
<1>1. (1..k) \ {k} = 1..(k - 1)
  OBVIOUS
<1> QED
  BY <1>1, PrefixMax

LEMMA NoPrefix == 1..0 = {} /\ \A n \in Nat : {} \in SUBSET (1..n)
<1>1. 1..0 = {}
  OBVIOUS
<1> QED
  BY <1>1

\* What holds of the empty prefix, and of a prefix if of the one before, holds of all.
LEMMA PrefixInduction ==
  ASSUME NEW n \in Nat, NEW S, 0 \in S, \A k \in 1..n : k - 1 \in S => k \in S
  PROVE  \A k \in 0..n : k \in S
<1> DEFINE T == {k \in Nat : k <= n => k \in S}
<1>1. 0 \in T
  OBVIOUS
<1>2. ASSUME NEW k \in Nat, k \in T
      PROVE  k + 1 \in T
  <2>1. CASE k + 1 <= n
    <3>1. k + 1 \in 1..n /\ (k + 1) - 1 = k /\ k \in S
      BY <1>2, <2>1
    <3>2. k + 1 \in S
      BY <3>1
    <3> QED
      BY <3>1, <3>2
  <2>2. CASE ~(k + 1 <= n)
    BY <2>2
  <2> QED
    BY <2>1, <2>2
<1> HIDE DEF T
<1>3. \A k \in Nat : k \in T
  BY <1>1, <1>2, NatSets
<1> QED
  BY <1>3 DEF T

\* A sum as the folds of the models define it.
SumsUp(f, n, base, g) ==
  f = [s \in SUBSET (1..n) |-> IF s = {} THEN base ELSE f[s \ {Max(s)}] + g[Max(s)]]

RunningSum(n, base, g) == CHOOSE f : SumsUp(f, n, base, g)

\* It is the sum of the first position, of the first two, and so on.
LEMMA SumFold ==
  ASSUME NEW n \in Nat, NEW base \in Int, NEW g \in [1..n -> Int]
  PROVE  \E F : /\ F = RunningSum(n, base, g)
                /\ F[1..0] = base
                /\ \A k \in 0..n : F[1..k] \in Int
                /\ \A k \in 1..n : F[1..k] = F[1..(k - 1)] + g[k]
<1> DEFINE F == RunningSum(n, base, g)
<1>1. SumsUp(F, n, base, g)
  <2> DEFINE h == [x \in Int \X (1..n) |-> x[1] + g[x[2]]]
  <2>1. h \in [Int \X (1..n) -> Int]
    OBVIOUS
  <2>2. \A sum \in Int, i \in 1..n : h[<<sum, i>>] = sum + g[i]
    OBVIOUS
  <2> HIDE DEF h
  <2>3. PICK f \in [SUBSET (1..n) -> Int] : Folds(f, n, base, h)
    BY <2>1, FoldExists
  <2>4. \A s \in SUBSET (1..n) : s # {} => /\ Max(s) \in 1..n /\ s \ {Max(s)} \in SUBSET (1..n)
    BY MaxOf
  <2>5. \A s \in SUBSET (1..n) : s # {} =>
          h[<<f[s \ {Max(s)}], Max(s)>>] = f[s \ {Max(s)}] + g[Max(s)]
    BY <2>2, <2>4
  <2>6. SumsUp(f, n, base, g)
    BY <2>3, <2>5 DEF Folds, SumsUp
  <2> QED
    BY <2>6 DEF RunningSum
<1> HIDE DEF F
<1>2. F[1..0] = base
  BY <1>1, NoPrefix DEF SumsUp
<1>3. ASSUME NEW k \in 1..n
      PROVE  F[1..k] = F[1..(k - 1)] + g[k]
  <2>1. 1..k \in SUBSET (1..n) /\ 1..k # {} /\ Max(1..k) = k
    BY PrefixMax
  <2>2. (1..k) \ {Max(1..k)} = 1..(k - 1)
    BY PrefixLess
  <2>3. F[1..k] = F[(1..k) \ {Max(1..k)}] + g[Max(1..k)]
    BY <1>1, <2>1 DEF SumsUp
  <2> QED
    BY <2>1, <2>2, <2>3
<1> DEFINE S == {k \in 0..n : F[1..k] \in Int}
<1>4. 0 \in S
  BY <1>2
<1>5. ASSUME NEW k \in 1..n, k - 1 \in S
      PROVE  k \in S
  <2>1. g[k] \in Int
    OBVIOUS
  <2>2. F[1..(k - 1)] \in Int
    BY <1>5
  <2>3. F[1..k] = F[1..(k - 1)] + g[k]
    BY <1>3
  <2>4. F[1..k] \in Int
    BY <2>1, <2>2, <2>3
  <2> QED
    BY <2>4
<1>6. \A k \in 0..n : k \in S
  <2> HIDE DEF S
  <2>1. \A k \in 1..n : k - 1 \in S => k \in S
    BY <1>5
  <2> QED
    BY <1>4, <2>1, PrefixInduction
<1> QED
  BY <1>2, <1>3, <1>6 DEF F

=============================================================================
