----------------------------- MODULE DataLemmas -----------------------------
(***************************************************************************)
(* Induction and recursion over the natural numbers, with sets and         *)
(* functions for the predicate and the step: what the proofs about         *)
(* recursive functions, programs and streams of the models rest on.        *)
(***************************************************************************)
EXTENDS Integers, Sequences, NaturalsInduction, WellFoundedInduction, TLAPS

\* A set of numbers with 0 that is closed under successor has them all.
LEMMA SetInduction ==
  ASSUME NEW S \in SUBSET Nat, 0 \in S, \A n \in S : n + 1 \in S
  PROVE  S = Nat
<1> DEFINE Below == OpToRel(<, Nat)
<1>1. SUFFICES ASSUME Nat \ S # {} PROVE FALSE
  OBVIOUS
<1>2. IsWellFoundedOn(Below, Nat)
  BY NatLessThanWellFounded
<1>3. \A i, j \in Nat : i < j => <<i, j>> \in Below
  BY DEF OpToRel
<1> HIDE DEF Below
<1>4. PICK x \in Nat \ S : \A y \in Nat \ S : ~(<<y, x>> \in Below)
  BY <1>1, <1>2, WFMin
<1>5. x # 0 /\ x - 1 \in Nat /\ x - 1 < x
  BY <1>4
<1>6. x - 1 \in S
  BY <1>3, <1>4, <1>5
<1>7. (x - 1) + 1 \in S
  BY <1>6
<1>8. QED BY <1>5, <1>7

\* The same up to a bound.
LEMMA BoundedInduction ==
  ASSUME NEW N \in Nat, NEW S, 0 \in S, \A n \in 1..N : n - 1 \in S => n \in S
  PROVE  0..N \subseteq S
<1> DEFINE T == {n \in Nat : n <= N => n \in S}
<1>1. 0 \in T
  OBVIOUS
<1>2. ASSUME NEW n \in T PROVE n + 1 \in T
  <2>1. CASE n + 1 <= N
    <3>1. n \in S /\ n + 1 \in 1..N /\ (n + 1) - 1 = n
      BY <2>1, <1>2
    <3>2. QED BY <3>1, <1>2
  <2>2. CASE ~(n + 1 <= N)
    BY <2>2, <1>2
  <2>3. QED BY <2>1, <2>2
<1>3. T = Nat
  <2> HIDE DEF T
  <2>1. T \in SUBSET Nat
    BY DEF T
  <2>2. QED BY <1>1, <1>2, <2>1, SetInduction
<1>4. QED BY <1>3

StepFunctions(N, S) == [(1..N) \X S -> S]
Unfolds(f, N, S, first, step) ==
  f \in [0..N -> S] /\ f[0] = first /\ \A n \in 1..N : f[n] = step[<<n, f[n - 1]>>]

\* A function on 0..N is given by its first value and the step to the next.
LEMMA Recursion ==
  ASSUME NEW N \in Nat, NEW S, NEW first \in S, NEW step \in StepFunctions(N, S)
  PROVE  \E f : Unfolds(f, N, S, first, step)
<1> USE DEF StepFunctions, Unfolds
<1> DEFINE Good(m, f) == f \in [0..m -> S] /\ f[0] = first /\ \A n \in 1..m : f[n] = step[<<n, f[n - 1]>>]
           T == {m \in 0..N : \E f : Good(m, f)}
<1>1. 0 \in T
  <2>1. Good(0, [n \in 0..0 |-> first])
    OBVIOUS
  <2>2. 0 \in 0..N /\ \E f : Good(0, f)
    <3> HIDE DEF Good
    <3>1. QED BY <2>1
  <2> HIDE DEF Good
  <2>3. QED BY <2>2
<1>2. ASSUME NEW m \in 1..N, m - 1 \in T PROVE m \in T
  <2>1. PICK f : Good(m - 1, f)
    BY <1>2
  <2> DEFINE g == [n \in 0..m |-> IF n = m THEN step[<<m, f[m - 1]>>] ELSE f[n]]
  <2>2. m - 1 \in 0..m - 1 /\ f[m - 1] \in S
    BY <2>1
  <2>3. step[<<m, f[m - 1]>>] \in S
    BY <2>2
  <2>4. g \in [0..m -> S]
    <3>1. \A n \in 0..m : n = m \/ n \in 0..m - 1
      OBVIOUS
    <3>2. QED BY <2>1, <2>3, <3>1
  <2>5. g[0] = first
    BY <2>1
  <2>6. ASSUME NEW n \in 1..m PROVE g[n] = step[<<n, g[n - 1]>>]
    <3>1. g[n - 1] = f[n - 1]
      <4>1. n - 1 \in 0..m /\ n - 1 # m
        OBVIOUS
      <4>2. QED BY <4>1
    <3>2. CASE n = m
      <4>1. g[m] = step[<<m, f[m - 1]>>]
        OBVIOUS
      <4> HIDE DEF g
      <4>2. QED BY <3>1, <3>2, <4>1
    <3>3. CASE n # m
      <4>1. n \in 1..m - 1
        BY <3>3
      <4>2. g[n] = f[n]
        BY <3>3
      <4>3. QED BY <2>1, <3>1, <4>1, <4>2
    <3>4. QED BY <3>2, <3>3
  <2>7. Good(m, g)
    BY <2>4, <2>5, <2>6
  <2> HIDE DEF Good, g
  <2>8. QED BY <2>7
<1>3. N \in T
  <2> HIDE DEF T
  <2>1. 0..N \subseteq T
    BY <1>1, <1>2, BoundedInduction
  <2>2. QED BY <2>1
<1>4. QED BY <1>3

\* The partial sums of numbers.
LEMMA Summation ==
  ASSUME NEW N \in Nat, NEW term \in [1..N -> Nat]
  PROVE  \E f \in [0..N -> Nat] : f[0] = 0 /\ \A n \in 1..N : f[n] = f[n - 1] + term[n]
<1> DEFINE step == [p \in (1..N) \X Nat |-> p[2] + term[p[1]]]
<1>1. step \in StepFunctions(N, Nat)
  BY DEF StepFunctions
<1>2. PICK f : Unfolds(f, N, Nat, 0, step)
  <2> HIDE DEF step
  <2>1. QED BY <1>1, Recursion
<1>3. f \in [0..N -> Nat] /\ f[0] = 0
  BY <1>2 DEF Unfolds
<1>4. ASSUME NEW n \in 1..N PROVE f[n] = f[n - 1] + term[n]
  <2>1. <<n, f[n - 1]>> \in (1..N) \X Nat
    BY <1>3
  <2>2. f[n] = step[<<n, f[n - 1]>>]
    BY <1>2 DEF Unfolds
  <2>3. QED BY <2>1, <2>2
<1>5. QED BY <1>3, <1>4
=============================================================================
