------------------------ MODULE SlugPipelineProofs ------------------------
(***************************************************************************)
(* The compiler and the fabric it compiles for, for every module, PTX      *)
(* text, policy, oracle and cycle budget.                                  *)
(***************************************************************************)
EXTENDS SlugPipeline, TokenFabricProofs, DataLemmas

(***************************************************************************)
(* Sequences of sequences                                                  *)
(***************************************************************************)
\* What FlattenSeq has put together after each of the sequences.
Flattens(fl, seqs, S) ==
  /\ fl \in [0..Len(seqs) -> Seq(S)] /\ fl[0] = <<>>
  /\ \A n \in 1..Len(seqs) : fl[n] = fl[n - 1] \o seqs[n]
  /\ FlattenSeq(seqs) = fl[Len(seqs)]

LEMMA FlattenSteps ==
  ASSUME NEW S, NEW seqs \in Seq(Seq(S))
  PROVE  \E fl : Flattens(fl, seqs, S)
<1> DEFINE N == Len(seqs)
           Q == Seq(S)
           step == [p \in (1..N) \X Q |-> p[2] \o seqs[p[1]]]
           Joins(h) == h = [k \in 1..Len(seqs) |-> IF k = 1 THEN seqs[k] ELSE h[k - 1] \o seqs[k]]
           flatten == CHOOSE h : Joins(h)
<1>1. N \in Nat /\ \A n \in 1..N : seqs[n] \in Q
  OBVIOUS
<1>2. step \in StepFunctions(N, Q)
  <2>1. ASSUME NEW p \in (1..N) \X Q PROVE p[2] \o seqs[p[1]] \in Q
    <3>1. p[2] \in Seq(S) /\ seqs[p[1]] \in Seq(S)
      BY <1>1
    <3>2. QED BY <3>1
  <2> HIDE DEF N, Q
  <2>2. QED BY <2>1 DEF StepFunctions
<1>3. PICK fl : Unfolds(fl, N, Q, <<>>, step)
  <2>1. <<>> \in Q
    OBVIOUS
  <2> HIDE DEF N, Q, step
  <2>2. QED BY <1>1, <1>2, <2>1, Recursion
<1>4. fl \in [0..N -> Q] /\ fl[0] = <<>>
  BY <1>3 DEF Unfolds
<1>5. ASSUME NEW n \in 1..N PROVE fl[n] = fl[n - 1] \o seqs[n]
  <2>1. fl[n] = step[<<n, fl[n - 1]>>]
    BY <1>3 DEF Unfolds
  <2>2. <<n, fl[n - 1]>> \in (1..N) \X Q
    <3> HIDE DEF N, Q
    <3>1. QED BY <1>1, <1>4
  <2>3. QED BY <2>1, <2>2
<1>6. 1 \in 1..N => fl[1] = <<>> \o seqs[1] /\ seqs[1] \in Seq(S)
  <2>1. 1 \in 1..N => fl[1] = fl[1 - 1] \o seqs[1]
    BY <1>5
  <2>2. 1 - 1 = 0
    OBVIOUS
  <2>3. QED BY <1>1, <1>4, <2>1, <2>2
<1>7. CASE N = 0
  <2>1. seqs = <<>>
    BY <1>7
  <2>2. FlattenSeq(seqs) = seqs
    BY <1>7 DEF FlattenSeq
  <2>3. QED BY <1>4, <1>5, <2>1, <2>2 DEF Flattens
<1>8. CASE N # 0
  <2>1. Joins([k \in 1..N |-> fl[k]])
    <3>1. ASSUME NEW k \in 1..N
          PROVE  fl[k] = IF k = 1 THEN seqs[k] ELSE fl[k - 1] \o seqs[k]
      <4>1. CASE k = 1
        <5>1. fl[1] = <<>> \o seqs[1] /\ seqs[1] \in Seq(S)
          BY <1>6, <4>1
        <5>2. QED BY <4>1, <5>1
      <4>2. QED BY <1>5, <4>1
    <3>2. ASSUME NEW k \in 1..N, k # 1
          PROVE  [j \in 1..N |-> fl[j]][k - 1] = fl[k - 1]
      BY <1>1, <3>2
    <3> HIDE DEF N
    <3>3. QED BY <3>1, <3>2 DEF N
  <2>2. Joins(flatten)
    <3> HIDE DEF Joins
    <3>1. QED BY <2>1
  <2>3. FlattenSeq(seqs) = flatten[N]
    BY <1>8 DEF FlattenSeq
  <2>4. ASSUME NEW n \in 1..N PROVE flatten[n] = IF n = 1 THEN seqs[n] ELSE flatten[n - 1] \o seqs[n]
    <3> HIDE DEF flatten
    <3>1. QED BY <2>2
  <2> DEFINE T == {n \in 0..N : n = 0 \/ flatten[n] = fl[n]}
  <2>5. 0..N \subseteq T
    <3>1. 0 \in T
      BY <1>1
    <3>2. ASSUME NEW n \in 1..N, n - 1 \in T PROVE n \in T
      <4> HIDE DEF flatten
      <4>1. CASE n = 1
        <5>1. fl[1] = <<>> \o seqs[1] /\ seqs[1] \in Seq(S)
          BY <1>6, <4>1
        <5>2. QED BY <2>4, <4>1, <5>1
      <4>2. CASE n # 1
        <5>1. flatten[n - 1] = fl[n - 1] /\ n \in 0..N
          BY <3>2, <4>2
        <5>2. QED BY <1>5, <2>4, <4>2, <5>1
      <4>3. QED BY <4>1, <4>2
    <3> HIDE DEF T, N
    <3>3. QED BY <1>1, <3>1, <3>2, BoundedInduction
  <2>6. flatten[N] = fl[N]
    <3>1. N \in T
      <4> HIDE DEF T, N
      <4>1. QED BY <1>1, <2>5
    <3>2. QED BY <1>8, <3>1
  <2> HIDE DEF flatten
  <2>7. QED BY <1>4, <1>5, <2>3, <2>6 DEF Flattens
<1>9. QED BY <1>7, <1>8

(***************************************************************************)
(* Sorted sets                                                             *)
(***************************************************************************)
\* A sequence without repetitions is no longer than the set it draws from, and
\* as long only if it has all of it.
LEMMA FillsUp ==
  ASSUME NEW S, IsFiniteSet(S), NEW s \in Seq(S), NoRepeats(s)
  PROVE  /\ Len(s) \in Nat /\ Cardinality(S) \in Nat /\ Len(s) <= Cardinality(S)
         /\ Len(s) = Cardinality(S) <=> Elements(s) = S
<1>1. Len(s) \in Nat /\ s \in [1..Len(s) -> S] /\ DOMAIN s = 1..Len(s)
  OBVIOUS
<1>2. s \in Injection(1..Len(s), S)
  BY <1>1 DEF Injection, IsInjective, NoRepeats
<1>3. Cardinality(1..Len(s)) = Len(s)
  BY <1>1, IntervalSize
<1>4. /\ Cardinality(1..Len(s)) <= Cardinality(S)
      /\ Cardinality(1..Len(s)) = Cardinality(S) <=> s \in Surjection(1..Len(s), S)
  BY <1>2, FS_Injection
<1>5. s \in Surjection(1..Len(s), S) <=> Elements(s) = S
  <2>1. Elements(s) \subseteq S
    BY <1>1 DEF Elements
  <2>2. QED BY <1>1, <2>1 DEF Surjection, Elements
<1>6. Cardinality(S) \in Nat
  BY FS_CardinalityType
<1>7. QED BY <1>1, <1>3, <1>4, <1>5, <1>6

Increasing(s, n, S) == s \in [1..n -> S] /\ \A j, k \in 1..n : j < k => s[j] < s[k]

\* Every finite set of numbers can be sorted.
LEMMA Sortable ==
  ASSUME NEW S \in SUBSET Nat, IsFiniteSet(S)
  PROVE  \E s : Increasing(s, Cardinality(S), S)
<1> DEFINE Sorts(n) == \A X \in SUBSET Nat :
                         IsFiniteSet(X) /\ Cardinality(X) = n => \E s : Increasing(s, n, X)
           T == {n \in Nat : Sorts(n)}
<1>1. 0 \in T
  <2>1. ASSUME NEW X \in SUBSET Nat PROVE \E s : Increasing(s, 0, X)
    <3>1. Increasing([k \in 1..0 |-> 0], 0, X)
      BY DEF Increasing
    <3>2. QED BY <3>1
  <2>2. QED BY <2>1
<1>2. ASSUME NEW n \in T PROVE n + 1 \in T
  <2>1. n \in Nat /\ Sorts(n)
    BY <1>2
  <2>2. ASSUME NEW X \in SUBSET Nat, IsFiniteSet(X), Cardinality(X) = n + 1
        PROVE  \E s : Increasing(s, n + 1, X)
    <3>1. X # {}
      BY <2>1, <2>2, FS_EmptySet
    <3>2. PICK m \in X : \A x \in X : m <= x
      BY <3>1, LeastElement
    <3> DEFINE Y == X \ {m}
    <3>3. IsFiniteSet(Y) /\ Cardinality(Y) = n /\ Y \in SUBSET Nat
      <4>1. IsFiniteSet(Y) /\ Cardinality(Y) = Cardinality(X) - 1
        BY <2>2, FS_RemoveElement
      <4>2. (n + 1) - 1 = n
        BY <2>1
      <4>3. Y \in SUBSET Nat
        OBVIOUS
      <4> HIDE DEF Y
      <4>4. QED BY <2>2, <4>1, <4>2, <4>3
    <3>4. PICK s : Increasing(s, n, Y)
      <4> HIDE DEF Y
      <4>1. QED BY <2>1, <3>3
    <3> DEFINE u == [k \in 1..n + 1 |-> IF k = 1 THEN m ELSE s[k - 1]]
    <3>5. ASSUME NEW k \in 1..n PROVE s[k] \in X /\ s[k] \in Nat /\ m < s[k]
      <4>1. s \in [1..n -> Y]
        <5> HIDE DEF Y
        <5>1. QED BY <3>4 DEF Increasing
      <4>2. s[k] \in X /\ s[k] # m
        BY <4>1
      <4>3. m <= s[k] /\ m \in Nat /\ s[k] \in Nat
        BY <3>2, <4>2
      <4>4. QED BY <4>2, <4>3
    <3>6. u \in [1..n + 1 -> X]
      <4>1. \A k \in 1..n + 1 : k # 1 => k - 1 \in 1..n
        BY <2>1
      <4>2. QED BY <3>5, <4>1
    <3>7. ASSUME NEW j \in 1..n + 1, NEW k \in 1..n + 1, j < k PROVE u[j] < u[k]
      <4>1. k # 1 /\ k - 1 \in 1..n /\ u[k] = s[k - 1]
        BY <2>1, <3>7
      <4>2. CASE j = 1
        BY <3>5, <4>1, <4>2
      <4>3. CASE j # 1
        <5>1. j - 1 \in 1..n /\ u[j] = s[j - 1] /\ j - 1 < k - 1
          BY <2>1, <3>7, <4>3
        <5>2. QED BY <3>4, <4>1, <5>1 DEF Increasing
      <4>4. QED BY <4>2, <4>3
    <3>8. Increasing(u, n + 1, X)
      <4> HIDE DEF u
      <4>1. QED BY <3>6, <3>7 DEF Increasing
    <3>9. QED BY <3>8
  <2>3. QED BY <2>1, <2>2
<1>3. T = Nat
  <2> HIDE DEF Sorts
  <2>1. T \in SUBSET Nat
    OBVIOUS
  <2> HIDE DEF T
  <2>2. QED BY <1>1, <1>2, <2>1, SetInduction
<1>4. Cardinality(S) \in T
  BY <1>3, FS_CardinalityType
<1>5. QED BY <1>4

LEMMA AscendingFacts ==
  ASSUME NEW S \in SUBSET Nat, IsFiniteSet(S)
  PROVE  /\ Ascending(S) \in Seq(S) /\ NoRepeats(Ascending(S)) /\ Elements(Ascending(S)) = S
<1> DEFINE n == Cardinality(S)
           Sorted(s) == \A j, k \in DOMAIN s : j < k => s[j] < s[k]
           a == CHOOSE s \in [1..n -> S] : Sorted(s)
<1>1. n \in Nat
  BY FS_CardinalityType
<1>2. \E s \in [1..n -> S] : Sorted(s)
  <2>1. PICK s : Increasing(s, n, S)
    BY Sortable
  <2>2. s \in [1..n -> S] /\ Sorted(s)
    BY <2>1 DEF Increasing
  <2>3. QED BY <2>2
<1>3. a \in [1..n -> S] /\ Sorted(a)
  <2> HIDE DEF Sorted, n
  <2>1. QED BY <1>2
<1>4. Ascending(S) = a
  BY DEF Ascending
<1> HIDE DEF a, n
<1>5. a \in Seq(S) /\ DOMAIN a = 1..n /\ Len(a) = n
  BY <1>1, <1>3
<1>6. NoRepeats(a)
  <2>1. ASSUME NEW j \in 1..n, NEW k \in 1..n, a[j] = a[k], j < k PROVE FALSE
    <3>1. a[j] < a[k] /\ a[j] \in Nat /\ a[k] \in Nat
      BY <1>3, <1>5, <2>1
    <3>2. QED BY <2>1, <3>1
  <2>2. \A j, k \in 1..n : j = k \/ j < k \/ k < j
    BY <1>1
  <2>3. QED BY <1>5, <2>1, <2>2 DEF NoRepeats
<1>7. Elements(a) = S
  BY <1>5, <1>6, FillsUp DEF n
<1>8. QED BY <1>4, <1>5, <1>6, <1>7

(***************************************************************************)
(* Kahn's loop                                                             *)
(***************************************************************************)
LEMMA NoEdgesLeft ==
  ASSUME NEW f, WellFormed(f), NEW id, NEW visited
  PROVE  /\ EdgesLeft(f, id, visited) = 0 <=> Predecessors(f, id) \subseteq visited
         /\ InDegree(f, id) = 0 <=> Predecessors(f, id) = {}
<1> DEFINE A == {e \in f.edges : Dst(e) = id}
           B == {e \in f.edges : Dst(e) = id /\ Src(e) \in visited}
<1>1. IsFiniteSet(f.edges)
  BY DEF WellFormed
<1>2. IsFiniteSet(A) /\ Cardinality(A) \in Nat
  <2>1. A \subseteq f.edges
    OBVIOUS
  <2> HIDE DEF A
  <2>2. QED BY <1>1, <2>1, FS_Subset, FS_CardinalityType
<1>3. IsFiniteSet(B) /\ Cardinality(B) \in Nat /\ (Cardinality(A) = Cardinality(B) => A = B)
  <2>1. B \subseteq A
    OBVIOUS
  <2> HIDE DEF A, B
  <2>2. IsFiniteSet(B) /\ (Cardinality(A) = Cardinality(B) => A = B)
    BY <1>2, <2>1, FS_Subset
  <2>3. QED BY <2>2, FS_CardinalityType
<1>4. InDegree(f, id) = Cardinality(A) /\ EdgesLeft(f, id, visited) = Cardinality(A) - Cardinality(B)
  BY DEF InDegree, EdgesLeft
<1>5. A = B <=> Predecessors(f, id) \subseteq visited
  BY DEF Predecessors
<1>6. Cardinality(A) = 0 <=> A = {}
  <2> HIDE DEF A
  <2>1. QED BY <1>2, FS_EmptySet
<1>7. A = {} <=> Predecessors(f, id) = {}
  BY DEF Predecessors
<1> HIDE DEF A, B
<1>8. Cardinality(A) - Cardinality(B) = 0 <=> Cardinality(A) = Cardinality(B)
  BY <1>2, <1>3
<1>9. Cardinality(A) = Cardinality(B) <=> A = B
  BY <1>3
<1>10. EdgesLeft(f, id, visited) = 0 <=> Predecessors(f, id) \subseteq visited
  BY <1>4, <1>5, <1>8, <1>9
<1>11. InDegree(f, id) = 0 <=> Predecessors(f, id) = {}
  BY <1>4, <1>6, <1>7
<1>12. QED BY <1>10, <1>11

LEMMA FreedFacts ==
  ASSUME NEW f, WellFormed(f), NEW X, X \subseteq Ids(f)
  PROVE  /\ Ascending(X) \in Seq(Ids(f)) /\ Ascending(X) \in Seq(X)
         /\ NoRepeats(Ascending(X)) /\ Elements(Ascending(X)) = X
<1>1. X \in SUBSET Nat /\ IsFiniteSet(X)
  BY FS_Subset DEF WellFormed, Ids
<1>2. Ascending(X) \in Seq(X) /\ NoRepeats(Ascending(X)) /\ Elements(Ascending(X)) = X
  BY <1>1, AscendingFacts
<1> DEFINE a == Ascending(X)
<1> HIDE DEF a
<1>3. a \in Seq(X) => a \in Seq(Ids(f))
  OBVIOUS
<1>4. QED BY <1>2, <1>3 DEF a

\* The turns of Kahn's loop.
Turns(kahn, f) ==
  /\ kahn \in [0..Cardinality(Ids(f)) -> Seq(Ids(f))]
  /\ kahn[0] = Ascending({id \in Ids(f) : InDegree(f, id) = 0})
  /\ \A n \in 1..Cardinality(Ids(f)) : kahn[n] = Visit(f, kahn[n - 1], n)
  /\ Topo(f) = kahn[Cardinality(Ids(f))]

LEMMA TopoTurns ==
  ASSUME NEW f, WellFormed(f)
  PROVE  \E kahn : Turns(kahn, f)
<1> DEFINE N == Cardinality(Ids(f))
           Q == Seq(Ids(f))
           first == Ascending({id \in Ids(f) : InDegree(f, id) = 0})
           step == [p \in (1..N) \X Q |-> Visit(f, p[2], p[1])]
           Loops(h) == h = [n \in 0..N |-> IF n = 0 THEN first ELSE Visit(f, h[n - 1], n)]
           kahn == CHOOSE h : Loops(h)
<1>1. N \in Nat
  BY FS_CardinalityType DEF WellFormed, Ids
<1>2. first \in Q
  BY FreedFacts
<1>3. ASSUME NEW n \in 1..N, NEW seq \in Q PROVE Visit(f, seq, n) \in Q
  <2>1. Freed(f, seq, n) \subseteq Ids(f)
    BY DEF Freed, Ids
  <2>2. Ascending(Freed(f, seq, n)) \in Q
    BY <2>1, FreedFacts
  <2>3. seq \o Ascending(Freed(f, seq, n)) \in Q
    BY <2>2
  <2>4. QED BY <2>3 DEF Visit
<1>4. step \in StepFunctions(N, Q)
  <2>1. \A p \in (1..N) \X Q : Visit(f, p[2], p[1]) \in Q
    <3> HIDE DEF N, Q
    <3>1. QED BY <1>3
  <2> HIDE DEF N, Q
  <2>2. QED BY <2>1 DEF StepFunctions
<1>5. PICK g : Unfolds(g, N, Q, first, step)
  <2> HIDE DEF N, Q, step, first
  <2>1. QED BY <1>1, <1>2, <1>4, Recursion
<1>6. g \in [0..N -> Q] /\ g[0] = first
  BY <1>5 DEF Unfolds
<1>7. ASSUME NEW n \in 1..N PROVE g[n] = Visit(f, g[n - 1], n)
  <2>1. g[n] = step[<<n, g[n - 1]>>]
    BY <1>5 DEF Unfolds
  <2>2. <<n, g[n - 1]>> \in (1..N) \X Q
    <3> HIDE DEF N, Q, first
    <3>1. QED BY <1>1, <1>6
  <2> HIDE DEF N, Q
  <2>3. QED BY <2>1, <2>2
<1>8. Loops(g)
  <2> HIDE DEF N, Q, first
  <2>1. \A n \in 0..N : n # 0 => n \in 1..N
    BY <1>1
  <2>2. QED BY <1>6, <1>7, <2>1
<1>9. Loops(kahn)
  <2> HIDE DEF Loops
  <2>1. QED BY <1>8
<1>10. Topo(f) = kahn[N]
  BY DEF Topo, Ids
<1> HIDE DEF kahn
<1>11. kahn = [n \in 0..N |-> kahn[n]] /\ kahn[0] = first
  <2> HIDE DEF N, first
  <2>1. QED BY <1>1, <1>9
<1>12. \A n \in 1..N : kahn[n] = Visit(f, kahn[n - 1], n)
  <2> HIDE DEF N, first
  <2>1. QED BY <1>1, <1>9
<1>13. 0..N \subseteq {n \in 0..N : kahn[n] \in Q}
  <2> DEFINE T == {n \in 0..N : kahn[n] \in Q}
  <2> HIDE DEF N, first, Q
  <2>1. 0 \in T
    BY <1>1, <1>2, <1>11
  <2>2. \A n \in 1..N : n - 1 \in T => n \in T
    BY <1>1, <1>3, <1>12
  <2> HIDE DEF T
  <2>3. 0..N \subseteq T
    BY <1>1, <2>1, <2>2, BoundedInduction
  <2>4. QED BY <2>3 DEF T
<1>14. kahn \in [0..N -> Q]
  <2> HIDE DEF N, first, Q
  <2>1. QED BY <1>11, <1>13
<1>15. QED BY <1>10, <1>11, <1>12, <1>14 DEF Turns

\* The ops that n turns have visited.
Visited(seq, n) == {seq[j] : j \in {k \in DOMAIN seq : k <= n}}

\* After n turns: no op is in the sequence twice, every op in it comes after the
\* visited ops it depends on, and an op that depends on nothing else is in it.
TurnInv(f, seq, n) ==
  /\ NoRepeats(seq)
  /\ \A m \in DOMAIN seq : \A p \in Predecessors(f, seq[m]) :
       \E j \in DOMAIN seq : j < m /\ j <= n /\ seq[j] = p
  /\ \A id \in Ids(f) : Predecessors(f, id) \subseteq Visited(seq, n) => id \in Elements(seq)

LEMMA FirstTurn ==
  ASSUME NEW f, WellFormed(f)
  PROVE  TurnInv(f, Ascending({id \in Ids(f) : InDegree(f, id) = 0}), 0)
<1> DEFINE X == {id \in Ids(f) : InDegree(f, id) = 0}
           seq == Ascending(X)
<1>1. /\ seq \in Seq(X) /\ NoRepeats(seq) /\ Elements(seq) = X
  BY FreedFacts
<1>2. \A id \in X : Predecessors(f, id) = {}
  BY NoEdgesLeft
<1>3. \A id \in Ids(f) : Predecessors(f, id) = {} => id \in X
  BY NoEdgesLeft
<1> HIDE DEF seq, X
<1>4. Visited(seq, 0) = {}
  BY <1>1 DEF Visited
<1>5. \A m \in DOMAIN seq : seq[m] \in X
  BY <1>1
<1>6. QED BY <1>1, <1>2, <1>3, <1>4, <1>5 DEF TurnInv, X, seq

LEMMA Joined ==
  ASSUME NEW S, NEW s \in Seq(S), NEW u \in Seq(S), NoRepeats(s), NoRepeats(u),
         Elements(s) \cap Elements(u) = {}
  PROVE  /\ s \o u \in Seq(S) /\ NoRepeats(s \o u) /\ Elements(s \o u) = Elements(s) \cup Elements(u)
         /\ Len(s \o u) = Len(s) + Len(u) /\ DOMAIN (s \o u) = 1..(Len(s) + Len(u))
         /\ \A m \in DOMAIN s : (s \o u)[m] = s[m]
         /\ \A m \in DOMAIN (s \o u) : m > Len(s) => m - Len(s) \in DOMAIN u
                                                    /\ (s \o u)[m] = u[m - Len(s)]
<1> DEFINE t == s \o u
<1>1. /\ Len(s) \in Nat /\ Len(u) \in Nat /\ DOMAIN s = 1..Len(s) /\ DOMAIN u = 1..Len(u)
      /\ t \in Seq(S) /\ Len(t) = Len(s) + Len(u) /\ DOMAIN t = 1..(Len(s) + Len(u))
  OBVIOUS
<1>2. \A m \in DOMAIN t : m <= Len(s) => m \in DOMAIN s /\ t[m] = s[m]
  BY <1>1
<1>3. \A m \in DOMAIN t : m > Len(s) => m - Len(s) \in DOMAIN u /\ t[m] = u[m - Len(s)]
  BY <1>1
<1>4. \A m \in DOMAIN s : m \in DOMAIN t /\ t[m] = s[m]
  BY <1>1
<1>5. \A m \in DOMAIN u : m + Len(s) \in DOMAIN t /\ t[m + Len(s)] = u[m]
  BY <1>1
<1> HIDE DEF t
<1>6. Elements(t) = Elements(s) \cup Elements(u)
  <2>1. Elements(t) \subseteq Elements(s) \cup Elements(u)
    <3>1. ASSUME NEW m \in DOMAIN t PROVE t[m] \in Elements(s) \cup Elements(u)
      <4>1. m <= Len(s) \/ m > Len(s)
        BY <1>1
      <4>2. QED BY <1>2, <1>3, <4>1 DEF Elements
    <3>2. QED BY <3>1 DEF Elements
  <2>2. Elements(s) \subseteq Elements(t)
    BY <1>4 DEF Elements
  <2>3. Elements(u) \subseteq Elements(t)
    <3>1. \A m \in DOMAIN u : u[m] \in Elements(t)
      BY <1>5 DEF Elements
    <3>2. QED BY <3>1 DEF Elements
  <2>4. QED BY <2>1, <2>2, <2>3
<1>7. NoRepeats(t)
  <2>1. ASSUME NEW j \in DOMAIN t, NEW k \in DOMAIN t, t[j] = t[k] PROVE j = k
    <3>0. j \in Nat /\ k \in Nat
      BY <1>1
    <3>1. CASE j <= Len(s) /\ k <= Len(s)
      BY <1>2, <2>1, <3>1 DEF NoRepeats
    <3>2. CASE j > Len(s) /\ k > Len(s)
      <4>1. j - Len(s) = k - Len(s)
        BY <1>3, <2>1, <3>2 DEF NoRepeats
      <4>2. QED BY <1>1, <3>0, <4>1
    <3>3. CASE j <= Len(s) /\ k > Len(s)
      BY <1>2, <1>3, <2>1, <3>3 DEF Elements
    <3>4. CASE j > Len(s) /\ k <= Len(s)
      BY <1>2, <1>3, <2>1, <3>4 DEF Elements
    <3>5. QED BY <1>1, <3>0, <3>1, <3>2, <3>3, <3>4
  <2>2. QED BY <2>1 DEF NoRepeats
<1>8. QED BY <1>1, <1>3, <1>4, <1>6, <1>7 DEF t

LEMMA NextTurn ==
  ASSUME NEW f, WellFormed(f), NEW n \in Nat \ {0}, NEW seq \in Seq(Ids(f)),
         TurnInv(f, seq, n - 1)
  PROVE  TurnInv(f, Visit(f, seq, n), n)
<1>1. /\ Len(seq) \in Nat /\ DOMAIN seq = 1..Len(seq) /\ NoRepeats(seq)
  BY DEF TurnInv
<1>2. CASE n > Len(seq)
  <2>1. Visited(seq, n) = Visited(seq, n - 1)
    <3>1. \A k \in DOMAIN seq : k <= n /\ k <= n - 1
      BY <1>1, <1>2
    <3>2. QED BY <3>1 DEF Visited
  <2>2. Visit(f, seq, n) = seq
    BY <1>2 DEF Visit
  <2>3. \A m \in DOMAIN seq : m <= n - 1 => m <= n
    BY <1>1
  <2>4. QED BY <2>1, <2>2, <2>3 DEF TurnInv
<1>3. CASE ~(n > Len(seq))
  <2> DEFINE F == Freed(f, seq, n)
             u == Ascending(F)
             t == seq \o u
  <2>1. Visit(f, seq, n) = t
    BY <1>3 DEF Visit
  <2>2. n \in DOMAIN seq
    BY <1>1, <1>3
  <2>3. F \subseteq Ids(f)
    BY DEF Freed, Ids
  <2>4. u \in Seq(Ids(f)) /\ NoRepeats(u) /\ Elements(u) = F
    <3> HIDE DEF F
    <3>1. QED BY <2>3, FreedFacts
  <2>5. {seq[m] : m \in 1..n} = Visited(seq, n)
    <3>1. 1..n = {k \in DOMAIN seq : k <= n}
      BY <1>1, <2>2
    <3>2. QED BY <3>1 DEF Visited
  <2>6. \A id \in F : Predecessors(f, id) \subseteq Visited(seq, n) /\ id \notin Elements(seq)
    <3>1. \A id \in F : EdgesLeft(f, id, Visited(seq, n)) = 0 /\ id \notin Elements(seq)
      BY <2>5 DEF Freed, ToSet, Elements
    <3>2. QED BY <3>1, NoEdgesLeft
  <2>7. Visited(seq, n) = Visited(seq, n - 1) \cup {seq[n]}
    <3>1. {k \in DOMAIN seq : k <= n} = {k \in DOMAIN seq : k <= n - 1} \cup {n}
      BY <1>1, <2>2
    <3>2. QED BY <3>1 DEF Visited
  <2>8. \A id \in Ids(f) :
          Predecessors(f, id) \subseteq Visited(seq, n) /\ id \notin Elements(seq) => id \in F
    <3> SUFFICES ASSUME NEW id \in Ids(f), Predecessors(f, id) \subseteq Visited(seq, n),
                        id \notin Elements(seq)
                 PROVE  id \in F
      OBVIOUS
    <3>1. seq[n] \in Predecessors(f, id)
      BY <2>7 DEF TurnInv
    <3>2. DependsOn(f, id, seq[n])
      BY <3>1 DEF Predecessors, DependsOn
    <3>3. EdgesLeft(f, id, {seq[m] : m \in 1..n}) = 0
      BY <2>5, NoEdgesLeft
    <3>4. QED BY <3>2, <3>3 DEF Freed, Ids, ToSet, Elements
  <2> HIDE DEF F, u
  <2>9. /\ NoRepeats(t) /\ Elements(t) = Elements(seq) \cup F
        /\ Len(t) = Len(seq) + Len(u) /\ DOMAIN t = 1..(Len(seq) + Len(u))
        /\ \A m \in DOMAIN seq : t[m] = seq[m]
        /\ \A m \in DOMAIN t : m > Len(seq) => m - Len(seq) \in DOMAIN u /\ t[m] = u[m - Len(seq)]
    <3>1. Elements(seq) \cap Elements(u) = {}
      BY <2>4, <2>6
    <3>2. QED BY <1>1, <2>4, <3>1, Joined
  <2> HIDE DEF t
  <2>10. Len(u) \in Nat
    BY <2>4
  <2>11. DOMAIN seq \subseteq DOMAIN t
    BY <1>1, <2>9, <2>10
  <2>12. Visited(t, n) = Visited(seq, n)
    <3>1. \A k \in DOMAIN t : k <= n => k \in DOMAIN seq
      BY <1>1, <2>2, <2>9, <2>10
    <3>2. QED BY <2>9, <2>11, <3>1 DEF Visited
  <2>13. ASSUME NEW m \in DOMAIN t, NEW p \in Predecessors(f, t[m])
         PROVE  \E j \in DOMAIN t : j < m /\ j <= n /\ t[j] = p
    <3>0. m \in Nat /\ n \in Nat
      BY <2>9, <2>10, <1>1
    <3>1. CASE m <= Len(seq)
      <4>1. m \in DOMAIN seq /\ t[m] = seq[m]
        BY <1>1, <2>9, <2>10, <3>1
      <4>2. PICK j \in DOMAIN seq : j < m /\ j <= n - 1 /\ seq[j] = p
        BY <2>13, <4>1 DEF TurnInv
      <4>3. j \in DOMAIN t /\ t[j] = p /\ j < m /\ j <= n
        BY <1>1, <2>9, <2>11, <4>2
      <4>4. QED BY <4>3
    <3>2. CASE m > Len(seq)
      <4>1. m - Len(seq) \in DOMAIN u /\ t[m] = u[m - Len(seq)]
        BY <2>9, <3>2
      <4>2. t[m] \in F
        BY <2>4, <4>1 DEF Elements
      <4>3. p \in Visited(seq, n)
        BY <2>6, <2>13, <4>2
      <4>4. PICK j \in DOMAIN seq : j <= n /\ seq[j] = p
        BY <4>3 DEF Visited
      <4>5. j < m /\ j \in DOMAIN t /\ t[j] = p
        BY <1>1, <2>9, <2>11, <3>0, <3>2, <4>4
      <4>6. QED BY <4>4, <4>5
    <3>3. QED BY <1>1, <3>0, <3>1, <3>2
  <2>14. \A id \in Ids(f) : Predecessors(f, id) \subseteq Visited(t, n) => id \in Elements(t)
    BY <2>8, <2>9, <2>12
  <2>15. QED BY <2>1, <2>9, <2>13, <2>14 DEF TurnInv
<1>4. QED BY <1>2, <1>3

\* What Kahn's loop leaves: no op twice, every op after the ones it depends on,
\* and every op that depends on nothing else.
LEMMA TopoFacts ==
  ASSUME NEW f, WellFormed(f)
  PROVE  /\ Topo(f) \in Seq(Ids(f)) /\ NoRepeats(Topo(f))
         /\ \A m \in DOMAIN Topo(f) : \A p \in Predecessors(f, Topo(f)[m]) :
              \E j \in DOMAIN Topo(f) : j < m /\ Topo(f)[j] = p
         /\ \A id \in Ids(f) :
              Predecessors(f, id) \subseteq Elements(Topo(f)) => id \in Elements(Topo(f))
<1> DEFINE N == Cardinality(Ids(f))
<1>1. PICK kahn : Turns(kahn, f)
  BY TopoTurns
<1>2. N \in Nat /\ IsFiniteSet(Ids(f))
  BY FS_CardinalityType DEF WellFormed, Ids
<1>3. /\ kahn \in [0..N -> Seq(Ids(f))] /\ Topo(f) = kahn[N]
      /\ kahn[0] = Ascending({id \in Ids(f) : InDegree(f, id) = 0})
      /\ \A n \in 1..N : kahn[n] = Visit(f, kahn[n - 1], n)
  BY <1>1 DEF Turns
<1> DEFINE T == {n \in 0..N : TurnInv(f, kahn[n], n)}
<1> HIDE DEF N
<1>4. 0 \in T
  BY <1>2, <1>3, FirstTurn
<1>5. ASSUME NEW n \in 1..N, n - 1 \in T PROVE n \in T
  <2>1. n \in Nat \ {0} /\ n \in 0..N /\ kahn[n - 1] \in Seq(Ids(f))
    BY <1>2, <1>3
  <2>2. TurnInv(f, kahn[n - 1], n - 1)
    BY <1>5
  <2>3. TurnInv(f, Visit(f, kahn[n - 1], n), n)
    BY <2>1, <2>2, NextTurn
  <2>4. QED BY <1>3, <2>1, <2>3
<1>6. N \in T
  <2> HIDE DEF T
  <2>1. 0..N \subseteq T
    BY <1>2, <1>4, <1>5, BoundedInduction
  <2>2. QED BY <1>2, <2>1
<1> DEFINE seq == Topo(f)
<1>7. TurnInv(f, seq, N) /\ seq \in Seq(Ids(f))
  BY <1>2, <1>3, <1>6
<1> HIDE DEF seq
<1>8. Visited(seq, N) = Elements(seq)
  <2>1. NoRepeats(seq)
    BY <1>7 DEF TurnInv
  <2>2. Len(seq) \in Nat /\ Len(seq) <= N /\ DOMAIN seq = 1..Len(seq)
    BY <1>2, <1>7, <2>1, FillsUp DEF N
  <2>3. \A k \in DOMAIN seq : k <= N
    BY <1>2, <2>2
  <2>4. QED BY <2>3 DEF Visited, Elements
<1>9. QED BY <1>7, <1>8 DEF TurnInv, seq

\* What assign_tokens leaves of a function: its ops and their edges, in an order
\* that has every op once and after the ops it depends on.
Sorted(f, order) ==
  /\ order \in Seq(Ids(f)) /\ NoRepeats(order) /\ Elements(order) = Ids(f)
  /\ Len(order) = Cardinality(Ids(f))
  /\ \A m \in DOMAIN order : \A p \in Predecessors(f, order[m]) :
       \E j \in DOMAIN order : j < m /\ order[j] = p

LEMMA TopoSorts ==
  ASSUME NEW f, WellFormed(f), ~HasCycle(f)
  PROVE  Sorted(f, Topo(f))
<1>1. /\ Topo(f) \in Seq(Ids(f)) /\ NoRepeats(Topo(f))
      /\ \A m \in DOMAIN Topo(f) : \A p \in Predecessors(f, Topo(f)[m]) :
           \E j \in DOMAIN Topo(f) : j < m /\ Topo(f)[j] = p
  BY TopoFacts
<1>2. Len(Topo(f)) = Cardinality(Ids(f))
  BY DEF HasCycle, Ids
<1>3. IsFiniteSet(Ids(f))
  BY DEF WellFormed, Ids
<1>4. Elements(Topo(f)) = Ids(f)
  BY <1>1, <1>2, <1>3, FillsUp
<1>5. QED BY <1>1, <1>2, <1>4 DEF Sorted

LEMMA CycleFound ==
  ASSUME NEW f, WellFormed(f)
  PROVE  HasCycle(f) <=> ~Acyclic(f)
<1> DEFINE seq == Topo(f)
<1>1. /\ seq \in Seq(Ids(f)) /\ NoRepeats(seq)
      /\ \A m \in DOMAIN seq : \A p \in Predecessors(f, seq[m]) :
           \E j \in DOMAIN seq : j < m /\ seq[j] = p
      /\ \A id \in Ids(f) :
           Predecessors(f, id) \subseteq Elements(seq) => id \in Elements(seq)
  BY TopoFacts
<1>2. HasCycle(f) <=> Elements(seq) # Ids(f)
  <2>1. HasCycle(f) <=> Len(seq) # Cardinality(Ids(f))
    BY DEF HasCycle, Ids
  <2>2. IsFiniteSet(Ids(f))
    BY DEF WellFormed, Ids
  <2> HIDE DEF seq
  <2>3. QED BY <1>1, <2>1, <2>2, FillsUp
<1> HIDE DEF seq
<1>3. DOMAIN seq \subseteq Nat /\ \A m \in DOMAIN seq : seq[m] \in Ids(f)
  BY <1>1
<1>4. \A id : Predecessors(f, id) \subseteq Ids(f)
  BY DEF Predecessors, WellFormed, Ids
<1>5. ASSUME Acyclic(f) PROVE Elements(seq) = Ids(f)
  <2> DEFINE S == Ids(f) \ Elements(seq)
  <2>1. SUFFICES ASSUME S # {} PROVE FALSE
    BY <1>3 DEF Elements
  <2>2. PICK id \in S : Predecessors(f, id) \cap S = {}
    BY <1>5, <2>1 DEF Acyclic
  <2>3. Predecessors(f, id) \subseteq Elements(seq)
    BY <1>4, <2>2
  <2>4. QED BY <1>1, <2>2, <2>3
<1>6. ASSUME Elements(seq) = Ids(f) PROVE Acyclic(f)
  <2> SUFFICES ASSUME NEW S \in (SUBSET Ids(f)) \ {{}}
               PROVE  \E id \in S : Predecessors(f, id) \cap S = {}
    BY DEF Acyclic
  <2> DEFINE P == {m \in DOMAIN seq : seq[m] \in S}
  <2>1. P # {} /\ P \subseteq Nat
    BY <1>3, <1>6 DEF Elements
  <2>2. PICK m \in P : \A k \in P : m <= k
    <3> HIDE DEF P
    <3>1. QED BY <2>1, LeastElement
  <2>3. m \in DOMAIN seq /\ seq[m] \in S /\ m \in Nat
    BY <1>3, <2>2
  <2>4. ASSUME NEW p \in Predecessors(f, seq[m]), p \in S PROVE FALSE
    <3>1. PICK j \in DOMAIN seq : j < m /\ seq[j] = p
      BY <1>1, <2>3
    <3>2. j \in P /\ j \in Nat
      BY <1>3, <2>4, <3>1
    <3>3. m <= j
      BY <2>2, <3>2
    <3>4. QED BY <2>3, <3>1, <3>2, <3>3
  <2>5. QED BY <2>3, <2>4
<1>7. QED BY <1>2, <1>5, <1>6

(***************************************************************************)
(* The passes keep functions well-formed                                   *)
(***************************************************************************)
\* The ops that fusing can make of those of f.
FusibleOps(f) ==
  {op \in [kind : OpKind, arg : {f.ops[id].arg : id \in Ids(f)}, operands : Seq(Nat),
           dtype : {f.ops[id].dtype : id \in Ids(f)}] : IsOp(op)}
OpTables(f) == UNION {[D -> FusibleOps(f)] : D \in SUBSET Ids(f)}

LEMMA TableFacts ==
  ASSUME NEW f, NEW ops
  PROVE  /\ ops \in OpTables(f) <=> /\ DOMAIN ops \subseteq Ids(f)
                                    /\ ops = [id \in DOMAIN ops |-> ops[id]]
                                    /\ \A id \in DOMAIN ops : ops[id] \in FusibleOps(f)
<1> DEFINE A == FusibleOps(f)
           Table == /\ DOMAIN ops \subseteq Ids(f)
                    /\ ops = [id \in DOMAIN ops |-> ops[id]]
                    /\ \A id \in DOMAIN ops : ops[id] \in A
<1> HIDE DEF A
<1>1. ASSUME ops \in UNION {[D -> A] : D \in SUBSET Ids(f)} PROVE Table
  <2>1. PICK D \in SUBSET Ids(f) : ops \in [D -> A]
    BY <1>1
  <2>2. QED BY <2>1
<1>2. ASSUME Table PROVE ops \in UNION {[D -> A] : D \in SUBSET Ids(f)}
  <2>1. ops \in [DOMAIN ops -> A]
    BY <1>2
  <2>2. QED BY <1>2, <2>1
<1>3. QED BY <1>1, <1>2 DEF OpTables, A

LEMMA OperandsReplaced ==
  ASSUME NEW r, NEW o, r = [kind |-> r.kind, arg |-> r.arg, operands |-> r.operands, dtype |-> r.dtype]
  PROVE  [r EXCEPT !.operands = o] = [kind |-> r.kind, arg |-> r.arg, operands |-> o, dtype |-> r.dtype]
<1>1. \A k, a, x, d : [[kind |-> k, arg |-> a, operands |-> x, dtype |-> d] EXCEPT !.operands = o]
                      = [kind |-> k, arg |-> a, operands |-> o, dtype |-> d]
  OBVIOUS
<1>2. QED BY <1>1

LEMMA PairFused ==
  ASSUME NEW f, WellFormed(f), NEW ops \in OpTables(f), NEW n
  PROVE  /\ FusePair(f, ops, n) \in OpTables(f)
         /\ (\A id \in DOMAIN ops : ops[id].kind # "MlpStep") => FusePair(f, ops, n) = ops
<1>1. /\ DOMAIN ops \subseteq Ids(f) /\ \A id \in DOMAIN ops : ops[id] \in FusibleOps(f)
  BY TableFacts
<1>2. ASSUME NEW a \in DOMAIN ops, NEW b \in DOMAIN ops PROVE Merge(ops, a, b) \in OpTables(f)
  <2> DEFINE op == [ops[a] EXCEPT !.operands = @ \o ops[b].operands]
             t == Merge(ops, a, b)
  <2>1. /\ ops[a] = [kind |-> ops[a].kind, arg |-> ops[a].arg, operands |-> ops[a].operands,
                     dtype |-> ops[a].dtype]
        /\ ops[a].operands \in Seq(Nat) /\ ops[b].operands \in Seq(Nat)
        /\ ops[a].kind \in OpKind /\ (ops[a].kind = "Emu" => ops[a].arg[1] \in Nat)
        /\ ops[a].arg \in {f.ops[id].arg : id \in Ids(f)}
        /\ ops[a].dtype \in {f.ops[id].dtype : id \in Ids(f)}
    BY <1>1 DEF FusibleOps, IsOp
  <2>2. op = [kind |-> ops[a].kind, arg |-> ops[a].arg,
              operands |-> ops[a].operands \o ops[b].operands, dtype |-> ops[a].dtype]
    BY <2>1, OperandsReplaced
  <2>3. ops[a].operands \o ops[b].operands \in Seq(Nat)
    BY <2>1
  <2>4. op \in FusibleOps(f)
    BY <2>1, <2>2, <2>3 DEF FusibleOps, IsOp
  <2>5. t = [id \in DOMAIN ops \ {b} |-> IF id = a THEN op ELSE ops[id]]
    BY DEF Merge
  <2> HIDE DEF t, op
  <2>6. DOMAIN t = DOMAIN ops \ {b} /\ t = [id \in DOMAIN t |-> t[id]]
    BY <2>5
  <2>7. \A id \in DOMAIN t : t[id] \in FusibleOps(f)
    BY <1>1, <2>4, <2>5, <2>6
  <2>8. t \in OpTables(f)
    BY <1>1, <2>6, <2>7, TableFacts
  <2>9. QED BY <2>8 DEF t
<1>3. QED BY <1>2 DEF FusePair, IsMlp

LEMMA OpsFused ==
  ASSUME NEW f, WellFormed(f), Len(f.order) \in Nat
  PROVE  /\ FusedOps(f) \in OpTables(f)
         /\ (\A id \in Ids(f) : f.ops[id].kind # "MlpStep") => FusedOps(f) = f.ops
<1> DEFINE N == Len(f.order)
           Q == OpTables(f)
           step == [p \in (1..N) \X Q |-> FusePair(f, p[2], p[1])]
           Walks(h) == h = [n \in 0..N |-> IF n = 0 THEN f.ops ELSE FusePair(f, h[n - 1], n)]
           walk == CHOOSE h : Walks(h)
<1>1. f.ops \in Q
  <2>1. f.ops = [id \in DOMAIN f.ops |-> f.ops[id]] /\ DOMAIN f.ops = Ids(f)
    BY DEF WellFormed, Ids
  <2>2. ASSUME NEW id \in Ids(f) PROVE f.ops[id] \in FusibleOps(f)
    <3>1. IsOp(f.ops[id])
      BY DEF WellFormed, Ids
    <3>2. QED BY <3>1 DEF FusibleOps, IsOp
  <2>3. QED BY <2>1, <2>2, TableFacts
<1>2. step \in StepFunctions(N, Q)
  <2> HIDE DEF N, Q
  <2>1. \A p \in (1..N) \X Q : FusePair(f, p[2], p[1]) \in Q
    BY PairFused DEF Q
  <2>2. QED BY <2>1 DEF StepFunctions
<1> HIDE DEF N, Q
<1>3. N \in Nat
  BY DEF N
<1>4. PICK g : Unfolds(g, N, Q, f.ops, step)
  <2> HIDE DEF step
  <2>1. QED BY <1>1, <1>2, <1>3, Recursion
<1>5. g \in [0..N -> Q] /\ g[0] = f.ops
  BY <1>4 DEF Unfolds
<1>6. ASSUME NEW n \in 1..N PROVE g[n] = FusePair(f, g[n - 1], n)
  <2>1. g[n] = step[<<n, g[n - 1]>>]
    BY <1>4 DEF Unfolds
  <2>2. <<n, g[n - 1]>> \in (1..N) \X Q
    BY <1>3, <1>5
  <2>3. QED BY <2>1, <2>2
<1>7. Walks(g)
  <2>1. \A n \in 0..N : n # 0 => n \in 1..N
    BY <1>3
  <2>2. QED BY <1>5, <1>6, <2>1
<1>8. Walks(walk)
  <2> HIDE DEF Walks
  <2>1. QED BY <1>7
<1>9. FusedOps(f) = walk[N]
  BY DEF FusedOps, N
<1> HIDE DEF walk
<1>10. walk[0] = f.ops /\ \A n \in 1..N : walk[n] = FusePair(f, walk[n - 1], n)
  BY <1>3, <1>8
<1> DEFINE Plain == \A id \in Ids(f) : f.ops[id].kind # "MlpStep"
           T == {n \in 0..N : walk[n] \in Q /\ (Plain => walk[n] = f.ops)}
<1>11. 0 \in T
  BY <1>1, <1>3, <1>10
<1>12. ASSUME NEW n \in 1..N, n - 1 \in T PROVE n \in T
  <2>1. walk[n] = FusePair(f, walk[n - 1], n) /\ walk[n - 1] \in Q /\ (Plain => walk[n - 1] = f.ops)
    BY <1>10, <1>12
  <2>2. walk[n] \in Q
    BY <2>1, PairFused DEF Q
  <2>3. Plain => FusePair(f, f.ops, n) = f.ops
    BY <1>1, PairFused DEF Q, Ids
  <2>4. QED BY <1>3, <2>1, <2>2, <2>3
<1>13. N \in T
  <2> HIDE DEF T
  <2>1. 0..N \subseteq T
    BY <1>3, <1>11, <1>12, BoundedInduction
  <2>2. QED BY <1>3, <2>1
<1>14. QED BY <1>9, <1>13 DEF Q

LEMMA FuseKeeps ==
  ASSUME NEW f, WellFormed(f), Len(f.order) \in Nat
  PROVE  /\ WellFormed(FuseMlpChain(f)) /\ FuseMlpChain(f).edges \subseteq f.edges
         /\ (\A id \in Ids(f) : f.ops[id].kind # "MlpStep") => FuseMlpChain(f).ops = f.ops
<1> DEFINE g == FuseMlpChain(f)
           ops == FusedOps(f)
           order == SelectSeq(f.order, LAMBDA id : id \in DOMAIN ops)
<1>1. g = [name |-> f.name, ops |-> ops, meta |-> [id \in DOMAIN ops |-> f.meta[id]],
           edges |-> {e \in f.edges : Src(e) \in DOMAIN ops /\ Dst(e) \in DOMAIN ops},
           order |-> order]
  BY DEF FuseMlpChain
<1>2. /\ ops \in OpTables(f) /\ ((\A id \in Ids(f) : f.ops[id].kind # "MlpStep") => ops = f.ops)
  BY OpsFused
<1> HIDE DEF ops, order, g
<1>3. /\ DOMAIN ops \subseteq Ids(f) /\ ops = [id \in DOMAIN ops |-> ops[id]]
      /\ \A id \in DOMAIN ops : IsOp(ops[id])
  BY <1>2, TableFacts DEF FusibleOps
<1>4. DOMAIN ops \in SUBSET Nat /\ IsFiniteSet(DOMAIN ops)
  BY <1>3, FS_Subset DEF WellFormed, Ids
<1>5. /\ g.ops = ops /\ g.edges \subseteq f.edges
      /\ \A e \in g.edges : {Src(e), Dst(e)} \subseteq DOMAIN ops
  BY <1>1
<1>6. /\ g.meta = [id \in DOMAIN ops |-> g.meta[id]]
      /\ \A id \in DOMAIN ops : IsMeta(g.meta[id])
  <2>1. g.meta = [id \in DOMAIN ops |-> f.meta[id]]
    BY <1>1
  <2>2. \A id \in DOMAIN ops : IsMeta(f.meta[id])
    BY <1>3 DEF WellFormed, Ids
  <2>3. QED BY <2>1, <2>2
<1>7. IsFiniteSet(g.edges)
  BY <1>5, FS_Subset DEF WellFormed
<1>8. g = [name |-> g.name, ops |-> g.ops, meta |-> g.meta, edges |-> g.edges, order |-> g.order]
  BY <1>1
<1>9. WellFormed(g)
  BY <1>3, <1>4, <1>5, <1>6, <1>7, <1>8 DEF WellFormed
<1>10. QED BY <1>2, <1>5, <1>9 DEF g

\* Passes that replace the notes on the ops of a function, and their order.
Ordered(f, order) == [f EXCEPT !.order = order]
Noted(f, meta) == [f EXCEPT !.meta = meta]

LEMMA NotesReplaced ==
  ASSUME NEW f, WellFormed(f), NEW g, NEW meta, NEW order, g = Noted(Ordered(f, order), meta),
         meta = [id \in Ids(f) |-> meta[id]], \A id \in Ids(f) : IsMeta(meta[id])
  PROVE  /\ WellFormed(g) /\ g.ops = f.ops /\ g.edges = f.edges /\ g.meta = meta
         /\ g.order = order
<1>1. f = [name |-> f.name, ops |-> f.ops, meta |-> f.meta, edges |-> f.edges, order |-> f.order]
  BY DEF WellFormed
<1> DEFINE h == Ordered(f, order)
<1>2. h = [name |-> f.name, ops |-> f.ops, meta |-> f.meta, edges |-> f.edges, order |-> order]
  <2>1. \A n, o, m, e, r : [[name |-> n, ops |-> o, meta |-> m, edges |-> e, order |-> r]
                             EXCEPT !.order = order]
                          = [name |-> n, ops |-> o, meta |-> m, edges |-> e, order |-> order]
    OBVIOUS
  <2>2. QED BY <1>1, <2>1 DEF Ordered
<1> HIDE DEF h
<1>3. g = [name |-> f.name, ops |-> f.ops, meta |-> meta, edges |-> f.edges, order |-> order]
  <2>1. \A n, o, m, e, r : [[name |-> n, ops |-> o, meta |-> m, edges |-> e, order |-> r]
                             EXCEPT !.meta = meta]
                          = [name |-> n, ops |-> o, meta |-> meta, edges |-> e, order |-> r]
    OBVIOUS
  <2>2. g = [h EXCEPT !.meta = meta]
    BY DEF h, Noted
  <2>3. QED BY <1>2, <2>1, <2>2
<1>4. /\ g.ops = f.ops /\ g.edges = f.edges /\ g.meta = meta /\ g.order = order
      /\ g = [name |-> g.name, ops |-> g.ops, meta |-> g.meta, edges |-> g.edges, order |-> g.order]
  BY <1>3
<1>5. WellFormed(g)
  BY <1>4 DEF WellFormed, Ids
<1>6. QED BY <1>4, <1>5

LEMMA SelectKeeps ==
  ASSUME NEW f, WellFormed(f), NEW p
  PROVE  LET g == SelectBackend(f, p)
         IN  /\ WellFormed(g) /\ g.ops = f.ops /\ g.edges = f.edges
             /\ \A id \in Ids(f) : g.meta[id].backend = Pick(p, f.ops[id])
<1> DEFINE g == SelectBackend(f, p)
           meta == [id \in Ids(f) |-> [f.meta[id] EXCEPT !.backend = Pick(p, f.ops[id])]]
<1>1. g = Noted(Ordered(f, f.order), meta)
  <2>1. g = Noted(f, meta)
    BY DEF SelectBackend, Ids, Noted
  <2>2. Ordered(f, f.order) = f
    BY DEF WellFormed, Ordered
  <2>3. QED BY <2>1, <2>2
<1>2. ASSUME NEW id \in Ids(f) PROVE IsMeta(meta[id]) /\ meta[id].backend = Pick(p, f.ops[id])
  <2>1. IsMeta(f.meta[id])
    BY DEF WellFormed, Ids
  <2>2. \A m, b : IsMeta(m) => IsMeta([m EXCEPT !.backend = b]) /\ [m EXCEPT !.backend = b].backend = b
    BY DEF IsMeta
  <2>3. QED BY <2>1, <2>2
<1>3. meta = [id \in Ids(f) |-> meta[id]]
  OBVIOUS
<1> HIDE DEF g, meta
<1>4. WellFormed(g) /\ g.ops = f.ops /\ g.edges = f.edges /\ g.meta = meta
  BY <1>1, <1>2, <1>3, NotesReplaced
<1>5. QED BY <1>2, <1>4 DEF g

LEMMA MaxFacts ==
  ASSUME NEW N \in Nat, NEW S, S \subseteq 0..N, S # {}
  PROVE  Max(S) \in S /\ \A y \in S : y <= Max(S)
<1> DEFINE T == {N - x : x \in S}
           Top(x) == \A y \in S : x >= y
<1>1. T \subseteq Nat /\ T # {}
  <2>1. \A x \in S : x \in 0..N /\ N - x \in Nat
    OBVIOUS
  <2>2. QED BY <2>1
<1>2. PICK m \in T : \A x \in T : m <= x
  <2> HIDE DEF T
  <2>1. QED BY <1>1, LeastElement
<1>3. PICK x \in S : m = N - x
  BY <1>2
<1>4. Top(x)
  BY <1>2, <1>3
<1> DEFINE c == CHOOSE z \in S : Top(z)
<1>5. c \in S /\ Top(c)
  <2> HIDE DEF Top
  <2>1. QED BY <1>4
<1>6. Max(S) = c
  BY DEF Max
<1> HIDE DEF c
<1>7. c \in S /\ \A y \in S : y <= c
  BY <1>5
<1>8. QED BY <1>6, <1>7

\* The token of an op is its place in the order, and it waits for the place of
\* the last op it depends on.
Tokened(f) ==
  /\ Sorted(f, f.order)
  /\ \A k \in DOMAIN f.order :
       LET id == f.order[k]
           w == f.meta[id].token_in
       IN  /\ f.meta[id].token_out = k /\ w \in 0..(k - 1)
           /\ \A j \in DOMAIN f.order : f.order[j] \in Predecessors(f, id) => j <= w
           /\ w # 0 => f.order[w] \in Predecessors(f, id)

LEMMA AssignKeeps ==
  ASSUME NEW f, WellFormed(f), ~HasCycle(f)
  PROVE  LET g == AssignTokens(f)
         IN  /\ WellFormed(g) /\ g.ops = f.ops /\ g.edges = f.edges /\ Tokened(g)
             /\ \A id \in Ids(f) : /\ g.meta[id].backend = f.meta[id].backend
                                   /\ g.meta[id].source_hint = f.meta[id].source_hint
<1> DEFINE g == AssignTokens(f)
           topo == Topo(f)
           token == [id \in Ids(f) |-> CHOOSE k \in DOMAIN topo : topo[k] = id]
           waits(id) == WaitsFor({token[p] : p \in Predecessors(f, id)})
           meta == [id \in Ids(f) |-> [f.meta[id] EXCEPT !.token_in = waits(id), !.token_out = token[id]]]
<1>1. Sorted(f, topo)
  BY TopoSorts
<1>2. g = Noted(Ordered(f, topo), meta)
  <2>1. g = [f EXCEPT !.order = topo, !.meta = meta]
    BY DEF AssignTokens, Ids
  <2> HIDE DEF g, topo, meta
  <2>2. QED BY <2>1 DEF Noted, Ordered
<1>3. ASSUME NEW id \in Ids(f)
      PROVE  /\ IsMeta(meta[id]) /\ meta[id].token_in = waits(id) /\ meta[id].token_out = token[id]
             /\ meta[id].backend = f.meta[id].backend
             /\ meta[id].source_hint = f.meta[id].source_hint
  <2>1. IsMeta(f.meta[id])
    BY DEF WellFormed, Ids
  <2> DEFINE m == f.meta[id]
             h == [m EXCEPT !.token_in = waits(id)]
             u == [h EXCEPT !.token_out = token[id]]
  <2>2. meta[id] = u
    <3> HIDE DEF waits, token
    <3>1. QED OBVIOUS
  <2>3. m = [backend |-> m.backend, token_in |-> m.token_in, token_out |-> m.token_out,
             source_hint |-> m.source_hint]
    BY <2>1 DEF IsMeta
  <2> HIDE DEF m, waits, token, meta
  <2>4. h = [backend |-> m.backend, token_in |-> waits(id), token_out |-> m.token_out,
             source_hint |-> m.source_hint]
    <3>1. \A n, x, y, z, a :
            [[backend |-> n, token_in |-> x, token_out |-> y, source_hint |-> z]
             EXCEPT !.token_in = a]
            = [backend |-> n, token_in |-> a, token_out |-> y, source_hint |-> z]
      OBVIOUS
    <3>2. QED BY <2>3, <3>1
  <2> HIDE DEF h
  <2>5. u = [backend |-> m.backend, token_in |-> waits(id), token_out |-> token[id],
             source_hint |-> m.source_hint]
    <3>1. \A n, x, y, z, a :
            [[backend |-> n, token_in |-> x, token_out |-> y, source_hint |-> z]
             EXCEPT !.token_out = a]
            = [backend |-> n, token_in |-> x, token_out |-> a, source_hint |-> z]
      OBVIOUS
    <3>2. QED BY <2>4, <3>1
  <2> HIDE DEF u
  <2>6. QED BY <2>2, <2>5 DEF IsMeta, m
<1>4. meta = [id \in Ids(f) |-> meta[id]]
  <2> HIDE DEF token, waits
  <2>1. QED OBVIOUS
<1> HIDE DEF g, meta
<1>5. WellFormed(g) /\ g.ops = f.ops /\ g.edges = f.edges /\ g.meta = meta /\ g.order = topo
  <2> HIDE DEF topo, token, waits
  <2>1. QED BY <1>2, <1>3, <1>4, NotesReplaced
<1> HIDE DEF topo
<1>6. Ids(g) = Ids(f) /\ (\A id : Predecessors(g, id) = Predecessors(f, id))
  BY <1>5 DEF Ids, Predecessors
<1>7. Sorted(g, g.order)
  BY <1>1, <1>5, <1>6 DEF Sorted
<1>8. /\ topo \in Seq(Ids(f)) /\ NoRepeats(topo) /\ Elements(topo) = Ids(f)
      /\ DOMAIN topo = 1..Len(topo) /\ Len(topo) \in Nat
  BY <1>1 DEF Sorted
<1>9. ASSUME NEW k \in DOMAIN topo PROVE topo[k] \in Ids(f) /\ token[topo[k]] = k
  <2>1. topo[k] \in Ids(f)
    BY <1>8
  <2> DEFINE c == CHOOSE j \in DOMAIN topo : topo[j] = topo[k]
  <2>2. c \in DOMAIN topo /\ topo[c] = topo[k]
    OBVIOUS
  <2>3. token[topo[k]] = c
    BY <2>1
  <2> HIDE DEF c
  <2>4. QED BY <1>8, <2>1, <2>2, <2>3 DEF NoRepeats
<1> HIDE DEF token
<1>10. ASSUME NEW k \in DOMAIN topo
       PROVE  LET w == waits(topo[k])
              IN  /\ w \in 0..(k - 1)
                  /\ \A j \in DOMAIN topo : topo[j] \in Predecessors(f, topo[k]) => j <= w
                  /\ w # 0 => topo[w] \in Predecessors(f, topo[k])
  <2> DEFINE P == Predecessors(f, topo[k])
             S == {token[p] : p \in P} \cup {0}
             w == waits(topo[k])
  <2>1. k \in Nat /\ k - 1 \in Nat
    BY <1>8
  <2>2. ASSUME NEW p \in P PROVE token[p] \in 1..(k - 1) /\ topo[token[p]] = p
    <3>1. PICK j \in DOMAIN topo : j < k /\ topo[j] = p
      BY <1>1 DEF Sorted
    <3>2. token[p] = j
      BY <1>9, <3>1
    <3>3. j \in 1..(k - 1)
      BY <1>8, <2>1, <3>1
    <3>4. QED BY <3>1, <3>2, <3>3
  <2>3. S \subseteq 0..(k - 1) /\ S # {}
    BY <2>1, <2>2
  <2>4. w = Max(S)
    BY DEF WaitsFor
  <2>5. w \in S /\ \A y \in S : y <= w
    <3> HIDE DEF S, w
    <3>1. QED BY <2>1, <2>3, <2>4, MaxFacts
  <2>6. \A j \in DOMAIN topo : topo[j] \in P => j \in S
    BY <1>9
  <2>7. w # 0 => topo[w] \in P
    BY <2>2, <2>5
  <2> HIDE DEF w, S
  <2>8. QED BY <2>3, <2>5, <2>6, <2>7 DEF w
<1>11. Tokened(g)
  <2> SUFFICES ASSUME NEW k \in DOMAIN g.order
               PROVE  LET id == g.order[k]
                          w == g.meta[id].token_in
                      IN  /\ g.meta[id].token_out = k /\ w \in 0..(k - 1)
                          /\ \A j \in DOMAIN g.order : g.order[j] \in Predecessors(g, id) => j <= w
                          /\ w # 0 => g.order[w] \in Predecessors(g, id)
    BY <1>7 DEF Tokened
  <2>1. k \in DOMAIN topo /\ topo[k] \in Ids(f) /\ g.order = topo /\ g.meta = meta
    BY <1>5, <1>9
  <2>2. meta[topo[k]].token_in = waits(topo[k]) /\ meta[topo[k]].token_out = k
    BY <1>3, <1>9, <2>1
  <2> HIDE DEF waits
  <2>3. QED BY <1>6, <1>10, <2>1, <2>2
<1>12. QED BY <1>3, <1>5, <1>11 DEF g

(***************************************************************************)
(* The PTX frontend                                                        *)
(***************************************************************************)
LEMMA FlattenType ==
  ASSUME NEW S, NEW seqs \in Seq(Seq(S))
  PROVE  FlattenSeq(seqs) \in Seq(S)
<1>1. PICK fl : Flattens(fl, seqs, S)
  BY FlattenSteps
<1>2. Len(seqs) \in Nat /\ fl \in [0..Len(seqs) -> Seq(S)] /\ FlattenSeq(seqs) = fl[Len(seqs)]
  BY <1>1 DEF Flattens
<1>3. QED BY <1>2

LEMMA OpenedType ==
  ASSUME NEW stmts \in Seq(Statements)
  PROVE  Opened(stmts) \in Seq(Statements)
<1> DEFINE seqs == [n \in DOMAIN stmts |-> CASE stmts[n].kind = "Instruction" -> <<stmts[n]>>
                                             [] stmts[n].kind = "Block" -> stmts[n].body
                                             [] OTHER -> <<>>]
<1>1. ASSUME NEW n \in 1..Len(stmts) PROVE seqs[n] \in Seq(Statements)
  <2>1. stmts[n] \in Statements /\ (stmts[n].kind = "Block" => stmts[n].body \in Seq(Statements))
    BY StatementAssumption
  <2>2. <<stmts[n]>> \in Seq(Statements) /\ <<>> \in Seq(Statements)
    BY <2>1
  <2>3. CASE stmts[n].kind = "Instruction"
    BY <2>2, <2>3
  <2>4. CASE stmts[n].kind = "Block"
    BY <2>1, <2>4
  <2>5. QED BY <2>2, <2>3, <2>4
<1>2. seqs = [n \in 1..Len(stmts) |-> seqs[n]] /\ Len(stmts) \in Nat
  OBVIOUS
<1>3. Opened(stmts) = FlattenSeq(seqs)
  BY DEF Opened
<1> HIDE DEF seqs
<1>4. seqs \in Seq(Seq(Statements))
  BY <1>1, <1>2
<1>5. QED BY <1>3, <1>4, FlattenType

\* The lists that collect_instructions goes through.
LEMMA CollectSteps ==
  ASSUME NEW stmts \in Seq(Statements)
  PROVE  \E level : /\ collect_instructions(stmts) = level[Levels] /\ level[0] = stmts
                    /\ level \in [0..Levels -> Seq(Statements)]
                    /\ \A d \in 1..Levels : level[d] = Opened(level[d - 1])
<1> DEFINE Q == Seq(Statements)
           step == [p \in (1..Levels) \X Q |-> Opened(p[2])]
           Opens(h) == h = [d \in 0..Levels |-> IF d = 0 THEN stmts ELSE Opened(h[d - 1])]
           level == CHOOSE h : Opens(h)
<1>1. Levels \in Nat
  BY StatementAssumption
<1>2. step \in StepFunctions(Levels, Q)
  <2>1. \A q \in Q : Opened(q) \in Q
    BY OpenedType
  <2> HIDE DEF Q
  <2>2. QED BY <2>1 DEF StepFunctions
<1> HIDE DEF Q
<1>3. PICK g : Unfolds(g, Levels, Q, stmts, step)
  <2> HIDE DEF step
  <2>1. QED BY <1>1, <1>2, Recursion DEF Q
<1>4. g \in [0..Levels -> Q] /\ g[0] = stmts
  BY <1>3 DEF Unfolds
<1>5. ASSUME NEW d \in 1..Levels PROVE g[d] = Opened(g[d - 1])
  <2>1. g[d] = step[<<d, g[d - 1]>>]
    BY <1>3 DEF Unfolds
  <2>2. <<d, g[d - 1]>> \in (1..Levels) \X Q
    BY <1>1, <1>4
  <2>3. QED BY <2>1, <2>2
<1>6. Opens(g)
  <2>1. \A d \in 0..Levels : d # 0 => d \in 1..Levels
    BY <1>1
  <2>2. QED BY <1>4, <1>5, <2>1
<1>7. Opens(level)
  <2> HIDE DEF Opens
  <2>1. QED BY <1>6
<1>8. collect_instructions(stmts) = level[Levels]
  BY DEF collect_instructions
<1> HIDE DEF level
<1> DEFINE T == {d \in 0..Levels : level[d] \in Q}
<1>9. 0 \in T
  BY <1>1, <1>7 DEF Q
<1>10. ASSUME NEW d \in 1..Levels, d - 1 \in T PROVE d \in T
  <2>1. level[d] = Opened(level[d - 1])
    BY <1>1, <1>7
  <2>2. QED BY <1>1, <1>10, <2>1, OpenedType DEF Q
<1>11. \A d \in 0..Levels : level[d] \in Q
  <2>1. 0..Levels \subseteq T
    <3> HIDE DEF T
    <3>1. QED BY <1>1, <1>9, <1>10, BoundedInduction
  <2>2. QED BY <2>1
<1>12. level[0] = stmts /\ \A d \in 1..Levels : level[d] = Opened(level[d - 1])
  <2>1. \A d \in 1..Levels : d \in 0..Levels /\ d # 0
    BY <1>1
  <2>2. QED BY <1>1, <1>7, <2>1
<1>13. level \in [0..Levels -> Q]
  <2>1. level = [d \in 0..Levels |-> level[d]]
    BY <1>7
  <2>2. QED BY <1>11, <2>1
<1>14. QED BY <1>8, <1>12, <1>13 DEF Q

LEMMA CollectType ==
  ASSUME NEW stmts \in Seq(Statements)
  PROVE  collect_instructions(stmts) \in Seq(Statements)
<1>1. Levels \in Nat
  BY StatementAssumption
<1>2. PICK level : /\ collect_instructions(stmts) = level[Levels]
                   /\ level \in [0..Levels -> Seq(Statements)]
  BY CollectSteps
<1>3. Levels \in 0..Levels
  BY <1>1
<1>4. QED BY <1>2, <1>3

LEMMA EntriesType ==
  ASSUME NEW text, IsText(text)
  PROVE  LET entries == Entries(text)
         IN  /\ Len(entries) \in Nat /\ DOMAIN entries = 1..Len(entries)
             /\ \A n \in DOMAIN entries :
                  collect_instructions(entries[n].body) \in Seq(Statements)
<1> DEFINE S == {text[n] : n \in 1..Len(text)}
           seqs == [n \in DOMAIN text |-> extract_entry(text[n])]
           entries == Entries(text)
<1>1. Len(text) \in Nat /\ DOMAIN text = 1..Len(text) /\ \A n \in 1..Len(text) : text[n] \in S
  BY DEF IsText
<1>2. ASSUME NEW n \in 1..Len(text) PROVE extract_entry(text[n]) \in Seq(S)
  <2>1. text[n] \in S
    BY <1>1
  <2> HIDE DEF S
  <2>2. QED BY <2>1 DEF extract_entry
<1>3. seqs \in Seq(Seq(S))
  <2>1. seqs = [n \in 1..Len(text) |-> extract_entry(text[n])]
    BY <1>1
  <2> HIDE DEF seqs, S
  <2>2. QED BY <1>1, <1>2, <2>1
<1>4. entries \in Seq(S)
  <2>1. entries = FlattenSeq(seqs)
    BY DEF Entries
  <2> HIDE DEF seqs, S, entries
  <2>2. QED BY <1>3, <2>1, FlattenType
<1>5. \A s \in S : collect_instructions(s.body) \in Seq(Statements)
  <2>1. \A s \in S : s.body \in Seq(Statements)
    BY DEF IsText
  <2>2. QED BY <2>1, CollectType
<1> HIDE DEF S, entries
<1>6. QED BY <1>4, <1>5 DEF entries

PtxKind == {"Gemm", "Dma", "Emu", "Arith"}

\* Every instruction has an op, of one of four kinds.
LEMMA LoweredFacts ==
  ASSUME NEW inst
  PROVE  IsOp(Lowered(inst)) /\ Lowered(inst).kind \in PtxKind
<1> DEFINE IsPtxOp(op) == IsOp(op) /\ op.kind \in PtxKind
<1>1. ASSUME NEW n \in Nat PROVE IsPtxOp(Emulated(n))
  BY DEF Emulated, Op, IsOp, OpKind, PtxKind
<1>2. ASSUME NEW d PROVE IsPtxOp([Op("Arith", <<>>, <<>>) EXCEPT !.dtype = d])
  BY DEF Op, IsOp, OpKind, PtxKind
<1>3. ASSUME NEW d PROVE IsPtxOp([Op("Gemm", mma_shape, <<>>) EXCEPT !.dtype = d])
  BY DEF Op, IsOp, OpKind, PtxKind
<1>4. ASSUME NEW b PROVE IsPtxOp(Op("Dma", <<0, 0, b>>, <<>>))
  BY DEF Op, IsOp, OpKind, PtxKind
<1>5. ASSUME inst.name \in DOMAIN BitOpcode PROVE BitOpcode[inst.name] \in Nat
  BY <1>5 DEF BitOpcode
<1>6. ASSUME inst.name \in DOMAIN TranscendentalOpcode PROVE TranscendentalOpcode[inst.name] \in Nat
  BY <1>6 DEF TranscendentalOpcode
<1>7. IsPtxOp(Emulated(254)) /\ IsPtxOp(Emulated(UnknownOpcode))
  BY <1>1 DEF UnknownOpcode
<1> HIDE DEF IsPtxOp
<1>8. inst.name \in DOMAIN BitOpcode => IsPtxOp(Emulated(BitOpcode[inst.name]))
  BY <1>1, <1>5
<1>9. inst.name \in DOMAIN TranscendentalOpcode =>
        IsPtxOp(Emulated(TranscendentalOpcode[inst.name]))
  BY <1>1, <1>6
<1>10. IsPtxOp(Lowered(inst))
  <2> DEFINE d1 == [Op("Arith", <<>>, <<>>) EXCEPT !.dtype = dtype_via_debug(inst.types)]
             d2 == Op("Dma", <<0, 0, bytes_via_debug(inst.types)>>, <<>>)
             d3 == [Op("Gemm", mma_shape, <<>>) EXCEPT !.dtype = mma_dtype(inst.types)]
             d4 == Emulated(BitOpcode[inst.name])
             d5 == Emulated(TranscendentalOpcode[inst.name])
             d6 == Emulated(254)
             d7 == Emulated(UnknownOpcode)
  <2>1. IsPtxOp(d1) /\ IsPtxOp(d2) /\ IsPtxOp(d3) /\ IsPtxOp(d6) /\ IsPtxOp(d7)
    BY <1>2, <1>3, <1>4, <1>7
  <2>2. /\ inst.name \in DOMAIN BitOpcode => IsPtxOp(d4)
        /\ inst.name \in DOMAIN TranscendentalOpcode => IsPtxOp(d5)
    BY <1>8, <1>9
  <2>3. Lowered(inst) = CASE inst.name \in ArithKind -> d1
                          [] inst.name \in DOMAIN BitOpcode -> d4
                          [] inst.name \in DOMAIN TranscendentalOpcode -> d5
                          [] inst.name \in {"Ld", "St"} -> d2
                          [] inst.name = "Mma" -> d3
                          [] inst.name \in ControlInst -> d6
                          [] OTHER -> d7
    BY DEF Lowered
  <2> HIDE DEF d1, d2, d3, d4, d5, d6, d7
  <2>4. QED BY <2>1, <2>2, <2>3
<1>11. QED BY <1>10 DEF IsPtxOp

\* A lowered function: an op for each of n instructions, and no edges.
IsKernel(f, n) ==
  /\ WellFormed(f) /\ f.edges = {} /\ Cardinality(Ids(f)) = n
  /\ \A id \in Ids(f) : f.ops[id].kind \in PtxKind

LEMMA LoweringFacts ==
  ASSUME NEW first \in Nat, NEW name, NEW insts, Len(insts) \in Nat, DOMAIN insts = 1..Len(insts)
  PROVE  LET f == Lowering(first, name, insts)
         IN  IsKernel(f, Len(insts)) /\ Len(f.order) \in Nat
<1> DEFINE f == Lowering(first, name, insts)
           N == Len(insts)
           ops == [n \in DOMAIN insts |-> Lowered(insts[n])]
           hints == [n \in DOMAIN ops |-> HintOf(name, n, ops[n])]
           ids == first..(first + N - 1)
           table == [id \in ids |-> ops[id - first + 1]]
           meta == [id \in ids |-> [DefaultMeta EXCEPT !.source_hint = hints[id - first + 1]]]
           order == [k \in 1..N |-> first + k - 1]
<1>1. Len(ops) = N /\ N \in Nat /\ \A n \in 1..N : ops[n] = Lowered(insts[n])
  <2>1. DOMAIN ops = 1..N /\ \A n \in 1..N : ops[n] = Lowered(insts[n])
    OBVIOUS
  <2>2. ops = [n \in 1..N |-> Lowered(insts[n])]
    OBVIOUS
  <2> HIDE DEF ops
  <2>3. QED BY <2>1, <2>2
<1>2. f = [name |-> name, ops |-> table, meta |-> meta, edges |-> {}, order |-> order]
  <2>1. f = Build(name, first, ops, {}, hints)
    BY DEF Lowering
  <2> HIDE DEF ops, hints
  <2>2. QED BY <1>1, <2>1 DEF Build
<1> HIDE DEF f, ops, hints
<1>3. Ids(f) = ids /\ f.ops = table /\ f.meta = meta /\ f.edges = {} /\ f.order = order
  <2> HIDE DEF table, meta, order
  <2>1. f.ops = table /\ f.meta = meta /\ f.edges = {} /\ f.order = order
    BY <1>2
  <2>2. DOMAIN table = ids
    BY DEF table
  <2>3. QED BY <2>1, <2>2 DEF Ids
<1>4. \A id \in ids : id - first + 1 \in 1..N
  BY <1>1
<1>5. ASSUME NEW id \in ids PROVE IsOp(table[id]) /\ table[id].kind \in PtxKind /\ IsMeta(meta[id])
  <2>1. table[id] = Lowered(insts[id - first + 1])
    BY <1>1, <1>4
  <2>2. meta[id] = [DefaultMeta EXCEPT !.source_hint = hints[id - first + 1]]
    OBVIOUS
  <2>3. \A h : IsMeta([DefaultMeta EXCEPT !.source_hint = h])
    BY DEF DefaultMeta, IsMeta
  <2>4. QED BY <2>1, <2>2, <2>3, LoweredFacts
<1>6. IsFiniteSet(ids) /\ Cardinality(ids) = N /\ ids \in SUBSET Nat
  <2>1. ASSUME NEW b \in Int, b = first + N - 1
        PROVE  IsFiniteSet(ids) /\ Cardinality(ids) = N
    <3>1. first \in Int /\ b \in Int /\ ids = first..b
      BY <2>1
    <3> HIDE DEF ids
    <3>2. /\ IsFiniteSet(first..b)
          /\ Cardinality(first..b) = IF first > b THEN 0 ELSE b - first + 1
      BY <3>1, FS_Interval
    <3>3. (IF first > b THEN 0 ELSE b - first + 1) = N
      BY <1>1, <2>1
    <3>4. QED BY <3>1, <3>2, <3>3
  <2>2. PICK b \in Int : b = first + N - 1
    <3>1. N \in Nat
      BY <1>1
    <3> HIDE DEF N
    <3>2. first + N - 1 \in Int
      BY <3>1
    <3>3. QED BY <3>2
  <2>3. ids \in SUBSET Nat
    OBVIOUS
  <2> HIDE DEF ids
  <2>4. QED BY <2>1, <2>2, <2>3
<1>7. Len(order) \in Nat
  BY <1>1
<1>8. IsFiniteSet({})
  BY FS_EmptySet
<1>9. /\ DOMAIN table = ids /\ table = [id \in ids |-> table[id]] /\ meta = [id \in ids |-> meta[id]]
  OBVIOUS
<1> HIDE DEF table, meta, order, ids
<1>10. f = [name |-> f.name, ops |-> f.ops, meta |-> f.meta, edges |-> f.edges, order |-> f.order]
  BY <1>2
<1>11. WellFormed(f)
  BY <1>3, <1>5, <1>6, <1>8, <1>9, <1>10 DEF WellFormed
<1>12. QED BY <1>3, <1>5, <1>6, <1>7, <1>9, <1>11 DEF IsKernel, f

\* The module of a text: a function for each kernel, an op for each instruction.
IsLowered(m, text) ==
  /\ Len(m) = Len(Entries(text)) /\ m = [k \in 1..Len(m) |-> m[k]]
  /\ \A k \in 1..Len(m) :
       IsKernel(m[k], Len(collect_instructions(Entries(text)[k].body)))

LEMMA LowerFacts ==
  ASSUME NEW text, IsText(text)
  PROVE  LET m == lower_to_slugir(text)
         IN  IsLowered(m, text) /\ \A k \in 1..Len(m) : Len(m[k].order) \in Nat
<1> DEFINE entries == Entries(text)
           N == Len(entries)
           Insts(n) == collect_instructions(entries[n].body)
           Counts(h) == h = [n \in 0..N |-> IF n = 0 THEN 0 ELSE h[n - 1] + Len(Insts(n))]
           first == CHOOSE h : Counts(h)
           m == lower_to_slugir(text)
<1>1. N \in Nat /\ DOMAIN entries = 1..N
  BY EntriesType
<1>2. ASSUME NEW n \in 1..N
      PROVE  Insts(n) \in Seq(Statements) /\ Len(Insts(n)) \in Nat
             /\ DOMAIN Insts(n) = 1..Len(Insts(n))
  <2>1. Insts(n) \in Seq(Statements)
    BY <1>1, EntriesType
  <2> HIDE DEF Insts
  <2>2. QED BY <2>1
<1>3. m = [n \in DOMAIN entries |-> LowerEntry(first[n - 1], entries[n])]
  BY DEF lower_to_slugir
<1>4. \A n \in 1..N : LowerEntry(first[n - 1], entries[n]) = Lowering(first[n - 1], entries[n].name, Insts(n))
  BY DEF LowerEntry
<1> HIDE DEF N, entries, Insts, m
<1>5. \E g : Counts(g)
  <2> DEFINE term == [n \in 1..N |-> Len(Insts(n))]
  <2>1. term \in [1..N -> Nat]
    BY <1>2
  <2>2. PICK g \in [0..N -> Nat] : g[0] = 0 /\ \A n \in 1..N : g[n] = g[n - 1] + term[n]
    <3> HIDE DEF term
    <3>1. QED BY <1>1, <2>1, Summation
  <2>3. \A n \in 0..N : n # 0 => n \in 1..N
    BY <1>1
  <2>4. Counts(g)
    BY <2>2, <2>3
  <2>5. QED BY <2>4
<1>6. Counts(first)
  <2> HIDE DEF Counts
  <2>1. QED BY <1>5
<1> HIDE DEF first
<1> DEFINE T == {n \in 0..N : first[n] \in Nat}
<1>7. 0 \in T
  BY <1>1, <1>6
<1>8. ASSUME NEW n \in 1..N, n - 1 \in T PROVE n \in T
  <2>1. first[n] = first[n - 1] + Len(Insts(n))
    BY <1>1, <1>6
  <2>2. QED BY <1>1, <1>2, <1>8, <2>1
<1>9. \A n \in 1..N : first[n - 1] \in Nat
  <2> HIDE DEF T
  <2>1. 0..N \subseteq T
    BY <1>1, <1>7, <1>8, BoundedInduction
  <2>2. \A n \in 1..N : n - 1 \in 0..N
    BY <1>1
  <2>3. QED BY <2>1, <2>2 DEF T
<1>10. /\ Len(m) = N /\ m = [k \in 1..N |-> m[k]]
       /\ \A n \in 1..N : m[n] = Lowering(first[n - 1], entries[n].name, Insts(n))
  <2>1. m = [n \in 1..N |-> LowerEntry(first[n - 1], entries[n])]
    BY <1>1, <1>3
  <2>2. QED BY <1>1, <1>4, <2>1
<1>11. ASSUME NEW k \in 1..N PROVE IsKernel(m[k], Len(Insts(k))) /\ Len(m[k].order) \in Nat
  <2>1. LET f == Lowering(first[k - 1], entries[k].name, Insts(k))
        IN  IsKernel(f, Len(Insts(k))) /\ Len(f.order) \in Nat
    BY <1>2, <1>9, LoweringFacts
  <2>2. QED BY <1>10, <2>1
<1>12. QED BY <1>10, <1>11 DEF IsLowered, m, entries, N, Insts

(***************************************************************************)
(* Emitted streams                                                         *)
(***************************************************************************)
Policies == Catalog \cup {"SlugCxl4x4", "default_v1"}

LEMMA PickType ==
  ASSUME NEW p \in Policies, NEW op, IsOp(op)
  PROVE  Pick(p, op) \in Catalog \cup {"SlugCxl4x4"}
<1>1. op.kind \in OpKind
  BY DEF IsOp
<1>2. GemmTileIp(op.arg) \in Catalog
  BY DEF GemmTileIp, Catalog
<1>3. QED BY <1>1, <1>2 DEF Pick, Policies, Catalog, OpKind, StateKind

LEMMA BindType ==
  ASSUME NEW ip \in Catalog \cup {"SlugCxl4x4"}, NEW op, IsOp(op), Bind(ip, op) # NoBinding
  PROVE  ip \in Catalog /\ Bind(ip, op)[1].opcode \in Nat
<1>1. ASSUME NEW n, NEW t PROVE Start(n, t)[1].opcode = n
  BY DEF Start
<1>2. CASE ip = "PtxEmulationCore"
  <2>1. Bind(ip, op) = Start(IF op.kind = "Emu" THEN op.arg[1] ELSE 253, <<0>>)
    BY <1>2 DEF Bind, PtxEmulationBinding
  <2>2. (IF op.kind = "Emu" THEN op.arg[1] ELSE 253) \in Nat
    BY DEF IsOp
  <2>3. QED BY <1>1, <1>2, <2>1, <2>2 DEF Catalog
<1>3. CASE ip = "NoCMesh"
  <2>1. Bind(ip, op) = Start(0, op.arg)
    BY <1>3 DEF Bind, NoCMeshBinding
  <2>2. QED BY <1>1, <1>3, <2>1 DEF Catalog
<1>4. CASE ip \in {"SystolicArray4x4", "SystolicArray16x16", "SystolicArray32x32", "GemmIp"}
  <2>1. Bind(ip, op) = Start(1, <<NumElements(op.arg)>>)
    BY <1>4 DEF Bind, SystolicBinding, GemmIpBinding
  <2>2. QED BY <1>1, <1>4, <2>1 DEF Catalog
<1>5. CASE ip \in {"NpuArrayV4SeedG", "NpuClusterV4"}
  <2>1. op.kind \in StateKind /\ Bind(ip, op) = Start(NpuOpcode[op.kind], <<Len(op.operands)>>)
    BY <1>5 DEF Bind, NpuSeedGBinding, NpuClusterBinding
  <2>2. NpuOpcode[op.kind] \in Nat
    BY <2>1 DEF NpuOpcode, StateKind
  <2>3. QED BY <1>1, <1>5, <2>1, <2>2 DEF Catalog
<1>6. CASE ip = "SlugCxl4x4"
  BY <1>6 DEF Bind
<1>7. QED BY <1>2, <1>3, <1>4, <1>5, <1>6 DEF Catalog

\* What the passes have made of a function that can be dispatched.
Picked(f, p) == \A id \in Ids(f) : f.meta[id].backend = Pick(p, f.ops[id])
Ready(f, p) == WellFormed(f) /\ Tokened(f) /\ Picked(f, p)

LEMMA DispatchFacts ==
  ASSUME NEW p \in Policies, NEW f, Ready(f, p)
  PROVE  LET s == Dispatches(f, p)
         IN  /\ Len(s) = Len(f.order) /\ Len(f.order) \in Nat /\ DOMAIN s = 1..Len(s)
             /\ s = [c \in 1..Len(s) |-> s[c]]
             /\ \A c \in 1..Len(s) :
                  /\ s[c].token_out = c /\ s[c].token_in = f.meta[f.order[c]].token_in
                  /\ s[c].token_in \in 0..(c - 1)
             /\ WellTokened(s) /\ (~BindError(f) => IsStream(s))
<1> DEFINE s == Dispatches(f, p)
           N == Len(f.order)
<1>1. /\ N \in Nat /\ DOMAIN f.order = 1..N /\ \A k \in 1..N : f.order[k] \in Ids(f)
  <2>1. f.order \in Seq(Ids(f))
    BY DEF Ready, Tokened, Sorted
  <2>2. QED BY <2>1
<1>2. s = [c \in 1..N |-> Dispatch(f, f.order[c], p)]
  BY DEF Dispatches
<1> HIDE DEF s, N
<1>3. Len(s) = N /\ DOMAIN s = 1..Len(s) /\ s = [c \in 1..Len(s) |-> s[c]]
  BY <1>1, <1>2
<1>4. ASSUME NEW c \in 1..N
      PROVE  LET m == f.meta[f.order[c]]
             IN  /\ s[c].ip = m.backend /\ s[c].opcode = Bind(m.backend, f.ops[f.order[c]])[1].opcode
                 /\ s[c].token_in = m.token_in /\ s[c].token_out = c
                 /\ m.token_in \in 0..(c - 1)
  <2> DEFINE m == f.meta[f.order[c]]
  <2>1. m.token_out = c /\ m.token_in \in 0..(c - 1)
    BY <1>1 DEF Ready, Tokened, N
  <2>2. OrZero(m.token_in) = m.token_in /\ OrZero(m.token_out) = c
    BY <1>1, <2>1 DEF OrZero, NoToken
  <2>3. s[c] = Dispatch(f, f.order[c], p)
    BY <1>2
  <2>4. QED BY <2>1, <2>2, <2>3 DEF Dispatch
<1>5. \A c \in 1..Len(s) : /\ s[c].token_out = c /\ s[c].token_in = f.meta[f.order[c]].token_in
                           /\ s[c].token_in \in 0..(c - 1)
  BY <1>3, <1>4
<1>6. WellTokened(s)
  <2>1. ASSUME NEW c \in 1..Len(s), s[c].token_in # 0
        PROVE  \E b \in 1..(c - 1) : s[b].token_out = s[c].token_in
    <3>1. s[c].token_in \in 1..(c - 1) /\ s[c].token_in \in 1..Len(s)
      BY <1>1, <1>3, <1>5, <2>1
    <3>2. QED BY <1>5, <3>1
  <2>2. QED BY <2>1 DEF WellTokened
<1>7. ASSUME ~BindError(f) PROVE IsStream(s)
  <2>1. ASSUME NEW c \in 1..N PROVE DispatchCmd(s[c])
    <3> DEFINE id == f.order[c]
               ip == f.meta[id].backend
    <3>1. id \in Ids(f) /\ IsOp(f.ops[id])
      BY <1>1 DEF Ready, WellFormed, Ids
    <3>2. ip = Pick(p, f.ops[id])
      BY <3>1 DEF Ready, Picked
    <3>3. ip \in Catalog \cup {"SlugCxl4x4"}
      BY <3>1, <3>2, PickType
    <3>4. Bind(ip, f.ops[id]) # NoBinding
      BY <1>7, <3>1 DEF BindError, Ids
    <3>5. ip \in Catalog /\ Bind(ip, f.ops[id])[1].opcode \in Nat
      <4> HIDE DEF ip, id
      <4>1. QED BY <3>1, <3>3, <3>4, BindType
    <3>6. s[c].ip \in Rtl \cup Cpu /\ s[c].opcode \in Nat
      BY <1>4, <3>5, WorkAssumption
    <3>7. s[c].token_in \in Nat /\ s[c].token_out \in Nat
      BY <1>1, <1>3, <1>5
    <3>8. QED BY <3>6, <3>7 DEF DispatchCmd
  <2>2. QED BY <1>1, <1>3, <2>1 DEF IsStream
<1>8. QED BY <1>1, <1>3, <1>5, <1>6, <1>7 DEF s, N

LEMMA StreamsJoin ==
  ASSUME NEW S, NEW s \in Seq(S), NEW u \in Seq(S), WellTokened(s), WellTokened(u)
  PROVE  /\ WellTokened(s \o u) /\ (IsStream(s) /\ IsStream(u) => IsStream(s \o u))
<1> DEFINE t == s \o u
<1>1. /\ Len(s) \in Nat /\ Len(u) \in Nat /\ t \in Seq(S) /\ Len(t) = Len(s) + Len(u)
      /\ t = [c \in 1..Len(t) |-> t[c]]
  <2>1. Len(s) \in Nat /\ Len(u) \in Nat /\ t \in Seq(S) /\ Len(t) = Len(s) + Len(u)
    OBVIOUS
  <2> HIDE DEF t
  <2>2. QED BY <2>1
<1>2. \A c \in 1..Len(t) : c <= Len(s) => c \in 1..Len(s) /\ t[c] = s[c]
  BY <1>1
<1>3. \A c \in 1..Len(t) : c > Len(s) => c - Len(s) \in 1..Len(u) /\ t[c] = u[c - Len(s)]
  BY <1>1
<1> HIDE DEF t
<1>4. WellTokened(t)
  <2>1. ASSUME NEW c \in 1..Len(t), t[c].token_in # 0
        PROVE  \E b \in 1..(c - 1) : t[b].token_out = t[c].token_in
    <3>1. CASE c <= Len(s)
      <4>1. PICK b \in 1..(c - 1) : s[b].token_out = s[c].token_in
        BY <1>2, <2>1, <3>1 DEF WellTokened
      <4>2. b \in 1..Len(t) /\ b <= Len(s)
        BY <1>1, <3>1, <4>1
      <4>3. QED BY <1>2, <3>1, <4>1, <4>2
    <3>2. CASE c > Len(s)
      <4>1. c - Len(s) \in 1..Len(u) /\ t[c] = u[c - Len(s)]
        BY <1>3, <3>2
      <4>2. PICK b \in 1..((c - Len(s)) - 1) : u[b].token_out = t[c].token_in
        BY <2>1, <4>1 DEF WellTokened
      <4>3. /\ b + Len(s) \in 1..(c - 1) /\ b + Len(s) \in 1..Len(t)
            /\ b + Len(s) > Len(s) /\ (b + Len(s)) - Len(s) = b
        BY <1>1, <3>2, <4>1, <4>2
      <4>4. t[b + Len(s)] = u[b]
        BY <1>3, <4>3
      <4>5. QED BY <4>2, <4>3, <4>4
    <3>3. QED BY <1>1, <3>1, <3>2
  <2>2. QED BY <2>1 DEF WellTokened
<1>5. ASSUME IsStream(s), IsStream(u) PROVE IsStream(t)
  <2>1. ASSUME NEW c \in 1..Len(t) PROVE DispatchCmd(t[c])
    <3>1. c <= Len(s) \/ c > Len(s)
      BY <1>1
    <3>2. QED BY <1>2, <1>3, <1>5, <3>1 DEF IsStream
  <2>2. QED BY <1>1, <2>1 DEF IsStream
<1>6. QED BY <1>4, <1>5 DEF t

\* The commands of a module, function after function.
CmdsOf(m, p) == {Dispatches(m[n[1]], p)[n[2]] : n \in (1..Len(m)) \X Nat}

LEMMA DispatchSeqs ==
  ASSUME NEW p \in Policies, NEW m, Len(m) \in Nat, m = [k \in 1..Len(m) |-> m[k]],
         \A k \in 1..Len(m) : Ready(m[k], p)
  PROVE  LET seqs == [k \in DOMAIN m |-> Dispatches(m[k], p)]
         IN  /\ seqs \in Seq(Seq(CmdsOf(m, p))) /\ Len(seqs) = Len(m)
             /\ \A k \in 1..Len(m) : seqs[k] = Dispatches(m[k], p)
<1> DEFINE seqs == [k \in DOMAIN m |-> Dispatches(m[k], p)]
           S == CmdsOf(m, p)
<1>1. seqs = [k \in 1..Len(m) |-> Dispatches(m[k], p)]
  OBVIOUS
<1>2. ASSUME NEW k \in 1..Len(m) PROVE Dispatches(m[k], p) \in Seq(S)
  <2> DEFINE s == Dispatches(m[k], p)
  <2>1. Len(s) \in Nat /\ s = [c \in 1..Len(s) |-> s[c]]
    BY DispatchFacts
  <2>2. ASSUME NEW c \in 1..Len(s) PROVE s[c] \in S
    <3>1. <<k, c>> \in (1..Len(m)) \X Nat
      BY <2>1
    <3>2. s[c] = Dispatches(m[<<k, c>>[1]], p)[<<k, c>>[2]]
      OBVIOUS
    <3> HIDE DEF s
    <3>3. QED BY <3>1, <3>2 DEF CmdsOf
  <2> HIDE DEF s, S
  <2>3. s \in Seq(S)
    BY <2>1, <2>2
  <2>4. QED BY <2>3 DEF s
<1> HIDE DEF seqs, S
<1>3. seqs \in Seq(Seq(S)) /\ Len(seqs) = Len(m) /\ \A k \in 1..Len(m) : seqs[k] = Dispatches(m[k], p)
  BY <1>1, <1>2
<1>4. QED BY <1>3 DEF seqs, S

\* What a module with good functions compiles to: a stream whose tokens are
\* produced before they are waited for, although each function counts from 1.
LEMMA EmitFacts ==
  ASSUME NEW p \in Policies, NEW m, Len(m) \in Nat, m = [k \in 1..Len(m) |-> m[k]],
         \A k \in 1..Len(m) : Ready(m[k], p)
  PROVE  LET s == emit_dispatches(m, p)
         IN  /\ WellTokened(s)
             /\ (\A k \in 1..Len(m) : ~BindError(m[k])) => IsStream(s)
             /\ Len(m) = 1 => s = Dispatches(m[1], p)
<1> DEFINE seqs == [k \in DOMAIN m |-> Dispatches(m[k], p)]
           S == CmdsOf(m, p)
           N == Len(m)
           Bindable == \A k \in 1..N : ~BindError(m[k])
<1>1. /\ seqs \in Seq(Seq(S)) /\ Len(seqs) = N /\ N \in Nat
      /\ \A k \in 1..N : seqs[k] = Dispatches(m[k], p) /\ seqs[k] \in Seq(S)
  <2>1. seqs \in Seq(Seq(S)) /\ Len(seqs) = N /\ \A k \in 1..N : seqs[k] = Dispatches(m[k], p)
    BY DispatchSeqs
  <2> HIDE DEF seqs, S
  <2>2. QED BY <2>1
<1>2. emit_dispatches(m, p) = FlattenSeq(seqs)
  BY DEF emit_dispatches
<1> HIDE DEF seqs, S
<1>3. \A k \in 1..N : /\ WellTokened(seqs[k])
                      /\ Bindable => IsStream(seqs[k])
  BY <1>1, DispatchFacts
<1>4. PICK fl : Flattens(fl, seqs, S)
  BY <1>1, FlattenSteps
<1>5. /\ fl \in [0..N -> Seq(S)] /\ fl[0] = <<>> /\ FlattenSeq(seqs) = fl[N]
      /\ \A n \in 1..N : fl[n] = fl[n - 1] \o seqs[n]
  BY <1>1, <1>4 DEF Flattens
<1> DEFINE T == {n \in 0..N : WellTokened(fl[n]) /\ (Bindable => IsStream(fl[n]))}
<1> HIDE DEF N, Bindable
<1>6. 0 \in T
  <2>1. WellTokened(<<>>) /\ IsStream(<<>>)
    BY DEF WellTokened, IsStream
  <2>2. QED BY <1>1, <1>5, <2>1
<1>7. ASSUME NEW n \in 1..N, n - 1 \in T PROVE n \in T
  <2>1. fl[n - 1] \in Seq(S) /\ seqs[n] \in Seq(S) /\ n \in 0..N
    BY <1>1, <1>5
  <2>2. WellTokened(fl[n - 1]) /\ (Bindable => IsStream(fl[n - 1]))
    BY <1>7
  <2>3. WellTokened(seqs[n]) /\ (Bindable => IsStream(seqs[n]))
    BY <1>3
  <2>4. /\ WellTokened(fl[n - 1] \o seqs[n])
        /\ IsStream(fl[n - 1]) /\ IsStream(seqs[n]) => IsStream(fl[n - 1] \o seqs[n])
    BY <2>1, <2>2, <2>3, StreamsJoin
  <2>5. QED BY <1>5, <2>1, <2>2, <2>3, <2>4
<1>8. N \in T
  <2> HIDE DEF T
  <2>1. 0..N \subseteq T
    BY <1>1, <1>6, <1>7, BoundedInduction
  <2>2. QED BY <1>1, <2>1
<1>9. N = 1 => fl[N] = Dispatches(m[1], p)
  <2> SUFFICES ASSUME N = 1 PROVE fl[1] = Dispatches(m[1], p)
    OBVIOUS
  <2>1. 1 - 1 = 0 /\ 1 \in 1..N
    OBVIOUS
  <2>2. fl[1] = <<>> \o seqs[1] /\ seqs[1] \in Seq(S)
    BY <1>1, <1>5, <2>1
  <2>3. fl[1] = seqs[1]
    BY <2>2
  <2>4. QED BY <1>1, <2>1, <2>3
<1>10. QED BY <1>2, <1>5, <1>8, <1>9 DEF N, Bindable

(***************************************************************************)
(* Counting on the tree                                                    *)
(***************************************************************************)
\* The partial sums of numbers.
IsSum(f, N, terms) ==
  f \in [0..N -> Nat] /\ f[0] = 0 /\ \A n \in 1..N : f[n] = f[n - 1] + terms[n]

LEMMA SumIs ==
  ASSUME NEW N \in Nat, NEW terms \in [1..N -> Nat], NEW f, IsSum(f, N, terms)
  PROVE  SumSeq(terms) = f[N]
<1> DEFINE Sums(h) == h = [n \in 0..Len(terms) |-> IF n = 0 THEN 0 ELSE h[n - 1] + terms[n]]
           sum == CHOOSE h : Sums(h)
<1>1. Len(terms) = N
  OBVIOUS
<1>2. f \in [0..N -> Nat] /\ f[0] = 0 /\ \A n \in 1..N : f[n] = f[n - 1] + terms[n]
  BY DEF IsSum
<1>3. Sums(f)
  <2>1. \A n \in 0..N : n # 0 => n \in 1..N
    OBVIOUS
  <2>2. QED BY <1>1, <1>2, <2>1
<1>4. Sums(sum)
  <2> HIDE DEF Sums
  <2>1. QED BY <1>3
<1>5. SumSeq(terms) = sum[N]
  BY <1>1 DEF SumSeq
<1> HIDE DEF sum
<1> DEFINE T == {n \in 0..N : sum[n] = f[n]}
<1>6. 0 \in T
  BY <1>1, <1>2, <1>4
<1>7. ASSUME NEW n \in 1..N, n - 1 \in T PROVE n \in T
  <2>1. n \in 0..N /\ n # 0
    OBVIOUS
  <2>2. sum[n] = sum[n - 1] + terms[n]
    BY <1>1, <1>4, <2>1
  <2>3. QED BY <1>2, <1>7, <2>1, <2>2
<1>8. N \in T
  <2> HIDE DEF T
  <2>1. 0..N \subseteq T
    BY <1>6, <1>7, BoundedInduction
  <2>2. QED BY <2>1
<1>9. QED BY <1>5, <1>8

LEMMA SumSteps ==
  ASSUME NEW N \in Nat, NEW terms \in [1..N -> Nat]
  PROVE  \E f : IsSum(f, N, terms) /\ SumSeq(terms) = f[N]
<1>1. PICK f \in [0..N -> Nat] : f[0] = 0 /\ \A n \in 1..N : f[n] = f[n - 1] + terms[n]
  BY Summation
<1>2. IsSum(f, N, terms)
  BY <1>1 DEF IsSum
<1>3. QED BY <1>2, SumIs

\* Ones add up to their number.
LEMMA SumOfOnes ==
  ASSUME NEW N \in Nat, NEW terms \in [1..N -> Nat], \A n \in 1..N : terms[n] = 1
  PROVE  SumSeq(terms) = N
<1> DEFINE f == [n \in 0..N |-> n]
<1>1. IsSum(f, N, terms)
  BY DEF IsSum
<1>2. f[N] = N
  OBVIOUS
<1> HIDE DEF f
<1>3. QED BY <1>1, <1>2, SumIs

LEMMA WeighTerms ==
  ASSUME NEW S, NEW w \in [S -> Nat], NEW q \in Seq(S)
  PROVE  /\ Len(q) \in Nat /\ [n \in DOMAIN q |-> w[q[n]]] \in [1..Len(q) -> Nat]
         /\ \A n \in 1..Len(q) : [m \in DOMAIN q |-> w[q[m]]][n] = w[q[n]]
         /\ Weigh(w, q) \in Nat
<1> DEFINE terms == [n \in DOMAIN q |-> w[q[n]]]
<1>1. Len(q) \in Nat /\ DOMAIN q = 1..Len(q) /\ \A n \in 1..Len(q) : w[q[n]] \in Nat
  OBVIOUS
<1>2. terms \in [1..Len(q) -> Nat] /\ \A n \in 1..Len(q) : terms[n] = w[q[n]]
  BY <1>1
<1>3. Weigh(w, q) = SumSeq(terms)
  BY DEF Weigh
<1> HIDE DEF terms
<1>4. PICK f : IsSum(f, Len(q), terms) /\ SumSeq(terms) = f[Len(q)]
  BY <1>1, <1>2, SumSteps
<1>5. Weigh(w, q) \in Nat
  BY <1>1, <1>3, <1>4 DEF IsSum
<1>6. QED BY <1>1, <1>2, <1>5 DEF terms

LEMMA WeighConcat ==
  ASSUME NEW S, NEW w \in [S -> Nat], NEW p \in Seq(S), NEW q \in Seq(S)
  PROVE  Weigh(w, p \o q) = Weigh(w, p) + Weigh(w, q)
<1> DEFINE Terms(s) == [n \in DOMAIN s |-> w[s[n]]]
           A == Len(p)
           B == Len(q)
<1>1. /\ A \in Nat /\ B \in Nat /\ p \o q \in Seq(S) /\ Len(p \o q) = A + B
      /\ \A n \in 1..A : (p \o q)[n] = p[n]
      /\ \A n \in 1..B : (p \o q)[A + n] = q[n]
  OBVIOUS
<1>2. /\ Terms(p) \in [1..A -> Nat] /\ \A n \in 1..A : Terms(p)[n] = w[p[n]]
      /\ Terms(q) \in [1..B -> Nat] /\ \A n \in 1..B : Terms(q)[n] = w[q[n]]
      /\ Terms(p \o q) \in [1..A + B -> Nat] /\ \A n \in 1..A + B : Terms(p \o q)[n] = w[(p \o q)[n]]
  <2>1. \A s \in Seq(S) : /\ Terms(s) \in [1..Len(s) -> Nat]
                          /\ \A n \in 1..Len(s) : Terms(s)[n] = w[s[n]]
    BY WeighTerms
  <2> HIDE DEF Terms
  <2>2. QED BY <1>1, <2>1
<1>3. Weigh(w, p) = SumSeq(Terms(p)) /\ Weigh(w, q) = SumSeq(Terms(q))
      /\ Weigh(w, p \o q) = SumSeq(Terms(p \o q))
  BY DEF Weigh
<1>a. PICK u : u = p \o q
  OBVIOUS
<1> HIDE DEF Terms, A, B
<1>4. PICK f : IsSum(f, A, Terms(p)) /\ SumSeq(Terms(p)) = f[A]
  BY <1>1, <1>2, SumSteps
<1>5. PICK g : IsSum(g, B, Terms(q)) /\ SumSeq(Terms(q)) = g[B]
  BY <1>1, <1>2, SumSteps
<1>6. /\ f \in [0..A -> Nat] /\ f[0] = 0 /\ \A n \in 1..A : f[n] = f[n - 1] + w[p[n]]
      /\ g \in [0..B -> Nat] /\ g[0] = 0 /\ \A n \in 1..B : g[n] = g[n - 1] + w[q[n]]
  BY <1>2, <1>4, <1>5 DEF IsSum
<1> DEFINE h == [n \in 0..A + B |-> IF n <= A THEN f[n] ELSE f[A] + g[n - A]]
<1>7. h \in [0..A + B -> Nat] /\ h[0] = 0
  <2>1. ASSUME NEW n \in 0..A + B PROVE h[n] \in Nat
    <3>1. CASE n <= A
      <4>1. n \in 0..A
        BY <1>1, <3>1
      <4>2. QED BY <1>6, <3>1, <4>1
    <3>2. CASE ~(n <= A)
      <4>1. n - A \in 0..B /\ A \in 0..A
        BY <1>1, <3>2
      <4>2. f[A] \in Nat /\ g[n - A] \in Nat
        BY <1>6, <4>1
      <4>3. QED BY <3>2, <4>2
    <3>3. QED BY <3>1, <3>2
  <2>2. 0 \in 0..A + B /\ 0 <= A
    BY <1>1
  <2>3. h = [n \in 0..A + B |-> h[n]] /\ h[0] = 0
    BY <1>6, <2>2
  <2> HIDE DEF h
  <2>4. QED BY <2>1, <2>3
<1>8. ASSUME NEW n \in 1..A + B PROVE h[n] = h[n - 1] + w[u[n]]
  <2>1. n \in 0..A + B /\ n - 1 \in 0..A + B
    BY <1>1
  <2>2. CASE n <= A
    <3>1. n \in 1..A /\ n - 1 <= A
      BY <1>1, <2>2
    <3>2. h[n] = f[n] /\ h[n - 1] = f[n - 1]
      BY <2>1, <2>2, <3>1
    <3>3. u[n] = p[n]
      BY <1>1, <1>a, <3>1
    <3> HIDE DEF h
    <3>4. QED BY <1>6, <3>1, <3>2, <3>3
  <2>3. CASE ~(n <= A)
    <3>1. n - A \in 1..B /\ n = A + (n - A)
      BY <1>1, <2>3
    <3>2. h[n] = f[A] + g[n - A]
      BY <2>1, <2>3
    <3>3. h[n - 1] = f[A] + g[(n - A) - 1]
      <4>1. CASE n - 1 <= A
        <5>1. n - 1 = A /\ (n - A) - 1 = 0
          BY <1>1, <2>3, <4>1
        <5>2. h[n - 1] = f[A] /\ f[A] \in Nat
          BY <1>1, <1>6, <2>1, <5>1
        <5>3. QED BY <1>6, <5>1, <5>2
      <4>2. CASE ~(n - 1 <= A)
        <5>1. (n - 1) - A = (n - A) - 1
          BY <1>1
        <5>2. QED BY <2>1, <4>2, <5>1
      <4>3. QED BY <4>1, <4>2
    <3>4. u[n] = q[n - A]
      BY <1>1, <1>a, <3>1
    <3>5. g[n - A] = g[(n - A) - 1] + w[q[n - A]]
      BY <1>6, <3>1
    <3>6. f[A] \in Nat /\ g[(n - A) - 1] \in Nat /\ w[q[n - A]] \in Nat
      <4>1. A \in 0..A /\ (n - A) - 1 \in 0..B
        BY <1>1, <3>1
      <4>2. q[n - A] \in S
        BY <3>1 DEF B
      <4>3. QED BY <1>6, <4>1, <4>2
    <3> HIDE DEF h
    <3>7. QED BY <3>2, <3>3, <3>4, <3>5, <3>6
  <2>4. QED BY <2>2, <2>3
<1>9. h[A + B] = f[A] + g[B]
  <2>1. A + B \in 0..A + B /\ A \in 0..A /\ B \in 0..B
    BY <1>1
  <2>2. f[A] \in Nat /\ g[B] \in Nat
    BY <1>6, <2>1
  <2>3. CASE A + B <= A
    <3>1. B = 0 /\ A + B = A
      BY <1>1, <2>3
    <3>2. QED BY <1>6, <2>1, <2>2, <3>1
  <2>4. CASE ~(A + B <= A)
    <3>1. (A + B) - A = B
      BY <1>1
    <3>2. QED BY <2>1, <2>4, <3>1
  <2>5. QED BY <2>3, <2>4
<1> HIDE DEF h
<1>10. IsSum(h, A + B, Terms(p \o q))
  BY <1>2, <1>7, <1>8, <1>a DEF IsSum
<1>11. SumSeq(Terms(p \o q)) = h[A + B]
  <2>1. A + B \in Nat
    BY <1>1
  <2>2. QED BY <1>2, <1>10, <2>1, SumIs
<1>12. QED BY <1>3, <1>4, <1>5, <1>9, <1>11

\* What is put together weighs as much as its parts.
LEMMA WeighFlatten ==
  ASSUME NEW S, NEW w \in [S -> Nat], NEW seqs \in Seq(Seq(S)),
         NEW terms \in [1..Len(seqs) -> Nat], \A n \in 1..Len(seqs) : terms[n] = Weigh(w, seqs[n])
  PROVE  SumSeq(terms) = Weigh(w, FlattenSeq(seqs))
<1>1. PICK fl : Flattens(fl, seqs, S)
  BY FlattenSteps
<1>2. /\ fl \in [0..Len(seqs) -> Seq(S)] /\ fl[0] = <<>> /\ FlattenSeq(seqs) = fl[Len(seqs)]
      /\ \A n \in 1..Len(seqs) : fl[n] = fl[n - 1] \o seqs[n]
  BY <1>1 DEF Flattens
<1>3. PICK N \in Nat : N = Len(seqs)
  OBVIOUS
<1> DEFINE h == [n \in 0..N |-> Weigh(w, fl[n])]
<1>4. h \in [0..N -> Nat]
  BY <1>2, <1>3, WeighTerms
<1>5. h[0] = 0
  <2>1. PICK q : q = <<>>
    OBVIOUS
  <2>2. PICK t : t = [n \in DOMAIN q |-> w[q[n]]]
    OBVIOUS
  <2>3. t \in [1..0 -> Nat] /\ \A n \in 1..0 : t[n] = 1
    BY <2>1, <2>2
  <2>4. SumSeq(t) = 0
    BY <2>3, SumOfOnes
  <2>5. Weigh(w, q) = SumSeq(t)
    BY <2>2 DEF Weigh
  <2>6. QED BY <1>2, <1>3, <2>1, <2>4, <2>5
<1>6. ASSUME NEW n \in 1..N PROVE h[n] = h[n - 1] + terms[n]
  <2>1. n \in 0..N /\ n - 1 \in 0..N
    OBVIOUS
  <2>2. fl[n] = fl[n - 1] \o seqs[n]
    BY <1>2, <1>3
  <2>a. PICK p : p = fl[n - 1]
    OBVIOUS
  <2>b. PICK q : q = seqs[n]
    OBVIOUS
  <2>c. p \in Seq(S)
    BY <1>2, <1>3, <2>1, <2>a
  <2>d. q \in Seq(S)
    BY <1>3, <2>b
  <2>e. Weigh(w, p \o q) = Weigh(w, p) + Weigh(w, q)
    BY <2>c, <2>d, WeighConcat
  <2>3. Weigh(w, fl[n]) = Weigh(w, fl[n - 1]) + Weigh(w, seqs[n])
    BY <2>2, <2>a, <2>b, <2>e, Zenon
  <2>4. QED BY <1>3, <2>1, <2>3
<1>7. h[N] = Weigh(w, FlattenSeq(seqs))
  BY <1>2, <1>3
<1> HIDE DEF h
<1>8. IsSum(h, N, terms)
  BY <1>4, <1>5, <1>6 DEF IsSum
<1>9. QED BY <1>3, <1>7, <1>8, SumIs

\* The length of what is put together.
LEMMA FlattenLength ==
  ASSUME NEW S, NEW seqs \in Seq(Seq(S)), NEW terms \in [1..Len(seqs) -> Nat],
         \A n \in 1..Len(seqs) : terms[n] = Len(seqs[n])
  PROVE  Len(FlattenSeq(seqs)) = SumSeq(terms)
<1> DEFINE w == [s \in S |-> 1]
<1>1. w \in [S -> Nat] /\ \A s \in S : w[s] = 1
  OBVIOUS
<1> HIDE DEF w
<1>2. ASSUME NEW q \in Seq(S) PROVE Weigh(w, q) = Len(q)
  <2> DEFINE t == [n \in DOMAIN q |-> w[q[n]]]
  <2>1. Len(q) \in Nat /\ t \in [1..Len(q) -> Nat] /\ \A n \in 1..Len(q) : t[n] = 1
    BY <1>1, WeighTerms
  <2>2. Weigh(w, q) = SumSeq(t)
    BY DEF Weigh
  <2> HIDE DEF t
  <2>3. QED BY <2>1, <2>2, SumOfOnes
<1>3. \A n \in 1..Len(seqs) : terms[n] = Weigh(w, seqs[n])
  BY <1>2
<1>4. SumSeq(terms) = Weigh(w, FlattenSeq(seqs))
  BY <1>1, <1>3, WeighFlatten
<1>5. FlattenSeq(seqs) \in Seq(S)
  BY FlattenType
<1>6. QED BY <1>2, <1>4, <1>5

\* StatementCount, level by level.
LEMMA CountSteps ==
  /\ Levels \in Nat /\ \A d \in 0..Levels : StatementCount[d] \in [Statements -> Nat]
  /\ \A d \in 0..Levels, s \in Statements : s.kind = "Instruction" => StatementCount[d][s] = 1
  /\ \A d \in 1..Levels, s \in Statements :
       s.kind = "Block" => StatementCount[d][s] = Weigh(StatementCount[d - 1], s.body)
  /\ \A d \in 0..Levels, s \in Statements :
       s.kind \notin {"Instruction", "Block"} => StatementCount[d][s] = 0
<1> DEFINE W == [Statements -> Nat]
           none == [s \in Statements |-> 0]
           Counts(h) == h = [d \in 0..Levels |-> CountOver(IF d = 0 THEN none ELSE h[d - 1])]
           count == CHOOSE h : Counts(h)
           step == [p \in (1..Levels) \X W |-> CountOver(p[2])]
<1>1. Levels \in Nat
  BY StatementAssumption
<1>2. ASSUME NEW v \in W PROVE CountOver(v) \in W
  <2>1. ASSUME NEW s \in Statements, s.kind = "Block" PROVE Weigh(v, s.body) \in Nat
    BY <2>1, StatementAssumption, WeighTerms
  <2>2. QED BY <2>1 DEF CountOver
<1>3. none \in W
  OBVIOUS
<1>4. step \in StepFunctions(Levels, W)
  <2> HIDE DEF W
  <2>1. QED BY <1>2 DEF StepFunctions
<1>5. StatementCount = count
  BY DEF StatementCount
<1> HIDE DEF W, step, none
<1>6. PICK g : Unfolds(g, Levels, W, CountOver(none), step)
  BY <1>1, <1>2, <1>3, <1>4, Recursion
<1>7. Counts(g)
  <2>1. g \in [0..Levels -> W] /\ g[0] = CountOver(none)
    BY <1>6 DEF Unfolds
  <2>2. ASSUME NEW d \in 1..Levels PROVE g[d] = CountOver(g[d - 1])
    <3>1. g[d] = step[<<d, g[d - 1]>>]
      BY <1>6 DEF Unfolds
    <3>2. <<d, g[d - 1]>> \in (1..Levels) \X W
      BY <1>1, <2>1
    <3>3. QED BY <3>1, <3>2 DEF step
  <2>3. \A d \in 0..Levels : d # 0 => d \in 1..Levels
    BY <1>1
  <2>4. QED BY <2>1, <2>2, <2>3
<1>8. Counts(count)
  <2> HIDE DEF Counts
  <2>1. QED BY <1>7
<1> HIDE DEF count
<1>9. count[0] = CountOver(none) /\ \A d \in 1..Levels : count[d] = CountOver(count[d - 1])
  <2>1. \A d \in 1..Levels : d \in 0..Levels /\ d # 0
    BY <1>1
  <2>2. QED BY <1>1, <1>8, <2>1
<1> HIDE DEF Counts
<1> DEFINE T == {d \in 0..Levels : count[d] \in W}
<1>10. 0..Levels \subseteq T
  <2>1. 0 \in T
    BY <1>1, <1>2, <1>3, <1>9
  <2>2. ASSUME NEW d \in 1..Levels, d - 1 \in T PROVE d \in T
    <3>1. d \in 0..Levels /\ count[d - 1] \in W
      BY <1>1, <2>2
    <3>2. QED BY <1>2, <1>9, <3>1
  <2> HIDE DEF T
  <2>3. QED BY <1>1, <2>1, <2>2, BoundedInduction
<1>11. \A d \in 0..Levels : count[d] \in [Statements -> Nat]
  BY <1>10 DEF W
<1>12. ASSUME NEW d \in 0..Levels
       PROVE  /\ \A s \in Statements : s.kind = "Instruction" => count[d][s] = 1
              /\ \A s \in Statements : s.kind \notin {"Instruction", "Block"} => count[d][s] = 0
  <2>1. \A v : /\ \A s \in Statements : s.kind = "Instruction" => CountOver(v)[s] = 1
               /\ \A s \in Statements : s.kind \notin {"Instruction", "Block"} => CountOver(v)[s] = 0
    BY DEF CountOver
  <2>2. d = 0 \/ d \in 1..Levels
    BY <1>1
  <2>3. QED BY <1>9, <2>1, <2>2
<1>13. ASSUME NEW d \in 1..Levels, NEW s \in Statements, s.kind = "Block"
       PROVE  count[d][s] = Weigh(count[d - 1], s.body)
  <2>1. count[d] = CountOver(count[d - 1])
    BY <1>9
  <2>2. \A v : CountOver(v)[s] = Weigh(v, s.body)
    BY <1>13 DEF CountOver
  <2>3. QED BY <2>1, <2>2
<1>14. QED BY <1>1, <1>5, <1>11, <1>12, <1>13

\* Opening the blocks of a list keeps its count, one level less deep.
LEMMA OpenedCount ==
  ASSUME NEW d \in 1..Levels, NEW stmts \in Seq(Statements)
  PROVE  Weigh(StatementCount[d - 1], Opened(stmts)) = Weigh(StatementCount[d], stmts)
<1> DEFINE seqs == [n \in DOMAIN stmts |-> CASE stmts[n].kind = "Instruction" -> <<stmts[n]>>
                                             [] stmts[n].kind = "Block" -> stmts[n].body
                                             [] OTHER -> <<>>]
           terms == [n \in DOMAIN stmts |-> StatementCount[d][stmts[n]]]
<1>1. d \in 0..Levels /\ d - 1 \in 0..Levels
  BY CountSteps
<1>a. PICK v : v = StatementCount[d - 1]
  OBVIOUS
<1>2. v \in [Statements -> Nat] /\ StatementCount[d] \in [Statements -> Nat]
  BY <1>1, <1>a, CountSteps
<1>3. ASSUME NEW n \in 1..Len(stmts)
      PROVE  seqs[n] \in Seq(Statements) /\ Weigh(v, seqs[n]) = StatementCount[d][stmts[n]]
  <2>a. PICK s : s = stmts[n]
    OBVIOUS
  <2>1. s \in Statements /\ (s.kind = "Block" => s.body \in Seq(Statements))
    BY <2>a, StatementAssumption
  <2>2. CASE s.kind = "Instruction"
    <3>1. seqs[n] = <<s>>
      BY <2>a, <2>2
    <3>2. PICK q : q = <<s>>
      OBVIOUS
    <3>3. PICK t : t = [m \in DOMAIN q |-> v[q[m]]]
      OBVIOUS
    <3>4. v[s] = 1
      BY <1>1, <1>a, <2>1, <2>2, CountSteps
    <3>5. q \in Seq(Statements) /\ Len(q) = 1 /\ q[1] = s
      BY <2>1, <3>2
    <3>6. t \in [1..1 -> Nat] /\ \A m \in 1..1 : t[m] = 1
      BY <3>3, <3>4, <3>5
    <3>7. Weigh(v, q) = 1
      BY <3>3, <3>6, SumOfOnes DEF Weigh
    <3>8. StatementCount[d][s] = 1
      BY <1>1, <2>1, <2>2, CountSteps
    <3> HIDE DEF seqs
    <3>9. QED BY <2>a, <3>1, <3>2, <3>5, <3>7, <3>8
  <2>3. CASE s.kind = "Block"
    <3>1. seqs[n] = s.body
      BY <2>a, <2>3
    <3>2. StatementCount[d][s] = Weigh(v, s.body)
      BY <1>a, <2>1, <2>3, CountSteps
    <3> HIDE DEF seqs
    <3>3. QED BY <2>a, <2>1, <2>3, <3>1, <3>2
  <2>4. CASE s.kind \notin {"Instruction", "Block"}
    <3>1. PICK q : q = <<>>
      OBVIOUS
    <3>2. seqs[n] = q /\ q \in Seq(Statements)
      BY <2>a, <2>4, <3>1
    <3>3. PICK t : t = [m \in DOMAIN q |-> v[q[m]]]
      OBVIOUS
    <3>4. t \in [1..0 -> Nat] /\ \A m \in 1..0 : t[m] = 1
      BY <3>1, <3>3
    <3>5. Weigh(v, q) = 0
      BY <3>3, <3>4, SumOfOnes DEF Weigh
    <3>6. StatementCount[d][s] = 0
      BY <1>1, <2>1, <2>4, CountSteps
    <3> HIDE DEF seqs
    <3>7. QED BY <2>a, <3>2, <3>5, <3>6
  <2> HIDE DEF seqs
  <2>5. QED BY <2>2, <2>3, <2>4
<1>4. seqs = [n \in 1..Len(stmts) |-> seqs[n]] /\ Len(stmts) \in Nat
  OBVIOUS
<1>5. Opened(stmts) = FlattenSeq(seqs)
  BY DEF Opened
<1>6. terms \in [1..Len(stmts) -> Nat] /\ \A n \in 1..Len(stmts) : terms[n] = StatementCount[d][stmts[n]]
  BY <1>2, WeighTerms
<1>7. Weigh(StatementCount[d], stmts) = SumSeq(terms)
  BY DEF Weigh
<1> HIDE DEF seqs, terms
<1>8. seqs \in Seq(Seq(Statements)) /\ Len(seqs) = Len(stmts)
  BY <1>3, <1>4
<1>9. \A n \in 1..Len(seqs) : terms[n] = Weigh(v, seqs[n])
  BY <1>3, <1>6, <1>8
<1>10. SumSeq(terms) = Weigh(v, FlattenSeq(seqs))
  BY <1>2, <1>6, <1>8, <1>9, WeighFlatten
<1>11. QED BY <1>a, <1>5, <1>7, <1>10

\* collect_instructions returns as many statements as the tree has instructions.
LEMMA CollectCount ==
  ASSUME NEW stmts \in Seq(Statements),
         \A m \in DOMAIN collect_instructions(stmts) : collect_instructions(stmts)[m].kind = "Instruction"
  PROVE  Len(collect_instructions(stmts)) = Weigh(StatementCount[Levels], stmts)
<1>1. Levels \in Nat
  BY CountSteps
<1>2. PICK level : /\ collect_instructions(stmts) = level[Levels] /\ level[0] = stmts
                   /\ level \in [0..Levels -> Seq(Statements)]
                   /\ \A d \in 1..Levels : level[d] = Opened(level[d - 1])
  BY CollectSteps
<1> DEFINE T == {d \in 0..Levels :
                   Weigh(StatementCount[Levels - d], level[d]) = Weigh(StatementCount[Levels], stmts)}
<1>3. 0 \in T
  <2>1. Levels - 0 = Levels /\ 0 \in 0..Levels
    BY <1>1
  <2>2. QED BY <1>2, <2>1
<1>4. ASSUME NEW d \in 1..Levels, d - 1 \in T PROVE d \in T
  <2>1. PICK e : e = Levels - (d - 1)
    OBVIOUS
  <2>2. e \in 1..Levels /\ e - 1 = Levels - d /\ d \in 0..Levels /\ d - 1 \in 0..Levels
    BY <1>1, <2>1
  <2>3. level[d] = Opened(level[d - 1]) /\ level[d - 1] \in Seq(Statements)
    BY <1>2, <2>2
  <2>4. Weigh(StatementCount[e - 1], Opened(level[d - 1])) = Weigh(StatementCount[e], level[d - 1])
    BY <2>2, <2>3, OpenedCount
  <2>5. Weigh(StatementCount[e], level[d - 1]) = Weigh(StatementCount[Levels], stmts)
    BY <1>4, <2>1
  <2>6. QED BY <2>2, <2>3, <2>4, <2>5
<1>5. Levels \in T
  <2> HIDE DEF T
  <2>1. 0..Levels \subseteq T
    BY <1>1, <1>3, <1>4, BoundedInduction
  <2>2. QED BY <1>1, <2>1
<1>6. Weigh(StatementCount[0], level[Levels]) = Weigh(StatementCount[Levels], stmts)
  <2>1. Levels - Levels = 0
    BY <1>1
  <2>2. QED BY <1>5, <2>1
<1>7. PICK q : q = level[Levels]
  OBVIOUS
<1>8. q \in Seq(Statements) /\ \A m \in DOMAIN q : q[m].kind = "Instruction"
  BY <1>1, <1>2, <1>7
<1>9. PICK v : v = StatementCount[0]
  OBVIOUS
<1>10. v \in [Statements -> Nat] /\ \A s \in Statements : s.kind = "Instruction" => v[s] = 1
  BY <1>1, <1>9, CountSteps
<1>11. PICK t : t = [m \in DOMAIN q |-> v[q[m]]]
  OBVIOUS
<1>12. Len(q) \in Nat /\ t \in [1..Len(q) -> Nat] /\ \A m \in 1..Len(q) : t[m] = v[q[m]]
  BY <1>8, <1>10, <1>11, WeighTerms
<1>13. \A m \in 1..Len(q) : t[m] = 1
  BY <1>8, <1>10, <1>12
<1>14. SumSeq(t) = Len(q)
  BY <1>12, <1>13, SumOfOnes
<1>15. Weigh(v, q) = SumSeq(t)
  BY <1>11 DEF Weigh
<1>16. QED BY <1>2, <1>6, <1>7, <1>9, <1>14, <1>15

\* The kernels of a text have the instructions that the text has.
LEMMA EntriesCount ==
  ASSUME NEW text, IsText(text)
  PROVE  LET entries == Entries(text)
             count == [k \in 1..Len(entries) |-> Weigh(StatementCount[Levels], entries[k].body)]
         IN  /\ Len(entries) \in Nat /\ DOMAIN entries = 1..Len(entries)
             /\ \A k \in 1..Len(entries) :
                  /\ Weigh(StatementCount[Levels], entries[k].body) \in Nat
                  /\ Len(collect_instructions(entries[k].body)) =
                       Weigh(StatementCount[Levels], entries[k].body)
             /\ SumSeq(count) = InstructionCount(text)
<1> DEFINE S == {text[n] : n \in 1..Len(text)}
           w == [s \in S |-> Weigh(StatementCount[Levels], s.body)]
           seqs == [n \in DOMAIN text |-> extract_entry(text[n])]
           terms == [n \in DOMAIN text |-> IF text[n].kind = "Kernel" /\ text[n].defined
                                           THEN Weigh(StatementCount[Levels], text[n].body) ELSE 0]
           entries == Entries(text)
           count == [k \in 1..Len(entries) |-> Weigh(StatementCount[Levels], entries[k].body)]
<1>1. Len(text) \in Nat /\ DOMAIN text = 1..Len(text) /\ \A n \in 1..Len(text) : text[n] \in S
  BY DEF IsText
<1>2. ASSUME NEW s \in S
      PROVE  /\ Weigh(StatementCount[Levels], s.body) \in Nat
             /\ Len(collect_instructions(s.body)) = Weigh(StatementCount[Levels], s.body)
  <2>1. PICK b : b = s.body
    OBVIOUS
  <2>2. /\ b \in Seq(Statements)
        /\ \A m \in DOMAIN collect_instructions(b) : collect_instructions(b)[m].kind = "Instruction"
    BY <2>1 DEF IsText
  <2>3. StatementCount[Levels] \in [Statements -> Nat]
    BY CountSteps
  <2>4. Weigh(StatementCount[Levels], b) \in Nat
    BY <2>2, <2>3, WeighTerms
  <2>5. QED BY <2>1, <2>2, <2>4, CollectCount
<1>3. w \in [S -> Nat] /\ \A s \in S : w[s] = Weigh(StatementCount[Levels], s.body)
  <2> HIDE DEF S
  <2>1. QED BY <1>2
<1>4. ASSUME NEW n \in 1..Len(text)
      PROVE  seqs[n] \in Seq(S) /\ terms[n] \in Nat /\ terms[n] = Weigh(w, seqs[n])
  <2>1. PICK x : x = text[n]
    OBVIOUS
  <2>2. x \in S /\ n \in DOMAIN text
    BY <1>1, <2>1
  <2>3. CASE x.kind = "Kernel" /\ x.defined
    <3>1. PICK q : q = <<x>>
      OBVIOUS
    <3>2. seqs[n] = q /\ terms[n] = w[x]
      BY <1>3, <2>1, <2>2, <2>3, <3>1 DEF extract_entry
    <3>3. q \in Seq(S) /\ Len(q) = 1 /\ DOMAIN q = 1..1 /\ q[1] = x
      BY <2>2, <3>1
    <3>4. PICK t : t = [m \in DOMAIN q |-> w[q[m]]]
      OBVIOUS
    <3> HIDE DEF S, w, seqs, terms
    <3>5. PICK f : f = [m \in 0..1 |-> IF m = 0 THEN 0 ELSE w[x]]
      OBVIOUS
    <3>6. t \in [1..1 -> Nat] /\ t[1] = w[x] /\ w[x] \in Nat
      BY <1>3, <2>2, <3>3, <3>4
    <3>7. IsSum(f, 1, t) /\ f[1] = w[x]
      BY <3>5, <3>6 DEF IsSum
    <3>8. Weigh(w, q) = w[x]
      BY <3>4, <3>6, <3>7, SumIs DEF Weigh
    <3>9. QED BY <3>2, <3>3, <3>6, <3>8
  <2>4. CASE ~(x.kind = "Kernel" /\ x.defined)
    <3>1. PICK q : q = <<>>
      OBVIOUS
    <3>2. seqs[n] = q /\ terms[n] = 0 /\ q \in Seq(S)
      BY <2>1, <2>2, <2>4, <3>1 DEF extract_entry
    <3>3. PICK t : t = [m \in DOMAIN q |-> w[q[m]]]
      OBVIOUS
    <3>4. t \in [1..0 -> Nat] /\ \A m \in 1..0 : t[m] = 1
      BY <3>1, <3>3
    <3> HIDE DEF S, w, seqs, terms
    <3>5. Weigh(w, q) = 0
      BY <3>3, <3>4, SumOfOnes DEF Weigh
    <3>6. QED BY <3>2, <3>5
  <2>5. QED BY <2>3, <2>4
<1>5. seqs \in Seq(Seq(S)) /\ Len(seqs) = Len(text) /\ terms \in [1..Len(text) -> Nat]
  <2>1. seqs = [n \in 1..Len(text) |-> seqs[n]] /\ terms = [n \in 1..Len(text) |-> terms[n]]
    BY <1>1
  <2> HIDE DEF seqs, terms, S, w
  <2>2. QED BY <1>1, <1>4, <2>1
<1>6. entries = FlattenSeq(seqs)
  BY DEF Entries
<1>7. InstructionCount(text) = SumSeq(terms)
  BY DEF InstructionCount
<1>8. count = [k \in 1..Len(entries) |-> Weigh(StatementCount[Levels], entries[k].body)]
  OBVIOUS
<1> HIDE DEF seqs, terms, S, w, entries, count
<1>9. SumSeq(terms) = Weigh(w, entries) /\ entries \in Seq(S)
  BY <1>3, <1>4, <1>5, <1>6, WeighFlatten, FlattenType
<1>10. Len(entries) \in Nat /\ DOMAIN entries = 1..Len(entries) /\ \A k \in 1..Len(entries) : entries[k] \in S
  BY <1>9
<1>11. count = [k \in DOMAIN entries |-> w[entries[k]]]
  BY <1>3, <1>8, <1>10
<1>12. SumSeq(count) = Weigh(w, entries)
  BY <1>11 DEF Weigh
<1>13. \A k \in 1..Len(entries) :
         /\ Weigh(StatementCount[Levels], entries[k].body) \in Nat
         /\ Len(collect_instructions(entries[k].body)) = Weigh(StatementCount[Levels], entries[k].body)
  BY <1>2, <1>10
<1>14. QED BY <1>7, <1>9, <1>10, <1>12, <1>13 DEF entries, count

(***************************************************************************)
(* What the CPU-backed commands cost                                       *)
(***************************************************************************)
CostIn(s, D, n) == IF n \in D THEN CycleCost(s[n].opcode) ELSE 0

\* The cycles that the commands D of a stream add.
Cost(s, D) ==
  LET sum[n \in 0..Len(s)] == IF n = 0 THEN 0 ELSE sum[n - 1] + CostIn(s, D, n) IN sum[Len(s)]

Sums(sum, s, D) ==
  /\ sum \in [0..Len(s) -> Nat] /\ sum[0] = 0 /\ Cost(s, D) = sum[Len(s)]
  /\ \A n \in 1..Len(s) : sum[n] = sum[n - 1] + CostIn(s, D, n)

LEMMA CostType ==
  ASSUME NEW s, NEW D, NEW n
  PROVE  CycleCost(s[n].opcode) \in Nat /\ CostIn(s, D, n) \in Nat
<1>1. CycleCost(s[n].opcode) \in {4, 0, 1}
  BY DEF CycleCost
<1>2. QED BY <1>1 DEF CostIn

LEMMA CostSums ==
  ASSUME NEW s, IsStream(s), NEW D
  PROVE  \E sum : Sums(sum, s, D)
<1> DEFINE N == Len(s)
           term == [n \in 1..N |-> CostIn(s, D, n)]
           Adds(h) == h = [n \in 0..N |-> IF n = 0 THEN 0 ELSE h[n - 1] + CostIn(s, D, n)]
           sum == CHOOSE h : Adds(h)
<1>1. N \in Nat
  BY DEF IsStream
<1>2. term \in [1..N -> Nat]
  BY CostType
<1> HIDE DEF N
<1>3. PICK g \in [0..N -> Nat] : g[0] = 0 /\ \A n \in 1..N : g[n] = g[n - 1] + term[n]
  <2> HIDE DEF term
  <2>1. QED BY <1>1, <1>2, Summation
<1>4. Adds(g)
  <2>1. \A n \in 0..N : n # 0 => n \in 1..N
    BY <1>1
  <2>2. QED BY <1>3, <2>1
<1>5. Adds(sum)
  <2> HIDE DEF Adds
  <2>1. QED BY <1>4
<1>6. Cost(s, D) = sum[N]
  BY DEF Cost, N
<1> HIDE DEF sum
<1>7. /\ sum = [n \in 0..N |-> sum[n]] /\ sum[0] = 0
      /\ \A n \in 1..N : sum[n] = sum[n - 1] + CostIn(s, D, n)
  <2>1. sum = [n \in 0..N |-> sum[n]]
    BY <1>5
  <2>2. sum[0] = 0
    BY <1>1, <1>5
  <2>3. ASSUME NEW n \in 1..N PROVE sum[n] = sum[n - 1] + CostIn(s, D, n)
    <3>1. n \in 0..N /\ n # 0
      BY <1>1
    <3>2. QED BY <1>5, <3>1
  <2>4. QED BY <2>1, <2>2, <2>3
<1> DEFINE T == {n \in 0..N : sum[n] \in Nat}
<1>8. 0 \in T
  BY <1>1, <1>7
<1>9. ASSUME NEW n \in 1..N, n - 1 \in T PROVE n \in T
  <2>1. sum[n - 1] \in Nat /\ CostIn(s, D, n) \in Nat /\ n \in 0..N
    BY <1>1, <1>9, CostType
  <2>2. QED BY <1>7, <2>1
<1>10. 0..N \subseteq T
  <2> HIDE DEF T
  <2>1. QED BY <1>1, <1>8, <1>9, BoundedInduction
<1>11. sum \in [0..N -> Nat]
  BY <1>7, <1>10
<1>12. QED BY <1>6, <1>7, <1>11 DEF Sums, N

LEMMA CostGrows ==
  ASSUME NEW s, IsStream(s), NEW D, NEW c \in 1..Len(s), c \notin D
  PROVE  Cost(s, D \cup {c}) = Cost(s, D) + CycleCost(s[c].opcode)
<1> DEFINE N == Len(s)
           E == D \cup {c}
           cost == CycleCost(s[c].opcode)
<1>1. N \in Nat /\ cost \in Nat
  BY CostType DEF IsStream
<1>2. PICK a : Sums(a, s, D)
  BY CostSums
<1>3. PICK b : Sums(b, s, E)
  BY CostSums
<1>4. \A n \in 1..N : /\ n = c => CostIn(s, E, n) = cost /\ CostIn(s, D, n) = 0
                      /\ n # c => CostIn(s, E, n) = CostIn(s, D, n)
  BY DEF CostIn
<1> HIDE DEF E, cost, N
<1>5. /\ a \in [0..N -> Nat] /\ a[0] = 0 /\ Cost(s, D) = a[N]
      /\ \A n \in 1..N : a[n] = a[n - 1] + CostIn(s, D, n)
  BY <1>2 DEF Sums, N
<1>6. /\ b \in [0..N -> Nat] /\ b[0] = 0 /\ Cost(s, E) = b[N]
      /\ \A n \in 1..N : b[n] = b[n - 1] + CostIn(s, E, n)
  BY <1>3 DEF Sums, N
<1>7. c \in 1..N /\ c \in Nat /\ 1 <= c /\ c <= N
  BY <1>1 DEF N
<1> DEFINE T == {n \in 0..N : b[n] = a[n] + IF c <= n THEN cost ELSE 0}
<1>8. 0 \in T
  BY <1>1, <1>5, <1>6, <1>7
<1>9. ASSUME NEW n \in 1..N, n - 1 \in T PROVE n \in T
  <2>1. b[n - 1] = a[n - 1] + IF c <= n - 1 THEN cost ELSE 0
    BY <1>9
  <2>2. n - 1 \in 0..N /\ n \in 0..N /\ n \in Nat /\ a[n - 1] \in Nat /\ b[n - 1] \in Nat
    BY <1>1, <1>5, <1>6
  <2>3. a[n] = a[n - 1] + CostIn(s, D, n) /\ b[n] = b[n - 1] + CostIn(s, E, n)
    BY <1>5, <1>6
  <2>4. CostIn(s, D, n) \in Nat
    BY CostType
  <2>5. CASE n = c
    <3>1. CostIn(s, E, n) = cost /\ CostIn(s, D, n) = 0
      BY <1>4, <2>5
    <3>2. b[n - 1] = a[n - 1]
      BY <1>7, <2>1, <2>2, <2>5
    <3>3. b[n] = a[n] + cost /\ c <= n
      BY <1>1, <1>7, <2>2, <2>3, <2>5, <3>1, <3>2
    <3>4. QED BY <2>2, <3>3
  <2>6. CASE n # c
    <3>1. CostIn(s, E, n) = CostIn(s, D, n)
      BY <1>4, <2>6
    <3>2. c <= n <=> c <= n - 1
      BY <1>7, <2>2, <2>6
    <3> DEFINE x == IF c <= n THEN cost ELSE 0
    <3>3. x \in Nat /\ b[n - 1] = a[n - 1] + x
      BY <1>1, <2>1, <3>2
    <3> HIDE DEF x
    <3>4. b[n] = a[n] + x
      BY <2>2, <2>3, <2>4, <3>1, <3>3
    <3>5. QED BY <2>2, <3>4 DEF x
  <2>7. QED BY <2>5, <2>6
<1>10. N \in T
  <2> HIDE DEF T
  <2>1. 0..N \subseteq T
    BY <1>1, <1>8, <1>9, BoundedInduction
  <2>2. QED BY <1>1, <2>1
<1>11. QED BY <1>5, <1>6, <1>7, <1>10 DEF E, cost

LEMMA CostOfNone ==
  ASSUME NEW s, IsStream(s)
  PROVE  Cost(s, {}) = 0
<1> DEFINE N == Len(s)
<1>1. N \in Nat
  BY DEF IsStream
<1>2. PICK a : Sums(a, s, {})
  BY CostSums
<1>3. /\ a[0] = 0 /\ Cost(s, {}) = a[N] /\ \A n \in 1..N : a[n] = a[n - 1] + 0
  BY <1>2 DEF Sums, CostIn
<1> HIDE DEF N
<1> DEFINE T == {n \in 0..N : a[n] = 0}
<1>4. 0 \in T
  BY <1>1, <1>3
<1>5. \A n \in 1..N : n - 1 \in T => n \in T
  BY <1>1, <1>3
<1>6. N \in T
  <2> HIDE DEF T
  <2>1. 0..N \subseteq T
    BY <1>1, <1>4, <1>5, BoundedInduction
  <2>2. QED BY <1>1, <2>1
<1>7. QED BY <1>3, <1>6

\* Only RTL commands are in flight and only they can be late; a run without any
\* has taken the cycles of the commands that have retired.
CpuOnly == \A c \in Cmds : stream[c].ip \in Cpu
CpuRun ==
  /\ \A c \in FlightSet : stream[c].ip \in Rtl
  /\ result = "timeout" => ~CpuOnly
  /\ CpuOnly => total_cycles = Cost(stream, done)

LEMMA CpuRunInit == FabricInit => CpuRun
<1> SUFFICES ASSUME FabricInit PROVE CpuRun
  OBVIOUS
<1>1. FabricInv
  BY InitInv
<1>2. IsStream(stream)
  BY <1>1 DEF FabricInv, FabricTypeOK
<1>3. FlightSet = {} /\ result = "none" /\ total_cycles = 0 /\ done = {}
  BY DEF FabricInit, FlightSet, NoFlight
<1>4. QED BY <1>2, <1>3, CostOfNone DEF CpuRun

LEMMA CpuRunStarts ==
  ASSUME NEW s, IsStream(s), Run(s)
  PROVE  CpuRun'
<1>1. FlightSet' = {} /\ total_cycles' = 0 /\ done' = {} /\ stream' = s
  BY DEF Run, FlightSet, NoFlight
<1>2. result' # "timeout"
  BY DEF Run, LoopTop
<1>3. Cost(s, {}) = 0
  BY CostOfNone
<1>4. QED BY <1>1, <1>2, <1>3 DEF CpuRun

LEMMA CpuRunSteps ==
  ASSUME FabricInv, CpuRun, FabricStep \/ UNCHANGED fabricVars
  PROVE  CpuRun' /\ stream' = stream /\ (result # "none" => result' # "none")
<1>1. IsStream(stream) /\ Rtl \cap Cpu = {}
  BY FabricAssumption DEF FabricInv, FabricTypeOK
<1>2. ASSUME stream' = stream PROVE Cmds' = Cmds /\ CpuOnly' = CpuOnly
  BY <1>2 DEF Cmds, CpuOnly
<1>3. ASSUME UNCHANGED <<stream, in_flight, total_cycles, done>>,
             result' = "timeout" => result = "timeout"
      PROVE  CpuRun'
  <2>1. FlightSet' = FlightSet
    BY <1>3 DEF FlightSet
  <2>2. QED BY <1>2, <1>3, <2>1 DEF CpuRun
<1>4. CASE Skip
  BY <1>3, <1>4 DEF Skip
<1>5. CASE StartTick
  BY <1>3, <1>5 DEF StartTick
<1>6. CASE ReportStuck
  BY <1>3, <1>6 DEF ReportStuck, Return
<1>7. CASE Rescan
  BY <1>3, <1>7 DEF Rescan, LoopTop
<1>8. CASE UNCHANGED fabricVars
  BY <1>3, <1>8 DEF fabricVars
<1>9. CASE LaunchCpu
  <2> DEFINE c == pending[i]
  <2>1. /\ stream' = stream /\ in_flight' = in_flight /\ result' = result
        /\ total_cycles' = total_cycles + CycleCost(stream[c].opcode) /\ done' = done \cup {c}
    BY <1>9 DEF LaunchCpu
  <2>2. c \in PendingSet
    BY <1>9 DEF LaunchCpu, PendingSet, FabricInv, FabricTypeOK
  <2>3. c \in 1..Len(stream) /\ c \notin done
    BY <2>2 DEF FabricInv, ExactlyOnce, Cmds
  <2>4. Cost(stream, done \cup {c}) = Cost(stream, done) + CycleCost(stream[c].opcode)
    BY <1>1, <2>3, CostGrows
  <2>5. FlightSet' = FlightSet
    BY <2>1 DEF FlightSet
  <2> HIDE DEF c
  <2>6. QED BY <1>2, <2>1, <2>4, <2>5 DEF CpuRun
<1>10. CASE LaunchRtl
  <2> DEFINE c == pending[i]
  <2>1. /\ stream' = stream /\ in_flight' = Launched(c) /\ stream[c].ip \in Rtl
        /\ total_cycles' = total_cycles /\ done' = done /\ result' = result
    BY <1>10 DEF LaunchRtl
  <2>2. c \in Cmds
    <3>1. c \in PendingSet
      BY <1>10 DEF LaunchRtl, PendingSet, FabricInv, FabricTypeOK
    <3>2. QED BY <3>1 DEF FabricInv, ExactlyOnce
  <2> HIDE DEF c
  <2>3. FlightSet' = FlightSet \cup {c}
    BY <2>1 DEF Launched, FlightSet
  <2>4. ~CpuOnly
    BY <1>1, <2>1, <2>2 DEF CpuOnly
  <2>5. QED BY <1>2, <2>1, <2>3, <2>4 DEF CpuRun
<1>11. ASSUME NEW shows, Tick(shows) PROVE CpuRun' /\ stream' = stream
  <2>1. stream' = stream
    BY <1>11 DEF Tick
  <2>2. FlightSet' \subseteq FlightSet
    BY <1>11, TickSplit DEF Gone
  <2>3. FlightSet # {} /\ FlightSet \subseteq Cmds
    BY <1>11 DEF Tick, FabricInv, LoopShape, FabricTypeOK
  <2>4. ~CpuOnly
    BY <1>1, <2>3 DEF CpuOnly, CpuRun
  <2>5. QED BY <1>2, <2>1, <2>2, <2>4 DEF CpuRun
<1>12. stream' = stream
  BY <1>11 DEF FabricStep, Skip, LaunchCpu, LaunchRtl, StartTick, ReportStuck, Rescan, fabricVars
<1>13. ASSUME result # "none" PROVE result' # "none"
  <2>1. ASSUME NEW shows, Tick(shows) PROVE result' # "none"
    BY <2>1 DEF Tick, Return, LoopTop
  <2>2. QED BY <1>13, <2>1 DEF FabricStep, Skip, LaunchCpu, LaunchRtl, StartTick, ReportStuck, Rescan,
             Return, LoopTop, fabricVars
<1>14. QED BY <1>4, <1>5, <1>6, <1>7, <1>8, <1>9, <1>10, <1>11, <1>12, <1>13 DEF FabricStep

(***************************************************************************)
(* The inductive invariant of the pipeline                                 *)
(***************************************************************************)
FromEmitted == {"emitted", "recorded", "replayed"}
FromAssigned == FromEmitted \cup {"assigned", "NoBindingForChoice"}
FromSelected == FromAssigned \cup {"selected", "TokenGraphCycle"}
Functions == 1..Len(module)

ModuleInv ==
  /\ work \in Work /\ IsModule(module)
  /\ stage = "built" => \A k \in Functions : Len(module[k].order) \in Nat

\* What each pass has established stays.
PassInv ==
  /\ stage \in FromSelected => \A k \in Functions : Picked(module[k], policy)
  /\ stage \in FromAssigned => \A k \in Functions : Tokened(module[k])
  /\ stage \in FromEmitted => \A k \in Functions : ~BindError(module[k])

StreamInv ==
  stage \in FromEmitted => stream = emit_dispatches(module, policy) /\ result # "none"

ArtifactInv ==
  stage \in {"recorded", "replayed"} =>
    /\ artifact[1].saved = FromModule /\ artifact[1].ran = stream
    /\ artifact[1].completed = Len(stream)
    /\ CpuOnly => artifact[1].cycles = Cost(stream, Cmds)

KernelInv ==
  work.kind = "ptx" =>
    /\ stage \notin {"TokenGraphCycle", "NoBindingForChoice"}
    /\ stage # "text" => IsLowered(module, work.text)

\* The validator's verdict, on a module that no later step changes.
Found(m, rtlmap) ==
  LET op_to_node == OpToNode(m, rtlmap.hints)
  IN  \E node_to_op \in NodeToOps(op_to_node) : Matches(m, rtlmap, op_to_node, node_to_op)
VerdictInv ==
  verdict = "match" =>
    stage \in FromAssigned /\ module # <<>> /\ work.oracle # <<>> /\ Found(module[1], work.oracle[1])

IrInv == ModuleInv /\ PassInv /\ StreamInv /\ ArtifactInv /\ KernelInv /\ VerdictInv
PipelineInv == FabricInv /\ CpuRun /\ IrInv

LEMMA WorkFacts ==
  ASSUME ModuleInv
  PROVE  /\ policy \in Policies /\ IsText(work.text)
         /\ work.kind = "ptx" => policy \in {"PtxEmulationCore", "default_v1"}
         /\ Len(module) \in Nat /\ DOMAIN module = Functions
         /\ module = [k \in 1..Len(module) |-> module[k]]
         /\ \A k \in Functions : WellFormed(module[k])
<1>1. work \in Work
  BY DEF ModuleInv
<1>2. policy \in Policies /\ IsText(work.text) /\ (work.kind = "ptx" => policy \in {"PtxEmulationCore", "default_v1"})
  BY <1>1, WorkAssumption DEF policy, Policies
<1>3. /\ Len(module) \in Nat /\ module = [k \in 1..Len(module) |-> module[k]]
      /\ \A k \in Functions : WellFormed(module[k])
  BY DEF ModuleInv, IsModule, Functions
<1>4. DOMAIN module = Functions
  BY <1>3 DEF Functions
<1>5. QED BY <1>2, <1>3, <1>4

LEMMA PipelineInit == Init => PipelineInv
<1> SUFFICES ASSUME Init PROVE PipelineInv
  OBVIOUS
<1>1. FabricInv /\ CpuRun
  BY InitInv, CpuRunInit DEF Init
<1>2. work \in Work /\ module = work.built /\ verdict = "none"
      /\ stage = IF work.kind = "built" THEN "built" ELSE "text"
  BY DEF Init
<1>3. IsModule(work.built) /\ \A k \in DOMAIN work.built : work.built[k].order \in Seq(DOMAIN work.built[k].ops)
  BY <1>2, WorkAssumption
<1>4. ModuleInv
  <2>1. DOMAIN module = Functions
    BY <1>2, <1>3 DEF IsModule, Functions
  <2>2. ASSUME NEW k \in Functions PROVE Len(module[k].order) \in Nat
    <3>1. module[k].order \in Seq(DOMAIN module[k].ops)
      BY <1>2, <1>3, <2>1
    <3>2. QED BY <3>1
  <2>3. QED BY <1>2, <1>3, <2>2 DEF ModuleInv
<1>5. PassInv /\ StreamInv /\ ArtifactInv /\ KernelInv /\ VerdictInv
  BY <1>2 DEF PassInv, StreamInv, ArtifactInv, KernelInv, VerdictInv, FromEmitted, FromAssigned, FromSelected
<1>6. QED BY <1>1, <1>4, <1>5 DEF PipelineInv, IrInv

LEMMA QuietStep ==
  ASSUME PipelineInv, UNCHANGED fabricVars
  PROVE  FabricInv' /\ CpuRun' /\ (result # "none" => result' # "none")
BY StutterInv, CpuRunSteps DEF PipelineInv

LEMMA LowerInv ==
  ASSUME PipelineInv, Lower
  PROVE  PipelineInv'
<1>1. /\ work' = work /\ work.kind = "ptx" /\ stage = "text" /\ stage' = "built"
      /\ module' = lower_to_slugir(work.text) /\ verdict' = verdict /\ UNCHANGED fabricVars
  BY DEF Lower, Goes
<1>2. IsText(work.text) /\ work \in Work
  BY WorkFacts DEF PipelineInv, IrInv, ModuleInv
<1>3. IsLowered(module', work.text) /\ \A k \in 1..Len(module') : Len(module'[k].order) \in Nat
  BY <1>1, <1>2, LowerFacts
<1>4. IsModule(module')
  <2>1. Len(Entries(work.text)) \in Nat
    BY <1>2, EntriesType
  <2>2. QED BY <1>3, <2>1 DEF IsLowered, IsModule, IsKernel
<1>5. ModuleInv'
  BY <1>1, <1>2, <1>3, <1>4 DEF ModuleInv, Functions
<1>6. verdict # "match"
  BY <1>1 DEF PipelineInv, IrInv, VerdictInv, FromAssigned, FromEmitted
<1>7. (PassInv /\ StreamInv /\ ArtifactInv /\ KernelInv /\ VerdictInv)'
  BY <1>1, <1>3, <1>6 DEF PassInv, StreamInv, ArtifactInv, KernelInv, VerdictInv, FromEmitted, FromAssigned, FromSelected
<1>8. QED BY <1>1, <1>5, <1>7, QuietStep DEF PipelineInv, IrInv

\* A step that goes to another stage and leaves the module alone.
LEMMA FailInv ==
  ASSUME PipelineInv, UNCHANGED <<work, source, module, verdict, artifact, fabricVars>>,
         \/ stage' = stage
         \/ /\ work.kind # "ptx"
            /\ \/ stage = "text" /\ stage' = "ParseError"
               \/ stage = "selected" /\ stage' = "TokenGraphCycle"
               \/ stage = "assigned" /\ stage' = "NoBindingForChoice"
  PROVE  PipelineInv'
<1>1. FabricInv' /\ CpuRun' /\ (result # "none" => result' # "none")
  BY QuietStep
<1>2. Functions' = Functions /\ policy' = policy /\ Cmds' = Cmds /\ CpuOnly' = CpuOnly
      /\ FromModule' = FromModule /\ stream' = stream
  BY DEF Functions, policy, Cmds, CpuOnly, FromModule, fabricVars
<1>3. ModuleInv' /\ PassInv'
  BY <1>2 DEF PipelineInv, IrInv, ModuleInv, PassInv, FromSelected, FromAssigned, FromEmitted
<1>4. StreamInv' /\ ArtifactInv'
  BY <1>1, <1>2 DEF PipelineInv, IrInv, StreamInv, ArtifactInv, FromEmitted
<1>5. KernelInv' /\ VerdictInv'
  BY <1>2 DEF PipelineInv, IrInv, KernelInv, VerdictInv, FromAssigned, FromEmitted
<1>6. QED BY <1>1, <1>3, <1>4, <1>5 DEF PipelineInv, IrInv

\* The passes on a kernel: it has no edges and no op to fuse.
LEMMA KernelPasses ==
  ASSUME NEW f, NEW n, IsKernel(f, n), NEW g, WellFormed(g), g.edges \subseteq f.edges, g.ops = f.ops
  PROVE  IsKernel(g, n)
BY DEF IsKernel, Ids

LEMMA KernelAcyclic ==
  ASSUME NEW f, NEW n, IsKernel(f, n)
  PROVE  ~HasCycle(f)
<1>1. \A id : Predecessors(f, id) = {}
  BY DEF IsKernel, Predecessors
<1>2. Acyclic(f)
  BY <1>1 DEF Acyclic
<1>3. QED BY <1>2, CycleFound DEF IsKernel

LEMMA KernelBinds ==
  ASSUME NEW p \in {"PtxEmulationCore", "default_v1"}, NEW f, NEW n, IsKernel(f, n), Picked(f, p)
  PROVE  ~BindError(f)
<1> SUFFICES ASSUME NEW id \in DOMAIN f.ops PROVE Bind(f.meta[id].backend, f.ops[id]) # NoBinding
  BY DEF BindError
<1> DEFINE op == f.ops[id]
           ip == f.meta[id].backend
<1>1. op.kind \in PtxKind /\ ip = Pick(p, op)
  BY DEF IsKernel, Picked, Ids
<1>2. \A x, t : Start(x, t) # NoBinding
  BY DEF Start, NoBinding
<1>3. CASE ip = "PtxEmulationCore"
  BY <1>2, <1>3 DEF Bind, PtxEmulationBinding
<1>4. CASE ip # "PtxEmulationCore"
  <2>1. p = "default_v1" /\ op.kind \in {"Gemm", "Dma"}
    BY <1>1, <1>4 DEF Pick, PtxKind, StateKind
  <2>2. CASE op.kind = "Dma"
    <3>1. ip = "NoCMesh"
      BY <1>1, <2>1, <2>2 DEF Pick, StateKind
    <3>2. QED BY <1>2, <2>2, <3>1 DEF Bind, NoCMeshBinding
  <2>3. CASE op.kind = "Gemm"
    <3>1. ip = GemmTileIp(op.arg)
      BY <1>1, <2>1, <2>3 DEF Pick, StateKind
    <3>2. ip \in {"SystolicArray4x4", "SystolicArray16x16", "SystolicArray32x32"}
      BY <3>1 DEF GemmTileIp
    <3>3. QED BY <1>2, <2>3, <3>2 DEF Bind, SystolicBinding
  <2>4. QED BY <2>1, <2>2, <2>3
<1>5. QED BY <1>3, <1>4

\* A pass rewrites the functions of the module one by one.
LEMMA PassModule ==
  ASSUME ModuleInv, NEW m, NEW rewritten, m = rewritten,
         DOMAIN rewritten = DOMAIN module, rewritten = [k \in DOMAIN rewritten |-> rewritten[k]],
         \A k \in Functions : WellFormed(rewritten[k])
  PROVE  IsModule(m) /\ Len(m) = Len(module)
<1>1. Len(module) \in Nat /\ DOMAIN module = 1..Len(module)
  BY WorkFacts DEF Functions
<1>2. m = [k \in 1..Len(module) |-> m[k]] /\ \A k \in 1..Len(module) : WellFormed(m[k])
  BY <1>1 DEF Functions
<1>3. Len(m) = Len(module)
  BY <1>1, <1>2
<1>4. QED BY <1>1, <1>2, <1>3 DEF IsModule

LEMMA PassSteps ==
  ASSUME PipelineInv, NEW from, NEW to, NEW rewritten, Pass(from, to, rewritten),
         DOMAIN rewritten = DOMAIN module, rewritten = [k \in DOMAIN rewritten |-> rewritten[k]],
         \A k \in Functions : WellFormed(rewritten[k]),
         <<from, to>> \in {<<"built", "fused">>, <<"fused", "selected">>, <<"selected", "assigned">>},
         to \in FromSelected => \A k \in Functions : Picked(rewritten[k], policy),
         to \in FromAssigned => \A k \in Functions : Tokened(rewritten[k]),
         \A k \in Functions : \A n : IsKernel(module[k], n) => IsKernel(rewritten[k], n)
  PROVE  PipelineInv'
<1>1. /\ stage = from /\ stage' = to /\ module' = rewritten /\ work' = work /\ verdict' = verdict
      /\ UNCHANGED fabricVars
  BY DEF Pass, Goes
<1>2. ModuleInv
  BY DEF PipelineInv, IrInv
<1>3. IsModule(rewritten) /\ Len(rewritten) = Len(module)
  BY <1>2, PassModule
<1>4. /\ from \in {"built", "fused", "selected"} /\ to \in {"fused", "selected", "assigned"}
  OBVIOUS
<1>5. ModuleInv'
  BY <1>1, <1>2, <1>3, <1>4 DEF ModuleInv
<1>6. Functions' = Functions /\ policy' = policy
  BY <1>1, <1>3 DEF Functions, policy
<1>7. PassInv' /\ StreamInv' /\ ArtifactInv'
  BY <1>1, <1>4, <1>6 DEF PassInv, StreamInv, ArtifactInv, FromEmitted
<1>8. verdict # "match"
  BY <1>1, <1>4 DEF PipelineInv, IrInv, VerdictInv, FromAssigned, FromEmitted
<1>9. KernelInv'
  <2> SUFFICES ASSUME work.kind = "ptx" PROVE IsLowered(rewritten, work.text)
    BY <1>1, <1>4 DEF KernelInv
  <2>1. IsLowered(module, work.text)
    BY <1>1, <1>4 DEF PipelineInv, IrInv, KernelInv
  <2>2. rewritten = [k \in 1..Len(rewritten) |-> rewritten[k]]
    BY <1>3 DEF IsModule
  <2>3. QED BY <1>3, <2>1, <2>2 DEF IsLowered, Functions
<1>10. QED BY <1>1, <1>5, <1>7, <1>8, <1>9, QuietStep DEF PipelineInv, IrInv, VerdictInv

LEMMA FuseInv ==
  ASSUME PipelineInv, Fuse
  PROVE  PipelineInv'
<1> DEFINE rewritten == [k \in DOMAIN module |-> FuseMlpChain(module[k])]
<1>1. Pass("built", "fused", rewritten) /\ stage = "built"
  BY DEF Fuse, Pass, Goes
<1>2. DOMAIN module = Functions /\ \A k \in Functions : WellFormed(module[k]) /\ Len(module[k].order) \in Nat
  BY <1>1, WorkFacts DEF PipelineInv, IrInv, ModuleInv
<1>3. ASSUME NEW k \in Functions
      PROVE  /\ WellFormed(rewritten[k])
             /\ \A n : IsKernel(module[k], n) => IsKernel(rewritten[k], n)
  <2> DEFINE f == module[k]
             g == FuseMlpChain(f)
  <2>1. rewritten[k] = g
    BY <1>2
  <2>2. /\ WellFormed(g) /\ g.edges \subseteq f.edges
        /\ (\A id \in Ids(f) : f.ops[id].kind # "MlpStep") => g.ops = f.ops
    BY <1>2, FuseKeeps
  <2>3. ASSUME NEW n, IsKernel(f, n) PROVE IsKernel(g, n)
    <3>1. \A id \in Ids(f) : f.ops[id].kind # "MlpStep"
      BY <2>3 DEF IsKernel, PtxKind
    <3> HIDE DEF f, g
    <3>2. QED BY <2>2, <2>3, <3>1, KernelPasses
  <2>4. QED BY <2>1, <2>2, <2>3
<1>4. DOMAIN rewritten = DOMAIN module /\ rewritten = [k \in DOMAIN rewritten |-> rewritten[k]]
  OBVIOUS
<1> HIDE DEF rewritten
<1>5. "fused" \notin FromSelected /\ "fused" \notin FromAssigned
  BY DEF FromSelected, FromAssigned, FromEmitted
<1>6. QED BY <1>1, <1>3, <1>4, <1>5, PassSteps

LEMMA SelectInv ==
  ASSUME PipelineInv, Select
  PROVE  PipelineInv'
<1> DEFINE rewritten == [k \in DOMAIN module |-> SelectBackend(module[k], policy)]
<1>1. Pass("fused", "selected", rewritten)
  BY DEF Select
<1>2. DOMAIN module = Functions /\ \A k \in Functions : WellFormed(module[k])
  BY WorkFacts DEF PipelineInv, IrInv
<1>3. ASSUME NEW k \in Functions
      PROVE  /\ WellFormed(rewritten[k]) /\ Picked(rewritten[k], policy)
             /\ \A n : IsKernel(module[k], n) => IsKernel(rewritten[k], n)
  <2> DEFINE f == module[k]
             g == SelectBackend(f, policy)
  <2>1. rewritten[k] = g
    BY <1>2
  <2>2. /\ WellFormed(g) /\ g.edges = f.edges /\ g.ops = f.ops
        /\ \A id \in Ids(f) : g.meta[id].backend = Pick(policy, f.ops[id])
    BY <1>2, SelectKeeps
  <2> HIDE DEF f, g
  <2>3. Picked(g, policy)
    BY <2>2 DEF Picked, Ids
  <2>4. \A n : IsKernel(f, n) => IsKernel(g, n)
    BY <2>2, KernelPasses
  <2>5. QED BY <2>1, <2>2, <2>3, <2>4 DEF f
<1>4. DOMAIN rewritten = DOMAIN module /\ rewritten = [k \in DOMAIN rewritten |-> rewritten[k]]
  OBVIOUS
<1> HIDE DEF rewritten
<1>5. "selected" \notin FromAssigned
  BY DEF FromAssigned, FromEmitted
<1>6. QED BY <1>1, <1>3, <1>4, <1>5, PassSteps

LEMMA AssignInv ==
  ASSUME PipelineInv, Assign
  PROVE  PipelineInv'
<1> DEFINE rewritten == [k \in DOMAIN module |-> AssignTokens(module[k])]
<1>1. /\ Pass("selected", "assigned", rewritten) /\ stage = "selected"
      /\ \A k \in DOMAIN module : ~HasCycle(module[k])
  BY DEF Assign, Pass, Goes
<1>2. /\ DOMAIN module = Functions
      /\ \A k \in Functions : WellFormed(module[k]) /\ Picked(module[k], policy)
  BY <1>1, WorkFacts DEF PipelineInv, IrInv, PassInv, FromSelected
<1>3. ASSUME NEW k \in Functions
      PROVE  /\ WellFormed(rewritten[k]) /\ Picked(rewritten[k], policy) /\ Tokened(rewritten[k])
             /\ \A n : IsKernel(module[k], n) => IsKernel(rewritten[k], n)
  <2> DEFINE f == module[k]
             g == AssignTokens(f)
  <2>1. rewritten[k] = g
    BY <1>2
  <2>2. /\ WellFormed(g) /\ g.edges = f.edges /\ g.ops = f.ops /\ Tokened(g)
        /\ \A id \in Ids(f) : g.meta[id].backend = f.meta[id].backend
    BY <1>1, <1>2, AssignKeeps
  <2>3. Picked(f, policy)
    BY <1>2
  <2> HIDE DEF f, g
  <2>4. Picked(g, policy)
    BY <2>2, <2>3 DEF Picked, Ids
  <2>5. \A n : IsKernel(f, n) => IsKernel(g, n)
    BY <2>2, KernelPasses
  <2>6. QED BY <2>1, <2>2, <2>4, <2>5 DEF f
<1>4. DOMAIN rewritten = DOMAIN module /\ rewritten = [k \in DOMAIN rewritten |-> rewritten[k]]
  OBVIOUS
<1> HIDE DEF rewritten
<1>5. QED BY <1>1, <1>3, <1>4, PassSteps

LEMMA ErrorInv ==
  ASSUME PipelineInv, ParseFails \/ AssignFails \/ EmitFails
  PROVE  PipelineInv'
<1>1. UNCHANGED <<work, source, module, verdict, artifact, fabricVars>>
  BY DEF ParseFails, AssignFails, EmitFails, Fails
<1>2. ModuleInv /\ PassInv /\ KernelInv /\ DOMAIN module = Functions
  BY WorkFacts DEF PipelineInv, IrInv
<1>3. ASSUME work.kind = "ptx", stage # "text"
      PROVE  \A k \in Functions : \E n : IsKernel(module[k], n)
  BY <1>2, <1>3 DEF KernelInv, IsLowered, Functions
<1>4. CASE ParseFails
  BY <1>1, <1>4, FailInv DEF ParseFails, Fails, Goes
<1>5. CASE AssignFails
  <2>1. stage = "selected" /\ stage' = "TokenGraphCycle" /\ \E k \in DOMAIN module : HasCycle(module[k])
    BY <1>5 DEF AssignFails, Fails, Goes
  <2>2. work.kind # "ptx"
    BY <1>2, <1>3, <2>1, KernelAcyclic
  <2>3. QED BY <1>1, <2>1, <2>2, FailInv
<1>6. CASE EmitFails
  <2>1. /\ stage = "assigned" /\ stage' = "NoBindingForChoice"
        /\ \E k \in DOMAIN module : BindError(module[k])
    BY <1>6 DEF EmitFails, Fails, Goes
  <2>2. \A k \in Functions : Picked(module[k], policy)
    BY <1>2, <2>1 DEF PassInv, FromSelected, FromAssigned
  <2>3. work.kind = "ptx" => policy \in {"PtxEmulationCore", "default_v1"}
    BY <1>2, WorkFacts
  <2>4. work.kind # "ptx"
    BY <1>2, <1>3, <2>1, <2>2, <2>3, KernelBinds
  <2>5. QED BY <1>1, <2>1, <2>4, FailInv
<1>7. QED BY <1>4, <1>5, <1>6

LEMMA ValidateInv ==
  ASSUME PipelineInv, Validate
  PROVE  PipelineInv'
<1>1. /\ stage = "assigned" /\ work.oracle # <<>>
      /\ UNCHANGED <<stage, work, source, module, artifact, fabricVars>>
  BY DEF Validate
<1>2. verdict' = "match" => module # <<>> /\ Found(module[1], work.oracle[1])
  BY DEF Validate, Found
<1>3. FabricInv' /\ CpuRun'
  BY <1>1, QuietStep
<1>4. Functions' = Functions /\ policy' = policy
  BY <1>1 DEF Functions, policy
<1>5. ModuleInv' /\ PassInv' /\ StreamInv' /\ ArtifactInv' /\ KernelInv'
  BY <1>1, <1>4 DEF PipelineInv, IrInv, ModuleInv, PassInv, StreamInv, ArtifactInv, KernelInv, FromEmitted
<1>6. VerdictInv'
  BY <1>1, <1>2 DEF VerdictInv, FromAssigned
<1>7. QED BY <1>3, <1>5, <1>6 DEF PipelineInv, IrInv

LEMMA ReadyModule ==
  ASSUME PipelineInv, stage \in FromAssigned, \A k \in DOMAIN module : ~BindError(module[k])
  PROVE  /\ \A k \in Functions : Ready(module[k], policy)
         /\ WellTokened(emit_dispatches(module, policy)) /\ IsStream(emit_dispatches(module, policy))
         /\ Len(module) = 1 => emit_dispatches(module, policy) = Dispatches(module[1], policy)
<1>1. /\ policy \in Policies /\ Len(module) \in Nat /\ DOMAIN module = Functions
      /\ module = [k \in 1..Len(module) |-> module[k]]
      /\ \A k \in Functions : WellFormed(module[k])
  BY WorkFacts DEF PipelineInv, IrInv
<1>2. \A k \in Functions : Ready(module[k], policy)
  BY <1>1 DEF PipelineInv, IrInv, PassInv, Ready, FromSelected
<1>3. QED BY <1>1, <1>2, EmitFacts DEF Functions

LEMMA EmitInv ==
  ASSUME PipelineInv, Emit
  PROVE  PipelineInv'
<1>1. /\ stage = "assigned" /\ stage' = "emitted" /\ Run(emit_dispatches(module, policy))
      /\ \A k \in DOMAIN module : ~BindError(module[k])
      /\ UNCHANGED <<work, source, module, verdict, artifact>>
  BY DEF Emit, Goes
<1>2. IsStream(emit_dispatches(module, policy))
  BY <1>1, ReadyModule DEF FromAssigned
<1>3. FabricInv' /\ CpuRun'
  BY <1>1, <1>2, RunInv, CpuRunStarts
<1>4. Functions' = Functions /\ policy' = policy /\ DOMAIN module = Functions
  BY <1>1, WorkFacts DEF Functions, policy, PipelineInv, IrInv
<1>5. stream' = emit_dispatches(module, policy) /\ result' # "none"
  BY <1>1 DEF Run, LoopTop
<1>6. ModuleInv' /\ PassInv'
  BY <1>1, <1>4 DEF PipelineInv, IrInv, ModuleInv, PassInv, FromSelected, FromAssigned, FromEmitted
<1>7. StreamInv' /\ ArtifactInv' /\ KernelInv'
  BY <1>1, <1>4, <1>5 DEF PipelineInv, IrInv, StreamInv, ArtifactInv, KernelInv
<1>8. VerdictInv'
  BY <1>1 DEF PipelineInv, IrInv, VerdictInv, FromAssigned, FromEmitted
<1>9. QED BY <1>3, <1>6, <1>7, <1>8 DEF PipelineInv, IrInv

LEMMA RecordInv ==
  ASSUME PipelineInv, Record
  PROVE  PipelineInv'
<1>1. /\ stage = "emitted" /\ stage' = "recorded" /\ result = "ok"
      /\ artifact' = <<[saved |-> FromModule, ran |-> stream, cycles |-> total_cycles,
                        completed |-> completions]>>
      /\ UNCHANGED <<work, source, module, verdict, fabricVars>>
  BY DEF Record, Goes
<1>2. FabricInv' /\ CpuRun' /\ result' # "none"
  BY <1>1, QuietStep
<1>3. /\ Functions' = Functions /\ policy' = policy /\ stream' = stream /\ Cmds' = Cmds
      /\ CpuOnly' = CpuOnly /\ FromModule' = FromModule
  BY <1>1 DEF Functions, policy, fabricVars, Cmds, CpuOnly, FromModule
<1>4. done = Cmds /\ completions = Len(stream)
  BY <1>1 DEF PipelineInv, FabricInv, OkMeansAll
<1>5. CpuOnly => total_cycles = Cost(stream, Cmds)
  BY <1>4 DEF PipelineInv, CpuRun
<1>6. ModuleInv' /\ PassInv'
  BY <1>1, <1>3 DEF PipelineInv, IrInv, ModuleInv, PassInv, FromSelected, FromAssigned, FromEmitted
<1>7. ArtifactInv'
  <2>1. /\ artifact'[1].saved = FromModule /\ artifact'[1].ran = stream
        /\ artifact'[1].completed = completions /\ artifact'[1].cycles = total_cycles
    BY <1>1
  <2>2. QED BY <1>3, <1>4, <1>5, <2>1 DEF ArtifactInv
<1>8. StreamInv' /\ KernelInv' /\ VerdictInv'
  BY <1>1, <1>2, <1>3 DEF PipelineInv, IrInv, StreamInv, KernelInv, VerdictInv, FromAssigned, FromEmitted
<1>9. QED BY <1>2, <1>6, <1>7, <1>8 DEF PipelineInv, IrInv

LEMMA ReplayInv ==
  ASSUME PipelineInv, Replay
  PROVE  PipelineInv'
<1>1. /\ stage = "recorded" /\ stage' = "replayed"
      /\ Run(emit_dispatches(artifact[1].saved.slugir, artifact[1].saved.policy_name))
      /\ UNCHANGED <<work, source, module, verdict, artifact>>
  BY DEF Replay, Goes
<1>2. artifact[1].saved = FromModule /\ stream = emit_dispatches(module, policy)
  BY <1>1 DEF PipelineInv, IrInv, ArtifactInv, StreamInv, FromEmitted
<1>3. FromModule.slugir = module /\ FromModule.policy_name = policy
  BY DEF FromModule
<1>4. Run(stream)
  BY <1>1, <1>2, <1>3
<1>5. stream' = stream /\ Cmds' = Cmds /\ CpuOnly' = CpuOnly /\ result' # "none"
  BY <1>4 DEF Run, Cmds, CpuOnly, LoopTop
<1>6. IsStream(stream)
  BY DEF PipelineInv, FabricInv, FabricTypeOK
<1>7. FabricInv' /\ CpuRun'
  BY <1>4, <1>6, RunInv, CpuRunStarts
<1>8. Functions' = Functions /\ policy' = policy /\ FromModule' = FromModule
  BY <1>1 DEF Functions, policy, FromModule
<1>9. ModuleInv' /\ PassInv'
  BY <1>1, <1>8 DEF PipelineInv, IrInv, ModuleInv, PassInv, FromSelected, FromAssigned, FromEmitted
<1>10. ArtifactInv' /\ StreamInv'
  BY <1>1, <1>5, <1>8 DEF PipelineInv, IrInv, ArtifactInv, StreamInv, FromEmitted
<1>11. KernelInv' /\ VerdictInv'
  BY <1>1 DEF PipelineInv, IrInv, KernelInv, VerdictInv, FromAssigned, FromEmitted
<1>12. QED BY <1>7, <1>9, <1>10, <1>11 DEF PipelineInv, IrInv

LEMMA FabricStepInv ==
  ASSUME PipelineInv, FabricStep, UNCHANGED irVars
  PROVE  PipelineInv'
<1>1. FabricInv' /\ CpuRun' /\ stream' = stream /\ (result # "none" => result' # "none")
  BY StepInv, CpuRunSteps DEF PipelineInv
<1>2. /\ UNCHANGED <<stage, work, source, module, verdict, artifact>>
      /\ Functions' = Functions /\ policy' = policy /\ FromModule' = FromModule
      /\ Cmds' = Cmds /\ CpuOnly' = CpuOnly
  BY <1>1 DEF irVars, Functions, policy, FromModule, Cmds, CpuOnly
<1>3. ModuleInv' /\ PassInv'
  BY <1>2 DEF PipelineInv, IrInv, ModuleInv, PassInv
<1>4. ArtifactInv' /\ StreamInv'
  BY <1>1, <1>2 DEF PipelineInv, IrInv, ArtifactInv, StreamInv
<1>5. KernelInv' /\ VerdictInv'
  BY <1>2 DEF PipelineInv, IrInv, KernelInv, VerdictInv
<1>6. QED BY <1>1, <1>3, <1>4, <1>5 DEF PipelineInv, IrInv

\* Every step of lower(), run(), validate() and replay() keeps the invariant.
THEOREM PipelineSafe == Spec => []PipelineInv
<1>1. Init => PipelineInv
  BY PipelineInit
<1>2. PipelineInv /\ [Next]_vars => PipelineInv'
  <2> SUFFICES ASSUME PipelineInv, [Next]_vars PROVE PipelineInv'
    OBVIOUS
  <2>1. CASE Lower
    BY <2>1, LowerInv
  <2>2. CASE ParseFails \/ AssignFails \/ EmitFails
    BY <2>2, ErrorInv
  <2>3. CASE Fuse
    BY <2>3, FuseInv
  <2>4. CASE Select
    BY <2>4, SelectInv
  <2>5. CASE Assign
    BY <2>5, AssignInv
  <2>6. CASE Validate
    BY <2>6, ValidateInv
  <2>7. CASE Emit
    BY <2>7, EmitInv
  <2>8. CASE Record
    BY <2>8, RecordInv
  <2>9. CASE Replay
    BY <2>9, ReplayInv
  <2>10. CASE FabricStep /\ UNCHANGED irVars
    BY <2>10, FabricStepInv
  <2>11. CASE UNCHANGED vars
    <3>1. UNCHANGED <<work, source, module, verdict, artifact, fabricVars>> /\ stage' = stage
      BY <2>11 DEF vars, irVars
    <3>2. QED BY <3>1, FailInv
  <2>12. QED BY <2>1, <2>2, <2>3, <2>4, <2>5, <2>6, <2>7, <2>8, <2>9, <2>10, <2>11 DEF Next
<1>3. QED BY <1>1, <1>2, PTL DEF Spec

(***************************************************************************)
(* The properties                                                          *)
(***************************************************************************)
\* assign_tokens reports TokenGraphCycle exactly on the graphs with a cycle, and
\* leaves every op of the others once and after the ops it depends on, for every
\* function and however many parallel edges it has.
THEOREM TopoIsSound == Spec => []TopoSound
<1>1. PipelineInv => TopoSound
  <2> SUFFICES ASSUME PipelineInv PROVE TopoSound
    OBVIOUS
  <2>1. DOMAIN module = Functions /\ \A k \in Functions : WellFormed(module[k])
    BY WorkFacts DEF PipelineInv, IrInv
  <2>2. \A k \in DOMAIN module : HasCycle(module[k]) <=> ~Acyclic(module[k])
    BY <2>1, CycleFound
  <2>3. ASSUME stage = "assigned", NEW k \in DOMAIN module
        PROVE  LET f == module[k]
               IN  /\ ToSet(f.order) = Ids(f) /\ Len(f.order) = Cardinality(Ids(f))
                   /\ \A m, n \in DOMAIN f.order :
                        DependsOn(f, f.order[n], f.order[m]) => m < n
    <3> DEFINE f == module[k]
    <3>1. Sorted(f, f.order)
      BY <2>1, <2>3 DEF PipelineInv, IrInv, PassInv, FromAssigned, Tokened
    <3> HIDE DEF f
    <3>2. ASSUME NEW m \in DOMAIN f.order, NEW n \in DOMAIN f.order,
                 DependsOn(f, f.order[n], f.order[m])
          PROVE  m < n
      <4>1. f.order[m] \in Predecessors(f, f.order[n])
        BY <3>2 DEF DependsOn, Predecessors
      <4>2. PICK j \in DOMAIN f.order : j < n /\ f.order[j] = f.order[m]
        BY <3>1, <4>1 DEF Sorted
      <4>3. QED BY <3>1, <4>2 DEF Sorted, NoRepeats
    <3>3. ToSet(f.order) = Ids(f) /\ Len(f.order) = Cardinality(Ids(f))
      BY <3>1 DEF Sorted, Elements, ToSet
    <3>4. QED BY <3>2, <3>3 DEF f
  <2>4. QED BY <2>2, <2>3 DEF TopoSound
<1>2. QED BY <1>1, PipelineSafe, PTL

\* The fabric reports TokenResolutionStuck for no stream that the compiler emits,
\* although the functions of a module number their tokens from 1 each.
THEOREM CompiledIsNeverStuck == Spec => []CompiledNeverStuck
<1>1. PipelineInv => CompiledNeverStuck
  <2> SUFFICES ASSUME PipelineInv, stage = "emitted" PROVE WellTokened(stream) /\ result # "stuck"
    BY DEF CompiledNeverStuck
  <2>1. /\ DOMAIN module = Functions /\ \A k \in Functions : ~BindError(module[k])
        /\ stream = emit_dispatches(module, policy)
    BY WorkFacts DEF PipelineInv, IrInv, PassInv, StreamInv, FromEmitted
  <2>2. WellTokened(stream)
    BY <2>1, ReadyModule DEF FromAssigned, FromEmitted
  <2>3. QED BY <2>2 DEF PipelineInv, FabricInv, NeverStuck
<1>2. QED BY <1>1, PipelineSafe, PTL

\* The commands of a module with one function: command c dispatches the op at
\* place c of the order.
LEMMA SingleStream ==
  ASSUME PipelineInv, Single
  PROVE  LET f == module[1]
         IN  /\ Tokened(f) /\ WellFormed(f) /\ Cmds = DOMAIN f.order /\ DOMAIN f.order \subseteq Nat
             /\ \A c \in Cmds : /\ OpOf(c) = f.order[c] /\ CmdOf(f.order[c]) = c
                                /\ stream[c].token_out = c
                                /\ stream[c].token_in = f.meta[f.order[c]].token_in
<1> DEFINE f == module[1]
<1>1. /\ stage = "emitted" /\ Len(module) = 1 /\ 1 \in Functions /\ DOMAIN module = Functions
      /\ policy \in Policies
  BY WorkFacts DEF Single, Functions, PipelineInv, IrInv
<1>2. \A k \in Functions : ~BindError(module[k])
  BY <1>1 DEF PipelineInv, IrInv, PassInv, FromEmitted
<1>3. stream = Dispatches(f, policy) /\ Ready(f, policy)
  BY <1>1, <1>2, ReadyModule DEF PipelineInv, IrInv, StreamInv, FromAssigned, FromEmitted
<1>4. /\ Len(stream) = Len(f.order) /\ Len(f.order) \in Nat
      /\ \A c \in 1..Len(stream) : /\ stream[c].token_out = c
                                   /\ stream[c].token_in = f.meta[f.order[c]].token_in
  BY <1>1, <1>3, DispatchFacts
<1>5. Tokened(f) /\ WellFormed(f) /\ f.order \in Seq(Ids(f)) /\ NoRepeats(f.order)
  BY <1>3 DEF Ready, Tokened, Sorted
<1> HIDE DEF f
<1>6. Cmds = DOMAIN f.order /\ DOMAIN f.order \subseteq Nat
  BY <1>4, <1>5 DEF Cmds
<1>7. \A c : OpOf(c) = f.order[c]
  BY DEF OpOf, f
<1>8. ASSUME NEW c \in Cmds PROVE CmdOf(f.order[c]) = c
  <2> DEFINE P(x) == OpOf(x) = f.order[c]
             d == CHOOSE x \in Cmds : P(x)
  <2>1. P(c)
    BY <1>7
  <2>2. d \in Cmds /\ P(d)
    <3> HIDE DEF P
    <3>1. QED BY <2>1
  <2>3. CmdOf(f.order[c]) = d
    BY DEF CmdOf
  <2> HIDE DEF d
  <2>4. QED BY <1>5, <1>6, <1>7, <2>2, <2>3 DEF NoRepeats
<1>9. QED BY <1>4, <1>5, <1>6, <1>7, <1>8 DEF Cmds, f

\* No op is launched before the op that it depends on and that comes last in the
\* order has retired, for every graph, policy and behaviour of the IPs.
THEOREM LastPredecessorRetires == Spec => []LastPredecessorFirst
<1>1. PipelineInv => LastPredecessorFirst
  <2> SUFFICES ASSUME PipelineInv, Single, NEW id \in Ids(module[1]),
                      Launched1(id), Predecessors(module[1], id) # {}
               PROVE  LET preds == Predecessors(module[1], id)
                      IN  Retired1(CHOOSE p \in preds : \A q \in preds : CmdOf(q) <= CmdOf(p))
    BY DEF LastPredecessorFirst
  <2> DEFINE f == module[1]
             preds == Predecessors(f, id)
             Latest(p) == \A q \in preds : CmdOf(q) <= CmdOf(p)
             last == CHOOSE p \in preds : Latest(p)
  <2>1. /\ Tokened(f) /\ Cmds = DOMAIN f.order /\ DOMAIN f.order \subseteq Nat
        /\ \A c \in Cmds : /\ CmdOf(f.order[c]) = c /\ stream[c].token_out = c
                           /\ stream[c].token_in = f.meta[f.order[c]].token_in
    BY SingleStream
  <2>2. Elements(f.order) = Ids(f)
    BY <2>1 DEF Tokened, Sorted
  <2>3. PICK c \in Cmds : f.order[c] = id /\ CmdOf(id) = c
    BY <2>1, <2>2 DEF Elements
  <2> DEFINE w == f.meta[id].token_in
  <2>4. /\ w \in 0..(c - 1) /\ (w # 0 => f.order[w] \in preds)
        /\ \A j \in DOMAIN f.order : f.order[j] \in preds => j <= w
    BY <2>1, <2>3 DEF Tokened
  <2>5. ASSUME NEW p \in preds PROVE CmdOf(p) \in Cmds /\ f.order[CmdOf(p)] = p /\ CmdOf(p) <= w
    <3>1. PICK j \in DOMAIN f.order : f.order[j] = p
      BY <2>1, <2>3 DEF Tokened, Sorted
    <3>2. CmdOf(p) = j
      BY <2>1, <3>1
    <3>3. QED BY <2>1, <2>4, <3>1, <3>2
  <2> HIDE DEF f, preds, w
  <2>6. w # 0 /\ w \in Nat
    <3>1. PICK p \in preds : TRUE
      BY DEF preds, f
    <3>2. CmdOf(p) \in 1..Len(stream) /\ CmdOf(p) <= w
      BY <2>5 DEF Cmds
    <3>3. c \in 1..Len(stream) /\ Len(stream) \in Nat
      BY <2>3 DEF Cmds, PipelineInv, FabricInv, FabricTypeOK, IsStream
    <3>4. QED BY <2>4, <3>2, <3>3
  <2>7. w \in Cmds /\ f.order[w] \in preds
    <3>1. c \in 1..Len(stream) /\ Len(stream) \in Nat
      BY <2>3 DEF Cmds, PipelineInv, FabricInv, FabricTypeOK, IsStream
    <3>2. QED BY <2>4, <2>6, <3>1 DEF Cmds
  <2>8. CmdOf(f.order[w]) = w
    BY <2>1, <2>7
  <2>9. Latest(f.order[w])
    BY <2>5, <2>8
  <2>10. last \in preds /\ Latest(last)
    <3> HIDE DEF Latest
    <3>1. QED BY <2>7, <2>9
  <2> HIDE DEF last
  <2>11. CmdOf(last) = w
    <3>1. w <= CmdOf(last) /\ CmdOf(last) <= w /\ CmdOf(last) \in Nat
      BY <2>1, <2>5, <2>7, <2>8, <2>10
    <3>2. QED BY <2>6, <3>1
  <2>12. w \in done
    <3>1. c \in Cmds \ PendingSet
      BY <2>3 DEF Launched1
    <3>2. stream[c].token_in = w
      BY <2>1, <2>3 DEF w
    <3>3. PICK b \in done : stream[b].token_out = w
      BY <2>6, <3>1, <3>2 DEF PipelineInv, FabricInv, TokenWait
    <3>4. b \in Cmds
      BY <3>3 DEF PipelineInv, FabricInv, FabricTypeOK
    <3>5. QED BY <2>1, <3>3, <3>4
  <2>13. Retired1(last)
    BY <2>11, <2>12 DEF Retired1
  <2>14. QED BY <2>13 DEF last, preds, f
<1>2. QED BY <1>1, PipelineSafe, PTL

\* A text that parses compiles under either policy, and a run of it that ends
\* well has completed exactly one command for every instruction in the trees of
\* its kernels, for every text whose blocks are nested at most Levels deep.
THEOREM KernelsRunWhole == Spec => []KernelRunsWhole
<1>1. PipelineInv => KernelRunsWhole
  <2> SUFFICES ASSUME PipelineInv, work.kind = "ptx" PROVE KernelRunsWhole
    BY DEF KernelRunsWhole
  <2>1. stage \notin {"TokenGraphCycle", "NoBindingForChoice"}
    BY DEF PipelineInv, IrInv, KernelInv
  <2>2. ASSUME stage \in {"emitted", "recorded", "replayed"}, result = "ok"
        PROVE  completions = InstructionCount(work.text)
    <3> DEFINE entries == Entries(work.text)
               seqs == [k \in DOMAIN module |-> Dispatches(module[k], policy)]
               terms == [k \in 1..Len(module) |-> Weigh(StatementCount[Levels], entries[k].body)]
    <3>1. /\ policy \in Policies /\ Len(module) \in Nat /\ DOMAIN module = Functions
          /\ module = [k \in 1..Len(module) |-> module[k]] /\ IsText(work.text)
      BY WorkFacts DEF PipelineInv, IrInv
    <3>2. \A k \in Functions : ~BindError(module[k])
      BY <2>2 DEF PipelineInv, IrInv, PassInv, FromEmitted
    <3>3. \A k \in Functions : Ready(module[k], policy)
      BY <2>2, <3>1, <3>2, ReadyModule DEF FromAssigned, FromEmitted
    <3>4. /\ seqs \in Seq(Seq(CmdsOf(module, policy))) /\ Len(seqs) = Len(module)
          /\ \A k \in Functions : seqs[k] = Dispatches(module[k], policy)
      BY <3>1, <3>3, DispatchSeqs DEF Functions
    <3>5. completions = Len(stream) /\ stream = FlattenSeq(seqs)
      BY <2>2 DEF PipelineInv, IrInv, StreamInv, FromEmitted, FabricInv, OkMeansAll, emit_dispatches
    <3>6. IsLowered(module, work.text)
      BY <2>2 DEF PipelineInv, IrInv, KernelInv
    <3>7. /\ Len(entries) = Len(module) /\ DOMAIN entries = 1..Len(module)
          /\ \A k \in 1..Len(module) :
               /\ Weigh(StatementCount[Levels], entries[k].body) \in Nat
               /\ Len(collect_instructions(entries[k].body)) = Weigh(StatementCount[Levels], entries[k].body)
      <4>1. Len(entries) = Len(module)
        BY <3>6 DEF IsLowered
      <4>2. QED BY <3>1, <4>1, EntriesCount
    <3>8. ASSUME NEW k \in 1..Len(module)
          PROVE  Len(seqs[k]) = Weigh(StatementCount[Levels], entries[k].body)
      <4>1. Len(seqs[k]) = Len(module[k].order)
        BY <3>1, <3>3, <3>4, DispatchFacts DEF Functions
      <4>2. Len(module[k].order) = Cardinality(Ids(module[k]))
        BY <3>3 DEF Ready, Tokened, Sorted, Functions
      <4>3. Cardinality(Ids(module[k])) = Len(collect_instructions(entries[k].body))
        BY <3>6 DEF IsLowered, IsKernel
      <4> HIDE DEF seqs, entries
      <4>4. QED BY <3>7, <4>1, <4>2, <4>3
    <3>9. SumSeq(terms) = InstructionCount(work.text)
      BY <3>1, <3>7, EntriesCount
    <3> HIDE DEF seqs, entries
    <3>10. /\ terms \in [1..Len(module) -> Nat]
           /\ \A k \in 1..Len(module) : terms[k] = Len(seqs[k])
      BY <3>7, <3>8
    <3> HIDE DEF terms
    <3>11. Len(FlattenSeq(seqs)) = SumSeq(terms)
      BY <3>4, <3>10, FlattenLength
    <3>12. QED BY <3>5, <3>9, <3>11
  <2>3. QED BY <2>1, <2>2 DEF KernelRunsWhole
<1>2. QED BY <1>1, PipelineSafe, PTL

\* A replay dispatches the recorded stream again and, where no RTL is involved,
\* ends like the recorded run, in as many cycles, whatever order the swaps of
\* the two runs have left.
THEOREM ReplaysRepeat == Spec => []ReplayRepeats
<1>1. PipelineInv => ReplayRepeats
  <2> SUFFICES ASSUME PipelineInv, stage = "replayed" PROVE ReplayRepeats
    BY DEF ReplayRepeats
  <2>1. /\ artifact[1].ran = stream /\ artifact[1].completed = Len(stream)
        /\ CpuOnly => artifact[1].cycles = Cost(stream, Cmds)
    BY DEF PipelineInv, IrInv, ArtifactInv
  <2>2. ASSUME pc = "idle", CpuOnly
        PROVE  /\ result = "ok" /\ total_cycles = artifact[1].cycles
               /\ completions = artifact[1].completed
    <3>1. /\ DOMAIN module = Functions /\ \A k \in Functions : ~BindError(module[k])
          /\ stream = emit_dispatches(module, policy) /\ result # "none"
      BY WorkFacts DEF PipelineInv, IrInv, PassInv, StreamInv, FromEmitted
    <3>2. WellTokened(stream)
      BY <3>1, ReadyModule DEF FromAssigned, FromEmitted
    <3>3. /\ result \in Result /\ result # "running" /\ result # "stuck"
          /\ result # "global_timeout" /\ result # "timeout"
      BY <2>2, <3>2 DEF PipelineInv, CpuRun, FabricInv, FabricTypeOK, LoopShape, NeverStuck, GlobalCapLoose
    <3>4. result = "ok"
      BY <3>1, <3>3 DEF Result
    <3>5. done = Cmds /\ completions = Len(stream)
      BY <3>4 DEF PipelineInv, FabricInv, OkMeansAll
    <3>6. total_cycles = Cost(stream, Cmds)
      BY <2>2, <3>5 DEF PipelineInv, CpuRun
    <3>7. QED BY <2>1, <2>2, <3>4, <3>5, <3>6
  <2>3. QED BY <2>1, <2>2 DEF ReplayRepeats, CpuOnly
<1>2. QED BY <1>1, PipelineSafe, PTL

\* The ops of a node.
OpsAt(f, rtlmap, node) ==
  {id \in Ids(f) : /\ f.meta[id].source_hint \in DOMAIN rtlmap.hints
                   /\ rtlmap.hints[f.meta[id].source_hint] = node}

\* What it means that the validator finds no difference, whichever op of a node
\* its map has kept.
LEMMA FoundMeans ==
  ASSUME NEW f, WellFormed(f), NEW rtlmap, IsOracle(rtlmap), Found(f, rtlmap), NEW p, Picked(f, p)
  PROVE  /\ \A n \in rtlmap.nodes :
              /\ \E id \in OpsAt(f, rtlmap, n[1]) : f.meta[id].backend = n[2]
              /\ p # "default_v1" => \A id \in OpsAt(f, rtlmap, n[1]) : f.meta[id].backend = n[2]
         /\ \A m, n \in rtlmap.nodes :
              <<m[1], n[1], "token">> \in rtlmap.edges <=>
                \E a \in OpsAt(f, rtlmap, m[1]), b \in OpsAt(f, rtlmap, n[1]) : DependsOn(f, b, a)
<1> DEFINE op_to_node == OpToNode(f, rtlmap.hints)
           HintOfOp(id) == f.meta[id].source_hint
           D == {x \in Ids(f) : HintOfOp(x) \in DOMAIN rtlmap.hints}
<1>1. op_to_node = [id \in D |-> rtlmap.hints[HintOfOp(id)]]
  BY DEF OpToNode, Ids
<1> HIDE DEF op_to_node
<1>2. DOMAIN op_to_node = D /\ \A id \in D : op_to_node[id] = rtlmap.hints[HintOfOp(id)]
  BY <1>1
<1>3. PICK node_to_op \in NodeToOps(op_to_node) : Matches(f, rtlmap, op_to_node, node_to_op)
  BY DEF Found, op_to_node
<1>4. /\ node_to_op \in [Range(op_to_node) -> D]
      /\ \A node \in DOMAIN node_to_op : op_to_node[node_to_op[node]] = node
  BY <1>2, <1>3 DEF NodeToOps
<1>5. \A x, y : Difference(x, y) = {} => x = y
  BY DEF Difference
<1>6. /\ {n[1] : n \in rtlmap.nodes} = DOMAIN node_to_op
      /\ \A n \in rtlmap.nodes : n[1] \in DOMAIN node_to_op => f.meta[node_to_op[n[1]]].backend = n[2]
      /\ OracleEdges(rtlmap) = ActualEdges(f, op_to_node)
  BY <1>3, <1>5 DEF Matches
<1>7. \A n \in rtlmap.nodes : OpsAt(f, rtlmap, n[1]) = {id \in D : op_to_node[id] = n[1]}
  BY <1>2 DEF OpsAt
<1> HIDE DEF D
<1>8. ASSUME NEW n \in rtlmap.nodes
      PROVE  node_to_op[n[1]] \in OpsAt(f, rtlmap, n[1]) /\ f.meta[node_to_op[n[1]]].backend = n[2]
  <2>1. n[1] \in DOMAIN node_to_op
    BY <1>6
  <2>2. node_to_op[n[1]] \in D /\ op_to_node[node_to_op[n[1]]] = n[1]
    BY <1>4, <2>1
  <2>3. QED BY <1>6, <1>7, <2>1, <2>2
<1>9. ASSUME p # "default_v1", NEW n \in rtlmap.nodes, NEW id \in OpsAt(f, rtlmap, n[1])
      PROVE  f.meta[id].backend = n[2]
  <2>1. \A x \in D : x \in Ids(f) /\ f.meta[x].backend = p
    BY <1>9 DEF Picked, Pick, D
  <2>2. id \in D /\ node_to_op[n[1]] \in D
    BY <1>7, <1>8, <1>9
  <2>3. QED BY <1>8, <2>1, <2>2
<1>10. ASSUME NEW m \in rtlmap.nodes, NEW n \in rtlmap.nodes
       PROVE  <<m[1], n[1], "token">> \in rtlmap.edges <=>
                \E a \in OpsAt(f, rtlmap, m[1]), b \in OpsAt(f, rtlmap, n[1]) : DependsOn(f, b, a)
  <2>1. <<m[1], n[1], "token">> \in rtlmap.edges <=> <<m[1], n[1]>> \in OracleEdges(rtlmap)
    <3>1. ASSUME <<m[1], n[1], "token">> \in rtlmap.edges PROVE <<m[1], n[1]>> \in OracleEdges(rtlmap)
      <4> DEFINE e == <<m[1], n[1], "token">>
      <4>1. e \in {x \in rtlmap.edges : x[3] = "token"} /\ <<e[1], e[2]>> = <<m[1], n[1]>>
        BY <3>1
      <4> HIDE DEF e
      <4>2. QED BY <4>1 DEF OracleEdges
    <3>2. ASSUME <<m[1], n[1]>> \in OracleEdges(rtlmap) PROVE <<m[1], n[1], "token">> \in rtlmap.edges
      <4>1. PICK e \in {x \in rtlmap.edges : x[3] = "token"} : <<m[1], n[1]>> = <<e[1], e[2]>>
        BY <3>2 DEF OracleEdges
      <4>2. e = <<e[1], e[2], e[3]>> /\ e[3] = "token" /\ e[1] = m[1] /\ e[2] = n[1]
        BY <4>1 DEF IsOracle
      <4>3. QED BY <4>1, <4>2
    <3>3. QED BY <3>1, <3>2
  <2>2. ASSUME <<m[1], n[1]>> \in ActualEdges(f, op_to_node)
        PROVE  \E a \in OpsAt(f, rtlmap, m[1]), b \in OpsAt(f, rtlmap, n[1]) : DependsOn(f, b, a)
    <3>1. PICK e \in {x \in f.edges : {Src(x), Dst(x)} \subseteq DOMAIN op_to_node} :
            <<m[1], n[1]>> = <<op_to_node[Src(e)], op_to_node[Dst(e)]>>
      BY <2>2 DEF ActualEdges
    <3>2. /\ Src(e) \in D /\ op_to_node[Src(e)] = m[1] /\ Dst(e) \in D /\ op_to_node[Dst(e)] = n[1]
          /\ DependsOn(f, Dst(e), Src(e))
      BY <1>2, <3>1 DEF DependsOn
    <3>3. Src(e) \in OpsAt(f, rtlmap, m[1]) /\ Dst(e) \in OpsAt(f, rtlmap, n[1])
      BY <1>7, <3>2
    <3>4. QED BY <3>2, <3>3
  <2>3. ASSUME NEW a \in OpsAt(f, rtlmap, m[1]), NEW b \in OpsAt(f, rtlmap, n[1]), DependsOn(f, b, a)
        PROVE  <<m[1], n[1]>> \in ActualEdges(f, op_to_node)
    <3>1. PICK e \in f.edges : Src(e) = a /\ Dst(e) = b
      BY <2>3 DEF DependsOn
    <3>2. a \in D /\ b \in D /\ op_to_node[a] = m[1] /\ op_to_node[b] = n[1]
      BY <1>7, <2>3
    <3>3. /\ e \in {x \in f.edges : {Src(x), Dst(x)} \subseteq DOMAIN op_to_node}
          /\ <<m[1], n[1]>> = <<op_to_node[Src(e)], op_to_node[Dst(e)]>>
      BY <1>2, <3>1, <3>2
    <3>4. QED BY <3>3 DEF ActualEdges
  <2>4. QED BY <1>6, <2>1, <2>2, <2>3
<1>11. QED BY <1>8, <1>9, <1>10

\* A validator that says match has found every node of the oracle on an op whose
\* IP it is, and exactly the oracle's token edges, for every function, oracle and
\* choice that the iteration over its HashMap makes.
THEOREM MatchIsMeant == Spec => []MatchMeans
<1>1. PipelineInv => MatchMeans
  <2> SUFFICES ASSUME PipelineInv, verdict = "match" PROVE MatchMeans
    BY DEF MatchMeans
  <2> DEFINE rtlmap == work.oracle[1]
             f == module[1]
             AtNode(node) == {id \in Ids(f) : /\ f.meta[id].source_hint \in DOMAIN rtlmap.hints
                                              /\ rtlmap.hints[f.meta[id].source_hint] = node}
  <2>1. stage \in FromAssigned /\ module # <<>> /\ work.oracle # <<>> /\ Found(f, rtlmap)
    BY DEF PipelineInv, IrInv, VerdictInv
  <2>2. IsOracle(rtlmap)
    BY <2>1, WorkAssumption DEF PipelineInv, IrInv, ModuleInv
  <2>3. 1 \in Functions
    <3>1. Len(module) \in Nat /\ module = [k \in 1..Len(module) |-> module[k]]
      BY WorkFacts DEF PipelineInv, IrInv
    <3>2. Len(module) # 0
      BY <2>1, <3>1
    <3>3. QED BY <3>1, <3>2 DEF Functions
  <2>4. WellFormed(f) /\ Picked(f, policy)
    BY <2>1, <2>3, WorkFacts DEF PipelineInv, IrInv, PassInv, FromSelected
  <2>5. /\ \A n \in rtlmap.nodes :
             /\ \E id \in OpsAt(f, rtlmap, n[1]) : f.meta[id].backend = n[2]
             /\ policy # "default_v1" => \A id \in OpsAt(f, rtlmap, n[1]) : f.meta[id].backend = n[2]
        /\ \A m, n \in rtlmap.nodes :
             <<m[1], n[1], "token">> \in rtlmap.edges <=>
               \E a \in OpsAt(f, rtlmap, m[1]), b \in OpsAt(f, rtlmap, n[1]) : DependsOn(f, b, a)
    <3> HIDE DEF f, rtlmap
    <3>1. QED BY <2>1, <2>2, <2>4, FoundMeans
  <2>6. QED BY <2>5 DEF MatchMeans, OpsAt
<1>2. QED BY <1>1, PipelineSafe, PTL
=============================================================================
