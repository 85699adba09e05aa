--------------------------- MODULE NestedBspProofs ---------------------------
(***************************************************************************)
(* The nested BSP barrier releases no superstep falsely, fails no healthy  *)
(* cell and passes none that the offline validator rejects, for every      *)
(* number of devices, blocks and supersteps.                               *)
(***************************************************************************)
EXTENDS NestedBsp, DataLemmas, FiniteSetTheorems

(***************************************************************************)
(* Tiles and groups                                                        *)
(***************************************************************************)
LEMMA CellFacts ==
  ASSUME cell \in Cells
  PROVE  /\ cell.devices \in Nat \ {0} /\ cell.blocks \in Nat \ {0}
         /\ cell.mode \in Mode /\ cell.fault \in FAULTS \cup {None}
         /\ Target \in Tiles /\ Target \in Nat /\ Tiles = 0..Target /\ 0 \in Tiles /\ 0 \in Blocks
         /\ Indices \in 1..cell.blocks
         /\ Tiles \subseteq Nat /\ Blocks \subseteq Nat
<1>1. cell \in [devices : Nat \ {0}, blocks : Nat \ {0}, mode : Mode, fault : FAULTS \cup {None}]
  BY BspAssumption
<1>2. cell.devices \in Nat \ {0} /\ cell.blocks \in Nat \ {0} /\ cell.mode \in Mode
      /\ cell.fault \in FAULTS \cup {None}
  BY <1>1
<1>3. QED BY <1>2 DEF Target, Tiles, Blocks, Indices

\* Only a nested barrier has more than one group.
LEMMA OneGroup ==
  ASSUME cell \in Cells, ~Nested
  PROVE  RetryFrom = 0
<1> DEFINE d == cell.devices
<1>1. d \in Nat \ {0} /\ cell.mode \in Mode
  BY CellFacts
<1>2. GroupSize = d
  BY <1>1 DEF GroupSize, Nested, Mode
<1>3. (d - 1) \div d = 0
  <2>1. ASSUME NEW n \in Nat \ {0} PROVE (n - 1) \div n = 0
    OBVIOUS
  <2> HIDE DEF d
  <2>2. QED BY <1>1, <2>1
<1>4. QED BY <1>1, <1>2, <1>3 DEF RetryFrom, FirstOf, GroupOf, Target

LEMMA GroupFacts ==
  ASSUME cell \in Cells, Nested
  PROVE  /\ GroupSize \in {2, 4}
         /\ \A t \in Tiles : /\ GroupOf(t) \in Groups /\ FirstOf(GroupOf(t)) \in Nat
                             /\ FirstOf(GroupOf(t)) <= t /\ t <= LastOf(GroupOf(t))
                             /\ t # LastOf(GroupOf(t)) => t < Target /\ GroupOf(t + 1) = GroupOf(t)
         /\ \A g \in Groups : /\ FirstOf(g) \in Tiles /\ LastOf(g) \in Tiles /\ FirstOf(g) <= LastOf(g)
                              /\ SizeOf(g) \in 1..4 /\ SizeOf(g) = LastOf(g) - FirstOf(g) + 1
                              /\ GroupOf(FirstOf(g)) = g /\ GroupOf(LastOf(g)) = g
                              /\ LastOf(g) < Target => /\ g < GroupOf(Target) /\ g + 1 \in Groups
                                                       /\ FirstOf(g + 1) = LastOf(g) + 1
                              /\ ~(LastOf(g) < Target) => g = GroupOf(Target) /\ LastOf(g) = Target
         /\ GroupOf(Target) \in Groups /\ Groups = 0..GroupOf(Target) /\ Groups \subseteq Nat
         /\ GroupOf(Target) \in Nat /\ GroupCount = GroupOf(Target) + 1 /\ GroupOf(0) = 0
         /\ RetryFrom \in Tiles /\ FirstOf(0) = 0
<1>1. cell.devices \in Nat \ {0} /\ GroupSize \in {2, 4}
  BY CellFacts DEF Nested, GroupSize
<1> DEFINE K == GroupSize
           q == GroupOf(Target)
<1>2. \A g, h \in Nat : /\ FirstOf(g) \in Nat /\ FirstOf(g + 1) = FirstOf(g) + K
                        /\ g < h => FirstOf(g) + K <= FirstOf(h)
  <2>1. CASE K = 2
    BY <2>1 DEF FirstOf
  <2>2. CASE K = 4
    BY <2>2 DEF FirstOf
  <2>3. QED BY <1>1, <2>1, <2>2
<1>3. \A t \in Nat : GroupOf(t) \in Nat /\ FirstOf(GroupOf(t)) <= t /\ t <= FirstOf(GroupOf(t)) + K - 1
  <2>1. CASE K = 2
    BY <2>1 DEF FirstOf, GroupOf
  <2>2. CASE K = 4
    BY <2>2 DEF FirstOf, GroupOf
  <2>3. QED BY <1>1, <2>1, <2>2
<1>4. \A g, t \in Nat : FirstOf(g) <= t /\ t <= FirstOf(g) + K - 1 => GroupOf(t) = g
  <2>1. CASE K = 2
    BY <2>1 DEF FirstOf, GroupOf
  <2>2. CASE K = 4
    BY <2>2 DEF FirstOf, GroupOf
  <2>3. QED BY <1>1, <2>1, <2>2
<1>5. Target \in Nat /\ Tiles = 0..Target
  BY CellFacts
<1>6. K \in Nat /\ K - 1 \in Nat /\ K <= 4
  BY <1>1
<1>7. q \in Nat /\ FirstOf(q) <= Target /\ Target <= FirstOf(q) + K - 1
  BY <1>3, <1>5
<1>8. /\ \A g : LastOf(g) = IF g = q THEN Target ELSE FirstOf(g) + K - 1
      /\ \A g : SizeOf(g) = LastOf(g) - FirstOf(g) + 1
      /\ RetryFrom = FirstOf(q) /\ Groups = 0..(q + 1) - 1 /\ GroupCount = q + 1
  BY DEF LastOf, SizeOf, RetryFrom, Groups, GroupCount
<1>9. GroupOf(0) = 0 /\ FirstOf(0) = 0
  BY <1>1 DEF GroupOf, FirstOf
<1> HIDE DEF K, q
<1>10. Groups = 0..q
  BY <1>7, <1>8
<1>11. ASSUME NEW t \in Tiles
       PROVE  /\ GroupOf(t) \in Groups /\ FirstOf(GroupOf(t)) \in Nat
              /\ FirstOf(GroupOf(t)) <= t /\ t <= LastOf(GroupOf(t))
              /\ t # LastOf(GroupOf(t)) => t < Target /\ GroupOf(t + 1) = GroupOf(t)
  <2>1. t \in Nat /\ t <= Target /\ t + 1 \in Nat
    BY <1>5
  <2>2. PICK g \in Nat : g = GroupOf(t) /\ FirstOf(g) \in Nat /\ FirstOf(g) <= t /\ t <= FirstOf(g) + K - 1
    BY <1>2, <1>3, <2>1
  <2>3. g <= q
    <3>1. SUFFICES ASSUME q < g PROVE FALSE
      BY <1>7, <2>2
    <3>2. FirstOf(q) + K <= FirstOf(g) /\ FirstOf(q) \in Nat
      BY <1>2, <1>7, <2>2, <3>1
    <3>3. QED BY <1>5, <1>6, <1>7, <2>1, <2>2, <3>2
  <2>4. g # q => LastOf(g) = FirstOf(g) + K - 1 /\ FirstOf(g) + K <= FirstOf(q)
    <3>1. g # q => LastOf(g) = FirstOf(g) + K - 1
      BY <1>8, <2>2
    <3>2. g # q => g < q
      BY <1>7, <2>2, <2>3
    <3>3. g # q => FirstOf(g) + K <= FirstOf(q)
      BY <1>2, <1>7, <2>2, <3>2
    <3>4. QED BY <3>1, <3>3
  <2>5. g = q => LastOf(g) = Target
    BY <1>8
  <2>6. FirstOf(q) \in Nat
    BY <1>2, <1>7
  <2>7. t # LastOf(g) => t < Target /\ GroupOf(t + 1) = g
    <3>1. SUFFICES ASSUME t # LastOf(g) PROVE t < Target /\ GroupOf(t + 1) = g
      OBVIOUS
    <3>2. t < Target /\ t + 1 <= FirstOf(g) + K - 1
      BY <1>5, <1>6, <1>7, <2>1, <2>2, <2>4, <2>5, <2>6, <3>1
    <3>3. FirstOf(g) <= t + 1
      BY <2>1, <2>2
    <3>4. QED BY <1>4, <2>1, <2>2, <3>2, <3>3
  <2>8. t <= LastOf(g)
    BY <2>1, <2>2, <2>4, <2>5
  <2>9. g \in Groups
    BY <1>7, <1>10, <2>3
  <2>10. QED BY <2>2, <2>7, <2>8, <2>9
<1>12. ASSUME NEW g \in Groups
       PROVE  /\ FirstOf(g) \in Tiles /\ LastOf(g) \in Tiles /\ FirstOf(g) <= LastOf(g)
              /\ SizeOf(g) \in 1..4 /\ SizeOf(g) = LastOf(g) - FirstOf(g) + 1
              /\ GroupOf(FirstOf(g)) = g /\ GroupOf(LastOf(g)) = g
              /\ LastOf(g) < Target => /\ g < q /\ g + 1 \in Groups /\ FirstOf(g + 1) = LastOf(g) + 1
              /\ ~(LastOf(g) < Target) => g = q /\ LastOf(g) = Target
  <2>1. g \in Nat /\ g <= q
    BY <1>7, <1>10
  <2>2. FirstOf(g) \in Nat /\ FirstOf(q) \in Nat
    BY <1>2, <1>7, <2>1
  <2>3. g = q => LastOf(g) = Target
    BY <1>8
  <2>4. g # q => LastOf(g) = FirstOf(g) + K - 1 /\ FirstOf(g) + K <= FirstOf(q)
    <3>1. g # q => LastOf(g) = FirstOf(g) + K - 1
      BY <1>8
    <3>2. g # q => g < q
      BY <1>7, <2>1
    <3>3. g # q => FirstOf(g) + K <= FirstOf(q)
      BY <1>2, <1>7, <2>1, <3>2
    <3>4. QED BY <3>1, <3>3
  <2>5. g # q => LastOf(g) \in Nat /\ LastOf(g) < Target /\ FirstOf(g) <= LastOf(g)
    BY <1>5, <1>6, <1>7, <2>2, <2>4
  <2>6. LastOf(g) \in Nat /\ LastOf(g) <= Target /\ FirstOf(g) <= LastOf(g) /\ LastOf(g) <= FirstOf(g) + K - 1
    <3>1. CASE g = q
      BY <1>5, <1>7, <2>3, <3>1
    <3>2. CASE g # q
      BY <1>5, <1>6, <2>2, <2>4, <2>5, <3>2
    <3>3. QED BY <3>1, <3>2
  <2>7. GroupOf(FirstOf(g)) = g
    BY <1>4, <1>6, <2>1, <2>2
  <2>8. GroupOf(LastOf(g)) = g
    BY <1>4, <2>1, <2>6
  <2>9. SizeOf(g) = LastOf(g) - FirstOf(g) + 1 /\ SizeOf(g) \in 1..4
    <3>1. SizeOf(g) = LastOf(g) - FirstOf(g) + 1
      BY <1>8
    <3>2. LastOf(g) - FirstOf(g) + 1 \in 1..4
      BY <1>6, <2>2, <2>6
    <3>3. QED BY <3>1, <3>2
  <2>10. LastOf(g) < Target => g < q /\ g + 1 \in Groups /\ FirstOf(g + 1) = LastOf(g) + 1
    <3>1. SUFFICES ASSUME LastOf(g) < Target PROVE g < q /\ g + 1 \in Groups /\ FirstOf(g + 1) = LastOf(g) + 1
      OBVIOUS
    <3>2. g # q /\ g < q
      BY <1>5, <1>7, <2>1, <2>3, <3>1
    <3>3. FirstOf(g + 1) = FirstOf(g) + K
      BY <1>2, <2>1
    <3>4. QED BY <1>6, <1>7, <1>10, <2>1, <2>2, <2>4, <3>2, <3>3
  <2>11. ~(LastOf(g) < Target) => g = q /\ LastOf(g) = Target
    BY <2>3, <2>5
  <2>12. FirstOf(g) \in Tiles /\ LastOf(g) \in Tiles
    BY <1>5, <2>2, <2>6
  <2>13. QED BY <2>6, <2>7, <2>8, <2>9, <2>10, <2>11, <2>12
<1>13. RetryFrom \in Tiles /\ q \in Groups
  BY <1>2, <1>5, <1>7, <1>8, <1>10
<1>14. q = GroupOf(Target)
  BY DEF q
<1>15. QED BY <1>1, <1>7, <1>8, <1>9, <1>10, <1>11, <1>12, <1>13, <1>14

\* The tile that keeps a group's certificate is of that group.
LEMMA Representatives ==
  ASSUME cell \in Cells, Nested, epoch \in Nat
  PROVE  /\ \A g \in Groups : Representative(g) \in Tiles /\ FirstOf(g) <= Representative(g)
                              /\ Representative(g) <= LastOf(g)
         /\ \A g, h \in Groups : g # h => Representative(g) # Representative(h)
<1>1. ASSUME NEW g \in Groups
      PROVE  /\ Representative(g) \in Tiles /\ FirstOf(g) <= Representative(g)
             /\ Representative(g) <= LastOf(g)
  <2>1. FirstOf(g) \in Nat /\ LastOf(g) \in Nat /\ LastOf(g) <= Target /\ SizeOf(g) \in 1..4
        /\ SizeOf(g) = LastOf(g) - FirstOf(g) + 1
    <3>1. FirstOf(g) \in Tiles /\ LastOf(g) \in Tiles /\ SizeOf(g) \in 1..4
          /\ SizeOf(g) = LastOf(g) - FirstOf(g) + 1
      BY GroupFacts
    <3>2. \A x \in Tiles : x \in Nat /\ x <= Target
      BY CellFacts
    <3>3. QED BY <3>1, <3>2
  <2>2. \A n \in 1..4 : epoch % n \in Nat /\ epoch % n <= n - 1
    OBVIOUS
  <2>3. PICK r \in Nat : r = epoch % SizeOf(g) /\ r <= SizeOf(g) - 1
    BY <2>1, <2>2
  <2>4. Representative(g) = FirstOf(g) + r
    BY <2>3 DEF Representative
  <2>5. Target \in Nat /\ Tiles = 0..Target
    BY CellFacts
  <2>6. Representative(g) \in Nat /\ FirstOf(g) <= Representative(g) /\ Representative(g) <= LastOf(g)
    <3>1. r <= SizeOf(g) - 1
      BY <2>3
    <3>2. QED BY <2>1, <2>4, <3>1
  <2>7. QED BY <2>1, <2>5, <2>6
<1>2. ASSUME NEW g \in Groups, NEW h \in Groups, g < h
      PROVE  Representative(g) < Representative(h)
  <2>1. LastOf(g) < FirstOf(h)
    <3>1. g \in Nat /\ h \in Nat /\ h <= GroupOf(Target) /\ GroupOf(Target) \in Nat
      BY GroupFacts
    <3>2. FirstOf(h) \in Nat /\ LastOf(g) \in Nat /\ GroupOf(LastOf(g)) = g /\ GroupOf(FirstOf(h)) = h
      <4>1. FirstOf(h) \in Tiles /\ LastOf(g) \in Tiles /\ GroupOf(LastOf(g)) = g /\ GroupOf(FirstOf(h)) = h
        BY GroupFacts
      <4>2. QED BY <4>1, CellFacts
    <3>3. GroupSize \in {2, 4}
      BY GroupFacts
    <3>4. LastOf(g) = g * GroupSize + GroupSize - 1
      BY <1>2, <3>1 DEF LastOf, FirstOf
    <3>5. FirstOf(h) = h * GroupSize
      BY DEF FirstOf
    <3>6. CASE GroupSize = 2
      BY <1>2, <3>1, <3>4, <3>5, <3>6
    <3>7. CASE GroupSize = 4
      BY <1>2, <3>1, <3>4, <3>5, <3>7
    <3>8. QED BY <3>3, <3>6, <3>7
  <2>2. \A x \in Tiles : x \in Nat
    BY CellFacts
  <2>3. FirstOf(h) \in Nat /\ LastOf(g) \in Nat
    BY <2>2, GroupFacts
  <2>4. QED BY <1>1, <2>1, <2>2, <2>3
<1>3. ASSUME NEW g \in Groups, NEW h \in Groups, g # h
      PROVE  Representative(g) # Representative(h)
  <2>1. g \in Nat /\ h \in Nat
    BY GroupFacts
  <2>2. Representative(g) \in Nat /\ Representative(h) \in Nat
    BY <1>1, CellFacts
  <2>3. g < h \/ h < g
    BY <1>3, <2>1
  <2>4. QED BY <1>2, <2>2, <2>3
<1>4. QED BY <1>1, <1>3

\* A retry begins at a tile, and at the first one unless the barrier is nested.
LEMMA RetryTile ==
  ASSUME cell \in Cells
  PROVE  RetryFrom \in Tiles
  BY OneGroup, GroupFacts, CellFacts

(***************************************************************************)
(* Certificates                                                            *)
(***************************************************************************)
IsCert(c) ==
  /\ c = [magic |-> c.magic, epoch |-> c.epoch, kind |-> c.kind, owner |-> c.owner, members |-> c.members,
          digest |-> c.digest, count |-> c.count]
  /\ c.epoch \in Int /\ c.owner \in Int /\ c.count \in Int
  /\ c.digest = [of |-> c.digest.of, flipped |-> c.digest.flipped] /\ c.digest.flipped \in BOOLEAN

LEMMA CertificateIs ==
  ASSUME NEW e \in Int, NEW k, NEW o \in Int, NEW m, NEW h, NEW n \in Int
  PROVE  IsCert(certificate(e, k, o, m, h, n))
  BY DEF IsCert, certificate, Digest

LEMMA LeastField ==
  ASSUME NEW D \in SUBSET (1..7), D # {}
  PROVE  Min(D) \in D
<1>1. \E x \in D : \A y \in D : x <= y
  <2>1. CASE 1 \in D
    BY <2>1
  <2>2. CASE 1 \notin D /\ 2 \in D
    BY <2>2
  <2>3. CASE 1 \notin D /\ 2 \notin D /\ 3 \in D
    BY <2>3
  <2>4. CASE 1 \notin D /\ 2 \notin D /\ 3 \notin D /\ 4 \in D
    BY <2>4
  <2>5. CASE 1 \notin D /\ 2 \notin D /\ 3 \notin D /\ 4 \notin D /\ 5 \in D
    BY <2>5
  <2>6. CASE 1 \notin D /\ 2 \notin D /\ 3 \notin D /\ 4 \notin D /\ 5 \notin D /\ 6 \in D
    BY <2>6
  <2>7. CASE 1 \notin D /\ 2 \notin D /\ 3 \notin D /\ 4 \notin D /\ 5 \notin D /\ 6 \notin D
    <3>1. PICK x \in D : TRUE
      OBVIOUS
    <3>2. \A y \in D : y \in 1..7 /\ y # 1 /\ y # 2 /\ y # 3 /\ y # 4 /\ y # 5 /\ y # 6
      BY <2>7
    <3>3. \A y \in D : y = 7
      BY <3>2
    <3>4. QED BY <3>1, <3>3
  <2>8. QED BY <2>1, <2>2, <2>3, <2>4, <2>5, <2>6, <2>7
<1>2. QED BY <1>1 DEF Min

\* A certificate that is accepted is the expected one.
LEMMA AcceptedIsExpected ==
  ASSUME NEW a, NEW e, IsCert(a), IsCert(e), check_certificate(a, e) = None
  PROVE  a = e
<1> DEFINE D == Differing(a, e)
<1>1. D \in SUBSET (1..7)
  BY DEF Differing
<1>2. D = {}
  <2>1. SUFFICES ASSUME D # {} PROVE FALSE
    OBVIOUS
  <2>2. Min(D) \in 1..7
    <3> HIDE DEF D
    <3>1. QED BY <1>1, <2>1, LeastField
  <2>3. check_certificate(a, e) = FieldFault[Min(D)]
    BY <2>1 DEF check_certificate
  <2> HIDE DEF D
  <2>4. QED BY <2>2, <2>3 DEF FieldFault, None
<1>3. \A i \in 1..7 : Fields(a)[i] = Fields(e)[i]
  BY <1>2 DEF Differing
<1>4. a.magic = e.magic /\ a.epoch = e.epoch /\ a.kind = e.kind /\ a.owner = e.owner /\ a.members = e.members
      /\ a.digest = e.digest /\ a.count = e.count
  <2>1. 1 \in 1..7 /\ 2 \in 1..7 /\ 3 \in 1..7 /\ 4 \in 1..7 /\ 5 \in 1..7 /\ 6 \in 1..7
        /\ 7 \in 1..7
    OBVIOUS
  <2>2. Fields(a)[1] = Fields(e)[1] /\ Fields(a)[2] = Fields(e)[2] /\ Fields(a)[3] = Fields(e)[3]
        /\ Fields(a)[4] = Fields(e)[4] /\ Fields(a)[5] = Fields(e)[5] /\ Fields(a)[6] = Fields(e)[6]
        /\ Fields(a)[7] = Fields(e)[7]
    BY <1>3, <2>1
  <2>3. QED BY <2>2 DEF Fields
<1>5. QED BY <1>4 DEF IsCert

LEMMA ExpectedIsAccepted ==
  ASSUME NEW c
  PROVE  check_certificate(c, c) = None
<1>1. Differing(c, c) = {}
  BY DEF Differing
<1>2. QED BY <1>1 DEF check_certificate

\* A corrupted certificate is found, and its fault is named.
LEMMA CorruptionNamed ==
  ASSUME NEW c, IsCert(c), NEW f \in FAULTS
  PROVE  IsCert(corrupt(c, f)) /\ corrupt(c, f) # c /\ check_certificate(corrupt(c, f), c) = f
<1> DEFINE b == corrupt(c, f)
<1>0. \A n \in Int : Min({n}) = n
  BY DEF Min
<1>1. f = "missing_record" \/ f = "stale_epoch" \/ f = "wrong_tile" \/ f = "corrupt_digest"
  BY DEF FAULTS
<1>2. SUFFICES ASSUME TRUE PROVE IsCert(b) /\ b # c /\ \E i \in 1..7 : Differing(b, c) = {i} /\ FieldFault[i] = f
  <2> HIDE DEF b
  <2>1. PICK i \in 1..7 : Differing(b, c) = {i} /\ FieldFault[i] = f
    BY <1>2
  <2>2. Min({i}) = i
    BY <1>0
  <2>3. check_certificate(b, c) = f
    BY <2>1, <2>2 DEF check_certificate
  <2>4. QED BY <1>2, <2>3 DEF b
<1>3. CASE f = "missing_record"
  <2>1. b = [c EXCEPT !.count = @ - 1]
    BY <1>3 DEF corrupt
  <2> HIDE DEF b
  <2>2. IsCert(b) /\ b.count # c.count /\ b.epoch = c.epoch /\ b.kind = c.kind /\ b.owner = c.owner
        /\ b.members = c.members /\ b.digest = c.digest /\ b.magic = c.magic
    BY <2>1 DEF IsCert
  <2>3. Differing(b, c) = {7}
    BY <2>2 DEF Differing, Fields
  <2>4. QED BY <1>3, <2>2, <2>3 DEF FieldFault
<1>4. CASE f = "stale_epoch"
  <2>1. b = [c EXCEPT !.epoch = @ - 1]
    BY <1>4 DEF corrupt
  <2> HIDE DEF b
  <2>2. IsCert(b) /\ b.count = c.count /\ b.epoch # c.epoch /\ b.kind = c.kind /\ b.owner = c.owner
        /\ b.members = c.members /\ b.digest = c.digest /\ b.magic = c.magic
    BY <2>1 DEF IsCert
  <2>3. Differing(b, c) = {2}
    BY <2>2 DEF Differing, Fields
  <2>4. QED BY <1>4, <2>2, <2>3 DEF FieldFault
<1>5. CASE f = "wrong_tile"
  <2>1. b = [c EXCEPT !.owner = @ + 1]
    BY <1>5 DEF corrupt
  <2> HIDE DEF b
  <2>2. IsCert(b) /\ b.count = c.count /\ b.epoch = c.epoch /\ b.kind = c.kind /\ b.owner # c.owner
        /\ b.members = c.members /\ b.digest = c.digest /\ b.magic = c.magic
    BY <2>1 DEF IsCert
  <2>3. Differing(b, c) = {4}
    BY <2>2 DEF Differing, Fields
  <2>4. QED BY <1>5, <2>2, <2>3 DEF FieldFault
<1>6. CASE f = "corrupt_digest"
  <2>1. b = [c EXCEPT !.digest.flipped = ~@]
    BY <1>6 DEF corrupt
  <2> HIDE DEF b
  <2>2. b.digest.flipped # c.digest.flipped /\ b.count = c.count /\ b.epoch = c.epoch /\ b.kind = c.kind
        /\ b.owner = c.owner /\ b.members = c.members /\ b.magic = c.magic
    BY <2>1 DEF IsCert
  <2>3. IsCert(b) /\ b.digest # c.digest
    BY <2>1, <2>2 DEF IsCert
  <2>4. Differing(b, c) = {6}
    BY <2>2, <2>3 DEF Differing, Fields
  <2>5. QED BY <1>6, <2>2, <2>3, <2>4 DEF FieldFault
<1>7. QED BY <1>1, <1>3, <1>4, <1>5, <1>6

(***************************************************************************)
(* The reduction and the oracle                                            *)
(***************************************************************************)
LEMMA TotalNat ==
  ASSUME NEW term, NEW N \in Nat, \A n \in 0..N - 1 : term[n] \in Nat
  PROVE  Total(term, N) \in Nat
<1> DEFINE Sums(f) == f = [n \in 0..N |-> IF n = 0 THEN 0 ELSE f[n - 1] + term[n - 1]]
           sum == CHOOSE f : Sums(f)
           next == [n \in 1..N |-> term[n - 1]]
<1>1. next \in [1..N -> Nat]
  OBVIOUS
<1>2. PICK f \in [0..N -> Nat] : f[0] = 0 /\ \A n \in 1..N : f[n] = f[n - 1] + next[n]
  <2> HIDE DEF next
  <2>1. QED BY <1>1, Summation
<1>3. \A n \in 1..N : f[n] = f[n - 1] + term[n - 1]
  BY <1>2
<1>4. Sums(f)
  BY <1>2, <1>3
<1>5. Sums(sum)
  <2> HIDE DEF Sums
  <2>1. QED BY <1>4
<1>6. Total(term, N) = sum[N]
  BY DEF Total
<1>7. sum[0] = 0 /\ \A n \in 1..N : sum[n] = sum[n - 1] + term[n - 1]
  <2> HIDE DEF sum
  <2>1. sum[0] = 0
    BY <1>5
  <2>2. ASSUME NEW n \in 1..N PROVE sum[n] = sum[n - 1] + term[n - 1]
    <3>1. n \in 0..N /\ n # 0
      OBVIOUS
    <3>2. QED BY <1>5, <3>1
  <2>3. QED BY <2>1, <2>2
<1> HIDE DEF sum, Sums, next
<1> DEFINE S == {n \in 0..N : sum[n] \in Nat}
<1>8. 0..N \subseteq S
  <2>1. 0 \in S
    BY <1>7
  <2>2. ASSUME NEW n \in 1..N, n - 1 \in S PROVE n \in S
    <3>1. n - 1 \in 0..N - 1 /\ sum[n - 1] \in Nat
      BY <2>2
    <3>2. term[n - 1] \in Nat
      BY <3>1
    <3>3. QED BY <1>7, <3>1, <3>2
  <2> HIDE DEF S
  <2>3. QED BY <2>1, <2>2, BoundedInduction
<1>9. QED BY <1>6, <1>8

\* output_bytes and Reduce return words.
LEMMA OutcomeWords ==
  ASSUME cell \in Cells, NEW s \in Int, NEW e \in Int
  PROVE  \A t \in Tiles, b \in Blocks : output_bytes(s, e, t, b) \in Nat
<1>1. \A n \in Int : n % Modulus \in Nat
  BY BspAssumption
<1>2. ASSUME NEW t \in Nat, NEW b \in Nat PROVE output_bytes(s, e, t, b) \in Nat
  <2>1. s * 3 + (e + 1) * 1009 + t * 131 + b * 17 \in Int
    OBVIOUS
  <2>2. QED BY <1>1, <2>1 DEF output_bytes
<1>3. QED BY <1>2, CellFacts

LEMMA ReduceNat ==
  ASSUME cell \in Cells, NEW m, \A t \in Tiles, b \in Blocks : m[t][b] \in Nat
  PROVE  Reduce(m) \in Nat
<1> DEFINE row == [t \in Tiles |-> Total(m[t], cell.blocks)]
<1>1. cell.devices \in Nat /\ cell.blocks \in Nat
  BY CellFacts
<1>2. ASSUME NEW t \in 0..cell.devices - 1 PROVE row[t] \in Nat
  <2>1. \A b \in 0..cell.blocks - 1 : m[t][b] \in Nat
    BY DEF Tiles, Blocks
  <2>2. Total(m[t], cell.blocks) \in Nat
    BY <1>1, <2>1, TotalNat
  <2>3. QED BY <2>2 DEF Tiles
<1>3. Total(row, cell.devices) \in Nat
  <2> HIDE DEF row
  <2>1. QED BY <1>1, <1>2, TotalNat
<1>4. \A n \in Nat : n % Modulus \in Nat
  BY BspAssumption
<1>5. Reduce(m) = Total(row, cell.devices) % Modulus
  BY DEF Reduce
<1> HIDE DEF row
<1>6. QED BY <1>3, <1>4, <1>5

\* serial_oracle, superstep by superstep.
LEMMA OracleSteps ==
  ASSUME cell \in Cells
  PROVE  /\ serial_oracle[0] = 7
         /\ \A e \in 0..Steps : serial_oracle[e] \in Nat
         /\ \A e \in 0..Steps - 1 : serial_oracle[e + 1] = Reduce(Outcome(serial_oracle[e], e))
<1> DEFINE Goes(f) == f = [e \in 0..Steps |-> IF e = 0 THEN 7 ELSE Reduce(Outcome(f[e - 1], e - 1))]
           after == CHOOSE f : Goes(f)
           step == [p \in (1..Steps) \X Nat |-> Reduce(Outcome(p[2], p[1] - 1))]
<1>1. Steps \in Nat
  BY BspAssumption
<1>2. ASSUME NEW s \in Nat, NEW e \in Int PROVE Reduce(Outcome(s, e)) \in Nat
  <2>1. ASSUME NEW t \in Tiles, NEW b \in Blocks PROVE Outcome(s, e)[t][b] \in Nat
    <3>1. Outcome(s, e)[t][b] = output_bytes(s, e, t, b)
      BY DEF Outcome
    <3>2. s \in Int
      OBVIOUS
    <3>3. output_bytes(s, e, t, b) \in Nat
      BY <3>2, OutcomeWords
    <3>4. QED BY <3>1, <3>3
  <2>2. QED BY <2>1, ReduceNat
<1>3. step \in StepFunctions(Steps, Nat)
  <2>1. \A p \in (1..Steps) \X Nat : Reduce(Outcome(p[2], p[1] - 1)) \in Nat
    <3>1. ASSUME NEW p \in (1..Steps) \X Nat PROVE Reduce(Outcome(p[2], p[1] - 1)) \in Nat
      <4>1. p[1] - 1 \in Int /\ p[2] \in Nat
        BY <1>1
      <4>2. QED BY <1>2, <4>1
    <3>2. QED BY <3>1
  <2>2. QED BY <2>1 DEF StepFunctions
<1>4. PICK f : Unfolds(f, Steps, Nat, 7, step)
  <2> HIDE DEF step
  <2>1. QED BY <1>1, <1>3, Recursion
<1>5. f \in [0..Steps -> Nat] /\ f[0] = 7
  BY <1>4 DEF Unfolds
<1>6. ASSUME NEW n \in 1..Steps PROVE f[n] = Reduce(Outcome(f[n - 1], n - 1))
  <2>1. <<n, f[n - 1]>> \in (1..Steps) \X Nat
    BY <1>1, <1>5
  <2>2. f[n] = step[<<n, f[n - 1]>>]
    BY <1>4 DEF Unfolds
  <2>3. QED BY <2>1, <2>2
<1>7. Goes(f)
  <2>1. \A e \in 0..Steps : f[e] = IF e = 0 THEN 7 ELSE Reduce(Outcome(f[e - 1], e - 1))
    BY <1>1, <1>5, <1>6
  <2>2. QED BY <1>5, <2>1
<1>8. Goes(after)
  <2> HIDE DEF Goes
  <2>1. QED BY <1>7
<1>9. serial_oracle = after
  BY DEF serial_oracle
<1>10. after[0] = 7 /\ \A e \in 1..Steps : after[e] = Reduce(Outcome(after[e - 1], e - 1))
  <2> HIDE DEF after
  <2>1. after[0] = 7
    BY <1>1, <1>8
  <2>2. ASSUME NEW e \in 1..Steps PROVE after[e] = Reduce(Outcome(after[e - 1], e - 1))
    <3>1. e \in 0..Steps /\ e # 0
      BY <1>1
    <3>2. QED BY <1>8, <3>1
  <2>3. QED BY <2>1, <2>2
<1> HIDE DEF after, Goes, step
<1> DEFINE S == {e \in 0..Steps : after[e] \in Nat}
<1>11. 0..Steps \subseteq S
  <2>1. 0 \in S
    BY <1>1, <1>10
  <2>2. ASSUME NEW n \in 1..Steps, n - 1 \in S PROVE n \in S
    <3>1. after[n - 1] \in Nat /\ n - 1 \in Int /\ n \in 0..Steps
      BY <1>1, <2>2
    <3>2. QED BY <1>2, <1>10, <3>1
  <2> HIDE DEF S
  <2>3. QED BY <1>1, <2>1, <2>2, BoundedInduction
<1>12. ASSUME NEW e \in 0..Steps - 1 PROVE after[e + 1] = Reduce(Outcome(after[e], e))
  <2>1. e + 1 \in 1..Steps /\ (e + 1) - 1 = e
    BY <1>1
  <2>2. QED BY <1>10, <2>1
<1>13. QED BY <1>9, <1>10, <1>11, <1>12

(***************************************************************************)
(* What a step keeps                                                       *)
(***************************************************************************)
LEMMA SameCell ==
  ASSUME cell' = cell
  PROVE  /\ Tiles' = Tiles /\ Blocks' = Blocks /\ Target' = Target /\ Nested' = Nested
         /\ Groups' = Groups /\ Indices' = Indices /\ RetryFrom' = RetryFrom
         /\ \A g : FirstOf(g)' = FirstOf(g) /\ SizeOf(g)' = SizeOf(g) /\ LastOf(g)' = LastOf(g)
                   /\ Members(g)' = Members(g)
         /\ \A t : GroupOf(t)' = GroupOf(t)
<1>1. GroupSize' = GroupSize /\ Target' = Target /\ Tiles' = Tiles /\ Blocks' = Blocks
      /\ Nested' = Nested /\ Indices' = Indices
  BY DEF GroupSize, Target, Tiles, Blocks, Nested, Indices
<1>2. \A t : GroupOf(t)' = GroupOf(t)
  BY <1>1 DEF GroupOf
<1>3. \A g : FirstOf(g)' = FirstOf(g)
  BY <1>1 DEF FirstOf
<1>4. \A g : LastOf(g)' = LastOf(g)
  BY <1>1, <1>3 DEF LastOf, GroupOf
<1>5. \A g : SizeOf(g)' = SizeOf(g) /\ Members(g)' = Members(g)
  BY <1>3, <1>4 DEF SizeOf, Members
<1>6. Groups' = Groups /\ RetryFrom' = RetryFrom
  BY <1>1 DEF Groups, GroupCount, RetryFrom, GroupOf, FirstOf
<1>7. QED BY <1>1, <1>2, <1>3, <1>4, <1>5, <1>6

LEMMA SameOracle ==
  ASSUME cell' = cell
  PROVE  serial_oracle' = serial_oracle
<1>1. Tiles' = Tiles /\ Blocks' = Blocks
  BY SameCell
<1>2. \A m : Reduce(m)' = Reduce(m)
  BY <1>1 DEF Reduce, Total
<1>3. \A s, e : Outcome(s, e)' = Outcome(s, e)
  BY <1>1 DEF Outcome
<1>4. QED BY <1>2, <1>3 DEF serial_oracle

LEMMA SameCerts ==
  ASSUME cell' = cell, epoch' = epoch, values' = values
  PROVE  /\ \A t, i : LeafCert(t, i)' = LeafCert(t, i)
         /\ \A g : Representative(g)' = Representative(g) /\ Children(g)' = Children(g)
         /\ \A g, c : ParentCert(g, c)' = ParentCert(g, c)
         /\ \A g, n : Collected(g, n)' = Collected(g, n)
<1>1. \A t, i : LeafCert(t, i)' = LeafCert(t, i)
  BY DEF LeafCert, certificate, Digest, Hashes
<1>2. \A g : Representative(g)' = Representative(g)
  BY SameCell DEF Representative
<1>3. \A g : Children(g)' = Children(g)
  <2>1. TAKE g
  <2>2. SizeOf(g)' = SizeOf(g) /\ FirstOf(g)' = FirstOf(g)
    BY SameCell
  <2>3. QED BY <1>1, <2>2 DEF Children
<1>4. \A g, c : ParentCert(g, c)' = ParentCert(g, c)
  <2>1. TAKE g, c
  <2>2. SizeOf(g)' = SizeOf(g) /\ Members(g)' = Members(g) /\ Representative(g)' = Representative(g)
    BY <1>2, SameCell
  <2>3. QED BY <2>2 DEF ParentCert, certificate, Digest
<1>5. \A g, n : Collected(g, n)' = Collected(g, n)
  <2>1. TAKE g, n
  <2>2. FirstOf(g)' = FirstOf(g)
    BY SameCell
  <2>3. QED BY <1>1, <2>2 DEF Collected
<1>6. QED BY <1>1, <1>2, <1>3, <1>4, <1>5

LEMMA SamePublished ==
  ASSUME cell' = cell, epoch' = epoch, values' = values, attempt' = attempt
  PROVE  /\ Injected' = Injected
         /\ \A t, i : Published(t, i)' = Published(t, i)
<1>1. Injected' = Injected
  BY DEF Injected
<1>2. \A t, i : Faulty(t, i)' = Faulty(t, i)
  BY <1>1, SameCell DEF Faulty
<1>3. QED BY <1>1, <1>2, SameCerts DEF Published

\* The certificates that have been written stay.
LEMMA LeafKept ==
  ASSUME LeafInv, at.op \in Reading,
         cell' = cell, epoch' = epoch, values' = values, attempt' = attempt, leaf' = leaf
  PROVE  LeafInv'
<1>1. \A t \in Tiles, i \in 0..Indices - 1 : leaf[t][i] = Published(t, i)
  BY DEF LeafInv
<1>2. \A t, i : Published(t, i)' = Published(t, i)
  BY SamePublished
<1>3. Indices' = Indices /\ Tiles' = Tiles
  BY SameCell
<1>4. QED BY <1>1, <1>2, <1>3 DEF LeafInv

LEMMA ParentKept ==
  ASSUME ParentInv, cell' = cell, epoch' = epoch, values' = values, group' = group,
         Nested => \A g \in Groups : Grouped(g)' => Grouped(g)
  PROVE  ParentInv'
<1>1. Nested => \A g \in Groups : Grouped(g)' => group[Representative(g)] = ParentCert(g, Children(g))
  BY DEF ParentInv
<1>2. \A g : Representative(g)' = Representative(g) /\ Children(g)' = Children(g)
  BY SameCerts
<1>3. \A g, c : ParentCert(g, c)' = ParentCert(g, c)
  BY SameCerts
<1>4. Nested' = Nested /\ Groups' = Groups
  BY SameCell
<1>5. QED BY <1>1, <1>2, <1>3, <1>4 DEF ParentInv

(***************************************************************************)
(* Where the host is and goes                                              *)
(***************************************************************************)
LEMMA AtFacts ==
  ASSUME cell \in Cells, AtInv
  PROVE  /\ at = Do(at.op, at.tile, at.index)
         /\ at.op = "output" => at.tile \in Tiles /\ at.index \in Blocks
         /\ at.op = "sibling" => attempt = 2 /\ at.tile \in 0..RetryFrom - 1 /\ at.index \in Blocks
         /\ at.op \in {"put_leaf", "read_leaf"} => at.tile \in Tiles /\ at.index \in 0..Indices - 1
         /\ at.op \in {"put_parent", "read_parent"} => Nested /\ at.tile \in Groups /\ at.index = 0
         /\ at.op \in {"output", "sibling", "barrier", "put_leaf", "read_leaf", "put_parent",
                       "read_parent", "release", "reduce"}
<1>1. CASE at \in Turns("output", Tiles, Blocks)
  <2>1. PICK t \in Tiles, i \in Blocks : at = Do("output", t, i)
    BY <1>1 DEF Turns
  <2>2. QED BY <2>1 DEF Do
<1>2. CASE attempt = 2 /\ at \in Turns("sibling", 0..RetryFrom - 1, Blocks)
  <2>1. PICK t \in 0..RetryFrom - 1, i \in Blocks : at = Do("sibling", t, i)
    BY <1>2 DEF Turns
  <2>2. QED BY <1>2, <2>1 DEF Do
<1>3. CASE at \in Single("barrier") \cup Single("release") \cup Single("reduce")
  BY <1>3 DEF Single, Do
<1>4. CASE at \in Turns("put_leaf", Tiles, 0..Indices - 1) \cup Turns("read_leaf", Tiles, 0..Indices - 1)
  <2>1. PICK o \in {"put_leaf", "read_leaf"}, t \in Tiles, i \in 0..Indices - 1 : at = Do(o, t, i)
    BY <1>4 DEF Turns
  <2>2. QED BY <2>1 DEF Do
<1>5. CASE Nested /\ at \in Turns("put_parent", Groups, {0}) \cup Turns("read_parent", Groups, {0})
  <2>1. PICK o \in {"put_parent", "read_parent"}, t \in Groups : at = Do(o, t, 0)
    BY <1>5 DEF Turns
  <2>2. QED BY <1>5, <2>1 DEF Do
<1>6. QED BY <1>1, <1>2, <1>3, <1>4, <1>5 DEF AtInv

LEMMA Turn ==
  ASSUME NEW last \in Nat, NEW count \in Nat \ {0}, NEW then,
         at.tile \in 0..last, at.index \in 0..count - 1
  PROVE  \/ at.index + 1 < count /\ Loop(last, count, then) = Do(at.op, at.tile, at.index + 1)
         \/ at.index + 1 = count /\ at.tile < last /\ Loop(last, count, then) = Do(at.op, at.tile + 1, 0)
         \/ at.index + 1 = count /\ at.tile = last /\ Loop(last, count, then) = then
  BY DEF Loop

LEMMA DoFields ==
  ASSUME NEW o, NEW t, NEW i
  PROVE  Do(o, t, i).op = o /\ Do(o, t, i).tile = t /\ Do(o, t, i).index = i
  BY DEF Do

(***************************************************************************)
(* Types, events and matrices                                              *)
(***************************************************************************)
LEMMA EventIs ==
  ASSUME epoch \in Nat, NEW a \in Action, NEW t \in Nat, NEW b \in Nat, NEW p \in Nat,
         NEW ok \in BOOLEAN
  PROVE  Event(a, t, b, p, ok) \in EventRecord /\ Event(a, t, b, p, ok).epoch = epoch
         /\ Event(a, t, b, p, ok).action = a
  BY DEF Event, EventRecord

LEMMA RightEvent ==
  ASSUME epoch \in Nat, NEW a \in Action, NEW t \in Nat, NEW b \in Nat, NEW p \in Nat
  PROVE  Event(a, t, b, p, TRUE) \in EventRecord /\ Event(a, t, b, p, TRUE).epoch = epoch
         /\ Event(a, t, b, p, TRUE).action = a
  BY DEF Event, EventRecord

\* Events other than a release keep what is known about releases.
LEMMA ReleaseKept ==
  ASSUME events \in Seq(EventRecord), epoch \in Nat, ReleaseInv, status = "running", at.op # "reduce",
         epoch' = epoch, status' \in {"running", "fail"},
         events' = events \/ \E e \in EventRecord : e.epoch = epoch /\ e.action # "release" /\ events' = Append(events, e)
  PROVE  ReleaseInv' /\ events' \in Seq(EventRecord)
<1>1. \A n \in DOMAIN events : events[n].epoch <= epoch /\ ~(events[n].action = "release" /\ events[n].epoch = epoch)
  BY DEF ReleaseInv
<1>2. CASE events' = events
  BY <1>1, <1>2 DEF ReleaseInv
<1>3. ASSUME NEW e \in EventRecord, e.epoch = epoch, e.action # "release", events' = Append(events, e)
      PROVE  ReleaseInv' /\ events' \in Seq(EventRecord)
  <2>1. events' \in Seq(EventRecord) /\ Len(events') = Len(events) + 1 /\ Len(events) \in Nat
    BY <1>3
  <2>2. ASSUME NEW n \in DOMAIN events'
        PROVE  events'[n].epoch <= epoch /\ ~(events'[n].action = "release" /\ events'[n].epoch = epoch)
    <3>1. n \in 1..Len(events) + 1
      BY <2>1
    <3>2. CASE n \in 1..Len(events)
      <4>1. events'[n] = events[n] /\ n \in DOMAIN events
        BY <1>3, <3>2
      <4>2. QED BY <1>1, <4>1
    <3>3. CASE n = Len(events) + 1
      <4>1. events'[n] = e
        BY <1>3, <3>3
      <4>2. QED BY <1>3, <4>1
    <3>4. QED BY <2>1, <3>1, <3>2, <3>3
  <2>3. status' # "pass"
    OBVIOUS
  <2>4. QED BY <2>1, <2>2, <2>3 DEF ReleaseInv
<1>4. QED BY <1>2, <1>3

Updated(m, t, b, v) == [m EXCEPT ![t][b] = v]

LEMMA MatrixUpdate ==
  ASSUME NEW m, IsMatrix(m), NEW t \in Tiles, NEW b \in Blocks, NEW v
  PROVE  /\ IsMatrix(Updated(m, t, b, v)) /\ Updated(m, t, b, v)[t][b] = v
         /\ \A x \in Tiles, y \in Blocks : x # t \/ y # b => Updated(m, t, b, v)[x][y] = m[x][y]
<1> DEFINE u == [m EXCEPT ![t][b] = v]
<1>1. m = [x \in Tiles |-> [y \in Blocks |-> m[x][y]]]
  BY DEF IsMatrix
<1>2. DOMAIN m = Tiles /\ \A x \in Tiles : m[x] = [y \in Blocks |-> m[x][y]]
  BY <1>1
<1>3. \A x \in Tiles : DOMAIN m[x] = Blocks
  BY <1>2
<1>4. u = [x \in Tiles |-> IF x = t THEN [m[t] EXCEPT ![b] = v] ELSE m[x]]
  BY <1>2
<1>5. [m[t] EXCEPT ![b] = v] = [y \in Blocks |-> IF y = b THEN v ELSE m[t][y]]
  BY <1>3
<1>6. u[t][b] = v /\ \A x \in Tiles, y \in Blocks : x # t \/ y # b => u[x][y] = m[x][y]
  BY <1>4, <1>5
<1>7. \A x \in Tiles : u[x] = [y \in Blocks |-> u[x][y]]
  <2>1. TAKE x \in Tiles
  <2>2. CASE x = t
    <3>1. u[x] = [y \in Blocks |-> IF y = b THEN v ELSE m[t][y]]
      BY <1>4, <1>5, <2>2
    <3> HIDE DEF u
    <3>2. QED BY <3>1
  <2>3. CASE x # t
    <3>1. u[x] = m[x]
      BY <1>4, <2>3
    <3> HIDE DEF u
    <3>2. QED BY <1>2, <3>1
  <2>4. QED BY <2>2, <2>3
<1>8. DOMAIN u = Tiles
  BY <1>4
<1>9. u = [x \in Tiles |-> u[x]]
  BY <1>4
<1>10. IsMatrix(u)
  <2> HIDE DEF u
  <2>1. QED BY <1>7, <1>9 DEF IsMatrix
<1>11. QED BY <1>6, <1>10 DEF Updated

\* Matrices with the same entries are the same.
LEMMA SameMatrix ==
  ASSUME NEW m, NEW w, IsMatrix(m), IsMatrix(w), \A t \in Tiles, b \in Blocks : m[t][b] = w[t][b]
  PROVE  m = w
<1>1. [t \in Tiles |-> [b \in Blocks |-> m[t][b]]] = [t \in Tiles |-> [b \in Blocks |-> w[t][b]]]
  OBVIOUS
<1>2. QED BY <1>1 DEF IsMatrix

LEMMA MatrixKept ==
  ASSUME cell' = cell, NEW m, IsMatrix(m)
  PROVE  \A x : x = m => (x = [t \in Tiles' |-> [b \in Blocks' |-> x[t][b]]])
  BY SameCell DEF IsMatrix

LEMMA LeafIs ==
  ASSUME cell \in Cells, epoch \in Nat, NEW t \in Tiles, NEW i
  PROVE  IsCert(LeafCert(t, i))
<1>1. epoch \in Int /\ t \in Int /\ cell.blocks \in Int /\ 1 \in Int
  BY CellFacts
<1>2. QED BY <1>1, CertificateIs DEF LeafCert

LEMMA ParentIs ==
  ASSUME cell \in Cells, Nested, epoch \in Nat, NEW g \in Groups, NEW c
  PROVE  IsCert(ParentCert(g, c))
<1>1. epoch \in Int /\ cell.blocks \in Int
  BY CellFacts
<1>2. Representative(g) \in Int
  BY Representatives, CellFacts
<1>3. SizeOf(g) \in Int
  BY GroupFacts
<1>4. cell.blocks * SizeOf(g) \in Int
  BY <1>1, <1>3
<1>5. QED BY <1>1, <1>2, <1>4, CertificateIs DEF ParentCert

\* What a read may return is a certificate.
LEMMA ReadIs ==
  ASSUME NEW c, IsCert(c), NEW a \in ReadCert(c)
  PROVE  IsCert(a)
<1>1. \/ a = c \/ \E f \in FAULTS : a = corrupt(c, f)
      \/ a \in {[c EXCEPT !.magic = None], [c EXCEPT !.kind = @ + 1], [c EXCEPT !.members = {}]}
  BY DEF ReadCert, Falsified
<1>2. \A w : w \in {[c EXCEPT !.magic = None], [c EXCEPT !.kind = @ + 1], [c EXCEPT !.members = {}]} => IsCert(w)
  BY DEF IsCert
<1>3. QED BY <1>1, <1>2, CorruptionNamed

LEMMA InjectedFacts ==
  ASSUME cell \in Cells, Injected # None
  PROVE  Injected \in FAULTS /\ attempt = 1 /\ epoch = 1
  BY CellFacts DEF Injected

LEMMA PublishedFacts ==
  ASSUME cell \in Cells, epoch \in Nat, NEW t \in Tiles, NEW i
  PROVE  /\ IsCert(Published(t, i))
         /\ Faulty(t, i) => Published(t, i) # LeafCert(t, i)
                            /\ check_certificate(Published(t, i), LeafCert(t, i)) = Injected
         /\ ~Faulty(t, i) => Published(t, i) = LeafCert(t, i)
<1>1. IsCert(LeafCert(t, i))
  BY LeafIs
<1>2. CASE Faulty(t, i)
  <2>1. Injected \in FAULTS
    BY <1>2, InjectedFacts DEF Faulty
  <2>2. Published(t, i) = corrupt(LeafCert(t, i), Injected)
    BY <1>2 DEF Published
  <2>3. QED BY <1>1, <1>2, <2>1, <2>2, CorruptionNamed
<1>3. CASE ~Faulty(t, i)
  BY <1>1, <1>3 DEF Published
<1>4. QED BY <1>2, <1>3

(***************************************************************************)
(* The steps                                                               *)
(***************************************************************************)
LEMMA Running ==
  ASSUME BspInv, status = "running"
  PROVE  /\ cell \in Cells /\ epoch \in Nat /\ epoch \in 0..Steps - 1 /\ attempt \in {1, 2}
         /\ broken \in BOOLEAN /\ events \in Seq(EventRecord)
         /\ IsMatrix(values) /\ IsMatrix(output) /\ IsMatrix(leaf) /\ group = [t \in Tiles |-> group[t]]
         /\ seed = serial_oracle[epoch] /\ seed \in Nat
         /\ AtInv /\ DataInv /\ LeafInv /\ ChildrenInv /\ ParentInv /\ CaughtInv /\ ReleaseInv
<1>1. TypeInv /\ ReleaseInv /\ RunInv
  BY DEF BspInv
<1>2. cell \in Cells /\ epoch \in 0..Steps /\ epoch < Steps /\ Steps \in Nat
  BY <1>1, BspAssumption DEF TypeInv, RunInv
<1>3. seed \in Nat
  BY <1>1, <1>2, OracleSteps DEF RunInv
<1>4. QED BY <1>1, <1>2, <1>3 DEF TypeInv, RunInv

\* A step before the reduction, from what it has to show.
LEMMA StepInv ==
  ASSUME BspInv, status = "running", at.op # "reduce",
         cell' = cell, epoch' = epoch, seed' = seed, attempt' \in {1, 2}, broken' \in BOOLEAN,
         status' \in {"running", "fail"}, ~broken' => status' # "fail",
         IsMatrix(values'), IsMatrix(output'), IsMatrix(leaf'), group' = [t \in Tiles |-> group'[t]],
         events' = events \/ \E e \in EventRecord : e.epoch = epoch /\ e.action # "release" /\ events' = Append(events, e),
         status' = "running" => AtInv' /\ DataInv' /\ LeafInv' /\ ChildrenInv' /\ ParentInv' /\ CaughtInv'
  PROVE  BspInv'
<1>1. cell \in Cells /\ epoch \in Nat /\ epoch \in 0..Steps - 1 /\ events \in Seq(EventRecord) /\ ReleaseInv
      /\ seed = serial_oracle[epoch]
  BY Running
<1>2. ReleaseInv' /\ events' \in Seq(EventRecord)
  BY <1>1, ReleaseKept
<1>3. Tiles' = Tiles /\ Blocks' = Blocks
  BY SameCell
<1>4. IsMatrix(values)' /\ IsMatrix(output)' /\ IsMatrix(leaf)' /\ (group = [t \in Tiles |-> group[t]])'
  BY <1>3 DEF IsMatrix
<1>5. epoch' \in 0..Steps /\ epoch' < Steps
  BY <1>1, BspAssumption
<1>6. TypeInv'
  BY <1>1, <1>2, <1>4, <1>5 DEF TypeInv
<1>7. HealthyPasses'
  BY DEF HealthyPasses
<1>8. serial_oracle' = serial_oracle
  BY SameOracle
<1>9. status' = "running" => RunInv'
  BY <1>1, <1>5, <1>8 DEF RunInv
<1>10. QED BY <1>2, <1>6, <1>7, <1>9 DEF BspInv

\* All outputs are right once the first attempt has made them.
LEMMA DataRight ==
  ASSUME DataInv, ~(at.op = "output" /\ attempt = 1)
  PROVE  \A t \in Tiles, b \in Blocks :
           output[t][b] = values[t][b] /\ values[t][b] = output_bytes(seed, epoch, t, b)
  BY DEF DataInv

LEMMA DataKept ==
  ASSUME DataInv, ~(at.op = "output" /\ attempt = 1),
         cell' = cell, output' = output, values' = values, seed' = seed, epoch' = epoch
  PROVE  DataInv'
<1>1. Tiles' = Tiles /\ Blocks' = Blocks
  BY SameCell
<1>2. \A t \in Tiles, b \in Blocks :
        output'[t][b] = values'[t][b] /\ values'[t][b] = output_bytes(seed, epoch, t, b)
  BY DataRight
<1>3. QED BY <1>1, <1>2 DEF DataInv, output_bytes

\* Before the certificates nothing is said about them.
LEMMA NoCertificates ==
  ASSUME at'.op \in {"output", "sibling", "barrier"}
  PROVE  LeafInv' /\ ChildrenInv' /\ ParentInv'
<1>1. at'.op \notin Reading /\ at'.op # "put_leaf" /\ at'.op # "read_parent" /\ at'.op # "read_leaf" /\ at'.op # "put_parent"
  BY DEF Reading
<1>2. LeafInv'
  BY <1>1 DEF LeafInv, Reading
<1>3. ChildrenInv'
  BY <1>1 DEF ChildrenInv
<1>4. ParentInv'
  BY <1>1 DEF ParentInv, Grouped, Reading
<1>5. QED BY <1>2, <1>3, <1>4

LEMMA NoInjection ==
  ASSUME attempt = 2
  PROVE  Injected = None
  BY DEF Injected

LEMMA StartBarrierStep ==
  ASSUME BspInv, StartBarrier
  PROVE  BspInv'
<1>0. status = "running" /\ at.op = "barrier" /\ children' = <<>> /\ at' = After /\ status' = status
      /\ cell' = cell /\ epoch' = epoch /\ seed' = seed /\ attempt' = attempt /\ broken' = broken
      /\ values' = values /\ output' = output /\ leaf' = leaf /\ group' = group /\ events' = events
  BY DEF StartBarrier, Ready, Advance, stepVars, retryVars, deviceVars
<1>1. cell \in Cells /\ attempt \in {1, 2} /\ broken \in BOOLEAN /\ DataInv /\ IsMatrix(values)
      /\ IsMatrix(output) /\ IsMatrix(leaf) /\ group = [t \in Tiles |-> group[t]]
  BY <1>0, Running
<1>2. at' = Do("put_leaf", 0, 0)
  BY <1>0 DEF After
<1>3. at'.op = "put_leaf" /\ at'.tile = 0 /\ at'.index = 0
  BY <1>2 DEF Do
<1>4. AtInv'
  <2>1. 0 \in Tiles' /\ 0 \in 0..Indices' - 1
    BY <1>0, <1>1, CellFacts, SameCell
  <2>2. at' \in Turns("put_leaf", Tiles', 0..Indices' - 1)
    BY <1>2, <2>1 DEF Turns
  <2>3. QED BY <2>2 DEF AtInv
<1>5. DataInv'
  BY <1>0, <1>1, DataKept
<1>6. LeafInv'
  <2>1. Tiles' \subseteq Nat /\ Indices' \in Nat
    BY <1>0, <1>1, CellFacts, SameCell
  <2>2. \A t \in Tiles', i \in 0..Indices' - 1 : ~Over(t, i)'
    BY <1>3, <2>1 DEF Over
  <2>3. QED BY <1>3, <2>2 DEF LeafInv, Reading
<1>7. ChildrenInv' /\ ParentInv' /\ CaughtInv'
  BY <1>0, <1>3 DEF ChildrenInv, ParentInv, CaughtInv, Grouped, Reading
<1>8. status' # "fail"
  BY <1>0
<1>9. QED BY <1>0, <1>1, <1>4, <1>5, <1>6, <1>7, <1>8, StepInv

LEMMA ReleaseStep ==
  ASSUME BspInv, Release
  PROVE  BspInv'
<1>0. status = "running" /\ at.op = "release" /\ events' = Append(events, Event("release", epoch % cell.devices, 0, 0, TRUE))
      /\ cell' = cell /\ epoch' = epoch /\ seed' = seed /\ attempt' = attempt /\ broken' = broken
      /\ values' = values /\ output' = output /\ leaf' = leaf /\ group' = group /\ children' = children
  BY DEF Release, Ready, Log, stepVars, retryVars, deviceVars
<1>1. cell \in Cells /\ epoch \in Nat /\ epoch \in 0..Steps - 1 /\ attempt \in {1, 2} /\ broken \in BOOLEAN /\ DataInv /\ IsMatrix(values)
      /\ IsMatrix(output) /\ IsMatrix(leaf) /\ group = [t \in Tiles |-> group[t]] /\ events \in Seq(EventRecord)
      /\ LeafInv /\ ParentInv /\ CaughtInv /\ ReleaseInv /\ seed = serial_oracle[epoch]
  BY <1>0, Running
<1>2. IF Injected # None THEN status' = "fail" ELSE at' = Do("reduce", 0, 0) /\ status' = "running"
  BY <1>0 DEF Release, Abort, Advance, After
<1>3. PICK e \in EventRecord : e.epoch = epoch /\ events' = Append(events, e)
  <2>1. epoch % cell.devices \in Nat
    BY <1>1, CellFacts
  <2>2. "release" \in Action /\ 0 \in Nat /\ epoch \in Nat
    BY <1>1 DEF Action
  <2>3. Event("release", epoch % cell.devices, 0, 0, TRUE) \in EventRecord
        /\ Event("release", epoch % cell.devices, 0, 0, TRUE).epoch = epoch
    BY <2>1, <2>2, RightEvent
  <2>4. QED BY <1>0, <2>3
<1>4. events' \in Seq(EventRecord)
  BY <1>1, <1>3
<1>5. ASSUME NEW n \in DOMAIN events' PROVE events'[n].epoch <= epoch
  <2>1. n \in 1..Len(events) + 1 /\ Len(events) \in Nat
    BY <1>1, <1>3
  <2>2. CASE n \in 1..Len(events)
    <3>1. events'[n] = events[n] /\ n \in DOMAIN events
      BY <1>1, <1>3, <2>2
    <3>2. QED BY <1>1, <3>1 DEF ReleaseInv
  <2>3. CASE n = Len(events) + 1
    <3>1. events'[n] = e
      BY <1>1, <1>3, <2>3
    <3>2. QED BY <1>1, <1>3, <3>1
  <2>4. QED BY <2>1, <2>2, <2>3
<1>6. ReleaseInv'
  <2>1. status' = "running" => at'.op = "reduce"
    BY <1>2 DEF Do
  <2>2. status' # "pass"
    BY <1>2
  <2>3. QED BY <1>0, <1>5, <2>1, <2>2 DEF ReleaseInv
<1>7. HealthyPasses'
  <2>1. ~broken => Injected = None
    BY <1>0, <1>1 DEF CaughtInv
  <2>2. QED BY <1>0, <1>2, <2>1 DEF HealthyPasses
<1>8. Tiles' = Tiles /\ Blocks' = Blocks
  BY <1>0, SameCell
<1>9. IsMatrix(values)' /\ IsMatrix(output)' /\ IsMatrix(leaf)' /\ (group = [t \in Tiles |-> group[t]])'
  BY <1>0, <1>1, <1>8 DEF IsMatrix
<1>10. epoch' \in 0..Steps /\ epoch' < Steps
  BY <1>0, <1>1, BspAssumption
<1>11. TypeInv'
  BY <1>0, <1>1, <1>2, <1>4, <1>9, <1>10 DEF TypeInv
<1>12. ASSUME status' = "running" PROVE RunInv'
  <2>1. Injected = None /\ at' = Do("reduce", 0, 0)
    BY <1>2, <1>12
  <2>2. at'.op = "reduce" /\ Injected' = None
    BY <1>0, <2>1 DEF Do, Injected
  <2>3. AtInv'
    BY <2>1 DEF AtInv, Single
  <2>4. DataInv'
    BY <1>0, <1>1, DataKept
  <2>5. LeafInv'
    BY <1>0, <1>1, LeafKept DEF Reading
  <2>6. ChildrenInv'
    BY <2>2 DEF ChildrenInv
  <2>7. ParentInv'
    BY <1>0, <1>1, <2>2, ParentKept DEF Grouped, Reading
  <2>8. CaughtInv'
    BY <2>2 DEF CaughtInv
  <2>9. serial_oracle' = serial_oracle
    BY <1>0, SameOracle
  <2>10. QED BY <1>0, <1>1, <1>10, <2>3, <2>4, <2>5, <2>6, <2>7, <2>8, <2>9 DEF RunInv
<1>13. QED BY <1>6, <1>7, <1>11, <1>12 DEF BspInv

LEMMA CommandErrorStep ==
  ASSUME BspInv, CommandError
  PROVE  BspInv'
<1>0. status = "running" /\ at.op # "reduce" /\ status' = "fail" /\ broken' = TRUE
      /\ cell' = cell /\ epoch' = epoch /\ seed' = seed /\ attempt' = attempt
      /\ values' = values /\ output' = output /\ leaf' = leaf /\ group' = group /\ events' = events
  BY DEF CommandError, Abort, stepVars, retryVars, deviceVars
<1>1. attempt \in {1, 2} /\ IsMatrix(values) /\ IsMatrix(output) /\ IsMatrix(leaf)
      /\ group = [t \in Tiles |-> group[t]]
  BY <1>0, Running
<1>2. QED BY <1>0, <1>1, StepInv

LEMMA SiblingStep ==
  ASSUME BspInv, Sibling
  PROVE  BspInv'
<1>0. status = "running" /\ at.op = "sibling"
      /\ cell' = cell /\ epoch' = epoch /\ seed' = seed /\ attempt' = attempt
      /\ values' = values /\ output' = output /\ leaf' = leaf /\ group' = group /\ events' = events
  BY DEF Sibling, Ready, stepVars, retryVars, deviceVars
<1>1. cell \in Cells /\ attempt \in {1, 2} /\ broken \in BOOLEAN /\ DataInv /\ AtInv /\ IsMatrix(values)
      /\ IsMatrix(output) /\ IsMatrix(leaf) /\ group = [t \in Tiles |-> group[t]]
  BY <1>0, Running
<1>2. attempt = 2 /\ at.tile \in 0..RetryFrom - 1 /\ at.index \in Blocks
  BY <1>0, <1>1, AtFacts
<1>3. PICK seen : /\ broken' = (broken \/ seen # output[at.tile][at.index])
                  /\ IF seen # values[at.tile][at.index] THEN Abort("sibling changed") ELSE Advance
  BY DEF Sibling
<1>4. broken' \in BOOLEAN
  BY <1>3
<1>5. RetryFrom \in Nat /\ RetryFrom \in Tiles /\ Tiles = 0..Target /\ Target \in Nat /\ cell.blocks \in Nat \ {0}
  BY <1>1, RetryTile, CellFacts
<1>6. output[at.tile][at.index] = values[at.tile][at.index]
  <2>1. at.tile \in Tiles
    BY <1>2, <1>5
  <2>2. QED BY <1>0, <1>1, <1>2, <2>1, DataRight
<1>7. CASE seen # values[at.tile][at.index]
  <2>1. broken' = TRUE /\ status' = "fail"
    BY <1>3, <1>6, <1>7 DEF Abort
  <2>2. QED BY <1>0, <1>1, <1>4, <2>1, StepInv
<1>8. CASE seen = values[at.tile][at.index]
  <2>1. at' = Loop(RetryFrom - 1, cell.blocks, Do("barrier", 0, 0)) /\ status' = "running"
    BY <1>0, <1>3, <1>8 DEF Advance, After
  <2>2. at.tile \in 0..RetryFrom - 1 /\ at.index \in 0..cell.blocks - 1 /\ RetryFrom - 1 \in Nat
    BY <1>2, <1>5 DEF Blocks
  <2>3. \/ at.index + 1 < cell.blocks /\ at' = Do(at.op, at.tile, at.index + 1)
        \/ at.index + 1 = cell.blocks /\ at.tile < RetryFrom - 1 /\ at' = Do(at.op, at.tile + 1, 0)
        \/ at.index + 1 = cell.blocks /\ at.tile = RetryFrom - 1 /\ at' = Do("barrier", 0, 0)
    BY <1>5, <2>1, <2>2, Turn
  <2>4. at'.op \in {"sibling", "barrier"}
    BY <1>0, <2>3 DEF Do
  <2>5. Blocks = 0..cell.blocks - 1 /\ Blocks' = Blocks /\ RetryFrom' = RetryFrom
    BY <1>0, SameCell DEF Blocks
  <2>6. AtInv'
    <3>1. CASE at' = Do("barrier", 0, 0)
      BY <3>1 DEF AtInv, Single
    <3>2. ASSUME NEW t \in 0..RetryFrom - 1, NEW i \in Blocks, at' = Do("sibling", t, i) PROVE AtInv'
      BY <1>0, <1>2, <2>5, <3>2 DEF AtInv, Turns
    <3>3. CASE at.index + 1 < cell.blocks /\ at' = Do(at.op, at.tile, at.index + 1)
      <4>1. at.index + 1 \in Blocks
        BY <1>5, <2>2, <2>5, <3>3
      <4>2. QED BY <1>0, <1>2, <3>2, <3>3, <4>1
    <3>4. CASE at.tile < RetryFrom - 1 /\ at' = Do(at.op, at.tile + 1, 0)
      <4>1. at.tile + 1 \in 0..RetryFrom - 1 /\ 0 \in Blocks
        BY <1>1, <1>5, <2>2, <3>4, CellFacts
      <4>2. QED BY <1>0, <3>2, <3>4, <4>1
    <3>5. QED BY <2>3, <3>1, <3>3, <3>4
  <2>7. DataInv'
    BY <1>0, <1>1, DataKept
  <2>8. LeafInv' /\ ChildrenInv' /\ ParentInv'
    BY <2>4, NoCertificates
  <2>9. CaughtInv'
    <3>1. Injected' = None
      BY <1>0, <1>2 DEF Injected
    <3>2. QED BY <2>4, <3>1 DEF CaughtInv
  <2>10. status' # "fail"
    BY <2>1
  <2>11. QED BY <1>0, <1>1, <1>4, <2>1, <2>6, <2>7, <2>8, <2>9, <2>10, StepInv
<1>9. QED BY <1>7, <1>8

LEMMA ReduceStepStep ==
  ASSUME BspInv, ReduceStep
  PROVE  BspInv'
<1>0. status = "running" /\ at.op = "reduce" /\ cell' = cell /\ output' = output
      /\ leaf' = leaf /\ group' = group /\ events' = events /\ broken' = broken
  BY DEF ReduceStep, Ready, deviceVars
<1>1. cell \in Cells /\ epoch \in Nat /\ epoch \in 0..Steps - 1 /\ broken \in BOOLEAN /\ DataInv /\ IsMatrix(values)
      /\ IsMatrix(output) /\ IsMatrix(leaf) /\ group = [t \in Tiles |-> group[t]] /\ events \in Seq(EventRecord)
      /\ ReleaseInv /\ seed = serial_oracle[epoch] /\ seed \in Nat
  BY <1>0, Running
<1>2. values = Outcome(serial_oracle[epoch], epoch)
  <2>1. IsMatrix(Outcome(seed, epoch))
    BY DEF IsMatrix, Outcome
  <2>2. \A t \in Tiles, b \in Blocks : values[t][b] = output_bytes(seed, epoch, t, b)
    BY <1>0, <1>1, DataRight
  <2>3. \A t \in Tiles, b \in Blocks : values[t][b] = Outcome(seed, epoch)[t][b]
    BY <2>2 DEF Outcome
  <2>4. QED BY <1>1, <2>1, <2>3, SameMatrix
<1>3. Reduce(values) = serial_oracle[epoch + 1]
  BY <1>1, <1>2, OracleSteps
<1>4. /\ seed' = Reduce(values) /\ epoch' = epoch + 1 /\ attempt' = 1 /\ values' = NoValues
      /\ IF epoch + 1 = Steps THEN status' = "pass" ELSE at' = FirstAttempt /\ status' = "running"
  BY <1>0, <1>2, <1>3 DEF ReduceStep
<1>5. Tiles' = Tiles /\ Blocks' = Blocks
  BY <1>0, SameCell
<1>6. IsMatrix(values)' /\ IsMatrix(output)' /\ IsMatrix(leaf)' /\ (group = [t \in Tiles |-> group[t]])'
  <2>1. IsMatrix(values)'
    BY <1>4, <1>5 DEF IsMatrix, NoValues
  <2>2. QED BY <1>0, <1>1, <1>5, <2>1 DEF IsMatrix
<1>7. epoch' \in 0..Steps
  BY <1>1, <1>4, BspAssumption
<1>8. TypeInv'
  BY <1>0, <1>1, <1>4, <1>6, <1>7 DEF TypeInv
<1>9. ReleaseInv'
  <2>1. ASSUME NEW n \in DOMAIN events PROVE events[n].epoch < epoch'
    <3>1. events[n] \in EventRecord
      BY <1>1
    <3>2. events[n].epoch \in Nat
      BY <3>1 DEF EventRecord
    <3>3. events[n].epoch <= epoch
      BY <1>1 DEF ReleaseInv
    <3>4. QED BY <1>1, <1>4, <3>2, <3>3
  <2>2. ASSUME NEW n \in DOMAIN events PROVE events[n].epoch <= epoch' /\ events[n].epoch # epoch'
    <3>1. events[n] \in EventRecord
      BY <1>1
    <3>2. events[n].epoch \in Nat /\ epoch' \in Nat
      BY <1>1, <1>4, <3>1 DEF EventRecord
    <3>3. QED BY <2>1, <3>2
  <2>3. QED BY <1>0, <2>1, <2>2 DEF ReleaseInv
<1>10. HealthyPasses'
  BY <1>4 DEF HealthyPasses
<1>11. ASSUME status' = "running" PROVE RunInv'
  <2>1. at' = Do("output", 0, 0) /\ epoch + 1 # Steps
    BY <1>4, <1>11 DEF FirstAttempt
  <2>2. at'.op = "output" /\ at'.tile = 0 /\ at'.index = 0
    BY <2>1 DEF Do
  <2>3. epoch' < Steps
    BY <1>1, <1>4, <1>7, <2>1, BspAssumption
  <2>4. AtInv'
    <3>1. 0 \in Tiles' /\ 0 \in Blocks'
      BY <1>1, <1>5, CellFacts
    <3>2. QED BY <2>1, <3>1 DEF AtInv, Turns
  <2>5. DataInv'
    <3>1. Tiles' \subseteq Nat /\ Blocks' \subseteq Nat
      BY <1>1, <1>5, CellFacts
    <3>2. \A t \in Tiles', b \in Blocks' : ~Over(t, b)'
      BY <2>2, <3>1 DEF Over
    <3>3. QED BY <1>4, <2>2, <3>2 DEF DataInv
  <2>6. LeafInv' /\ ChildrenInv' /\ ParentInv'
    BY <2>2, NoCertificates
  <2>7. CaughtInv'
    BY <2>2 DEF CaughtInv
  <2>8. seed' = serial_oracle'[epoch']
    BY <1>0, <1>3, <1>4, SameOracle
  <2>9. QED BY <2>3, <2>4, <2>5, <2>6, <2>7, <2>8 DEF RunInv
<1>12. QED BY <1>8, <1>9, <1>10, <1>11 DEF BspInv

\* A turn adds its own entry to what is over.
LEMMA TurnOver ==
  ASSUME NEW last \in Nat, NEW count \in Nat \ {0}, at.tile \in 0..last, at.index \in 0..count - 1
  PROVE  /\ (\/ at.index + 1 < count /\ at' = Do(at.op, at.tile, at.index + 1)
             \/ at.index + 1 = count /\ at.tile < last /\ at' = Do(at.op, at.tile + 1, 0)) =>
              \A t \in 0..last, i \in 0..count - 1 :
                Over(t, i)' => Over(t, i) \/ (t = at.tile /\ i = at.index)
         /\ at.index + 1 = count /\ at.tile = last =>
              \A t \in 0..last, i \in 0..count - 1 : Over(t, i) \/ (t = at.tile /\ i = at.index)
<1>1. CASE at.index + 1 < count /\ at' = Do(at.op, at.tile, at.index + 1)
  <2>1. at'.tile = at.tile /\ at'.index = at.index + 1
    BY <1>1 DEF Do
  <2>2. QED BY <1>1, <2>1 DEF Over
<1>2. CASE at.index + 1 = count /\ at.tile < last /\ at' = Do(at.op, at.tile + 1, 0)
  <2>1. at'.tile = at.tile + 1 /\ at'.index = 0
    BY <1>2 DEF Do
  <2>2. QED BY <1>2, <2>1 DEF Over
<1>3. at.index + 1 = count /\ at.tile = last =>
        \A t \in 0..last, i \in 0..count - 1 : Over(t, i) \/ (t = at.tile /\ i = at.index)
  BY DEF Over
<1>4. QED BY <1>1, <1>2, <1>3

LEMMA OutputStep ==
  ASSUME BspInv, Output
  PROVE  BspInv'
<1> DEFINE t == at.tile
           b == at.index
           data == output_bytes(seed, epoch, t, b)
<1>0. status = "running" /\ at.op = "output" /\ output' = [output EXCEPT ![t][b] = data]
      /\ cell' = cell /\ epoch' = epoch /\ seed' = seed /\ attempt' = attempt
      /\ leaf' = leaf /\ group' = group
  BY DEF Output, Ready, stepVars, retryVars
<1>1. cell \in Cells /\ epoch \in Nat /\ attempt \in {1, 2} /\ broken \in BOOLEAN /\ DataInv /\ AtInv /\ IsMatrix(values)
      /\ IsMatrix(output) /\ IsMatrix(leaf) /\ group = [x \in Tiles |-> group[x]] /\ CaughtInv
  BY <1>0, Running
<1>2. t \in Tiles /\ b \in Blocks
  BY <1>0, <1>1, AtFacts
<1>3. PICK received : /\ broken' = (broken \/ received # data)
                      /\ IF received # data
                         THEN Abort("output mismatch") /\ UNCHANGED <<values, data_writes, events>>
                         ELSE /\ values' = [values EXCEPT ![t][b] = received]
                              /\ \E a \in Outputs : Log(Event(a, t, b, received, TRUE))
                              /\ Advance
  BY DEF Output, Outputs
<1>4. broken' \in BOOLEAN
  BY <1>3
<1> HIDE DEF data
<1>5. IsMatrix(output') /\ output'[t][b] = data
      /\ \A x \in Tiles, y \in Blocks : x # t \/ y # b => output'[x][y] = output[x][y]
  <2>1. output' = Updated(output, t, b, data)
    BY <1>0 DEF Updated
  <2> HIDE DEF t, b
  <2>2. QED BY <1>1, <1>2, <2>1, MatrixUpdate
<1>6. CASE received # data
  <2>1. broken' = TRUE /\ status' = "fail" /\ values' = values /\ events' = events
    BY <1>3, <1>6 DEF Abort
  <2>2. QED BY <1>0, <1>1, <1>4, <1>5, <2>1, StepInv
<1>7. CASE received = data
  <2>1. values' = [values EXCEPT ![t][b] = data] /\ at' = After /\ status' = "running"
    BY <1>0, <1>3, <1>7 DEF Advance
  <2>2. IsMatrix(values') /\ values'[t][b] = data
        /\ \A x \in Tiles, y \in Blocks : x # t \/ y # b => values'[x][y] = values[x][y]
    <3>1. values' = Updated(values, t, b, data)
      BY <2>1 DEF Updated
    <3> HIDE DEF t, b
    <3>2. QED BY <1>1, <1>2, <3>1, MatrixUpdate
  <2>3. \E e \in EventRecord : e.epoch = epoch /\ e.action # "release" /\ events' = Append(events, e)
    <3>0. data \in Nat
      <4>1. seed \in Nat
        BY <1>0, Running
      <4>2. QED BY <1>1, <1>2, <4>1, OutcomeWords DEF data
    <3>1. PICK a \in Outputs : events' = Append(events, Event(a, t, b, data, TRUE))
      BY <1>3, <1>7 DEF Log
    <3>2. a \in Action /\ a # "release" /\ t \in Nat /\ b \in Nat /\ TRUE \in BOOLEAN
      BY <1>1, <1>2, CellFacts DEF Action, Outputs
    <3>3. Event(a, t, b, data, TRUE) \in EventRecord /\ Event(a, t, b, data, TRUE).epoch = epoch
          /\ Event(a, t, b, data, TRUE).action = a
      BY <1>1, <3>0, <3>2, RightEvent
    <3>4. QED BY <3>1, <3>2, <3>3
  <2> DEFINE then == IF attempt = 2 /\ RetryFrom > 0 THEN Do("sibling", 0, 0) ELSE Do("barrier", 0, 0)
  <2>4. at' = Loop(Target, cell.blocks, then)
    BY <1>0, <2>1 DEF After
  <2>5. Tiles = 0..Target /\ Target \in Nat /\ cell.blocks \in Nat \ {0} /\ Blocks = 0..cell.blocks - 1
        /\ 0 \in Blocks
    BY <1>1, CellFacts DEF Blocks
  <2>6. at.tile \in 0..Target /\ at.index \in 0..cell.blocks - 1
    BY <1>2, <2>5
  <2> HIDE DEF then, t, b
  <2>7. \/ at.index + 1 < cell.blocks /\ at' = Do(at.op, at.tile, at.index + 1)
        \/ at.index + 1 = cell.blocks /\ at.tile < Target /\ at' = Do(at.op, at.tile + 1, 0)
        \/ at.index + 1 = cell.blocks /\ at.tile = Target /\ at' = then
    BY <2>4, <2>5, <2>6, Turn
  <2>8. then = Do("barrier", 0, 0) \/ (attempt = 2 /\ RetryFrom > 0 /\ then = Do("sibling", 0, 0))
    BY DEF then
  <2>9. at'.op \in {"output", "sibling", "barrier"} /\ (at'.op = "sibling" => attempt = 2)
        /\ (at'.op = "output" => ~(at.index + 1 = cell.blocks /\ at.tile = Target))
    BY <1>0, <2>5, <2>6, <2>7, <2>8 DEF Do
  <2>10. AtInv'
    <3>0. Tiles' = Tiles /\ Blocks' = Blocks /\ RetryFrom' = RetryFrom
      BY <1>0, SameCell
    <3>1. CASE at' = Do("barrier", 0, 0)
      BY <3>1 DEF AtInv, Single
    <3>2. CASE attempt = 2 /\ RetryFrom > 0 /\ at' = Do("sibling", 0, 0)
      <4>1. RetryFrom \in Nat
        BY <1>1, RetryTile, CellFacts
      <4>2. 0 \in 0..RetryFrom - 1
        BY <3>2, <4>1
      <4>3. QED BY <1>0, <2>5, <3>0, <3>2, <4>2 DEF AtInv, Turns
    <3>3. ASSUME NEW x \in Tiles, NEW y \in Blocks, at' = Do("output", x, y) PROVE AtInv'
      BY <3>0, <3>3 DEF AtInv, Turns
    <3>4. CASE at.index + 1 < cell.blocks /\ at' = Do(at.op, at.tile, at.index + 1)
      <4>1. at.index + 1 \in Blocks /\ at.tile \in Tiles
        BY <2>5, <2>6, <3>4
      <4>2. QED BY <1>0, <3>3, <3>4, <4>1
    <3>5. CASE at.tile < Target /\ at' = Do(at.op, at.tile + 1, 0)
      <4>1. at.tile + 1 \in Tiles
        BY <2>5, <2>6, <3>5
      <4>2. QED BY <1>0, <2>5, <3>3, <3>5, <4>1
    <3>6. QED BY <2>7, <2>8, <3>1, <3>2, <3>4, <3>5
  <2>11. DataInv'
    <3>0. Tiles' = Tiles /\ Blocks' = Blocks
      BY <1>0, SameCell
    <3>1. SUFFICES ASSUME NEW x \in Tiles, NEW y \in Blocks, at'.op = "output" /\ attempt = 1 => Over(x, y)'
                   PROVE  output'[x][y] = values'[x][y] /\ values'[x][y] = output_bytes(seed, epoch, x, y)
      BY <1>0, <3>0 DEF DataInv, output_bytes
    <3>2. CASE x = t /\ y = b
      BY <1>5, <2>2, <3>2 DEF data
    <3>3. CASE x # t \/ y # b
      <4>1. output'[x][y] = output[x][y] /\ values'[x][y] = values[x][y]
        BY <1>5, <2>2, <3>3
      <4>2. attempt = 1 => Over(x, y)
        <5>1. ~(x = at.tile /\ y = at.index)
          BY <3>3 DEF t, b
        <5>2. x \in 0..Target /\ y \in 0..cell.blocks - 1
          BY <2>5
        <5>3. CASE at.index + 1 = cell.blocks /\ at.tile = Target
          BY <2>5, <2>6, <5>1, <5>2, <5>3, TurnOver
        <5>4. CASE ~(at.index + 1 = cell.blocks /\ at.tile = Target)
          <6>1. at'.op = "output"
            BY <1>0, <2>7, <5>4 DEF Do
          <6>2. \/ at.index + 1 < cell.blocks /\ at' = Do(at.op, at.tile, at.index + 1)
                \/ at.index + 1 = cell.blocks /\ at.tile < Target /\ at' = Do(at.op, at.tile + 1, 0)
            BY <2>7, <5>4
          <6>3. Over(x, y)' => Over(x, y)
            BY <2>5, <2>6, <5>1, <5>2, <6>2, TurnOver
          <6>4. QED BY <3>1, <6>1, <6>3
        <5>5. QED BY <5>3, <5>4
      <4>3. QED BY <1>1, <4>1, <4>2 DEF DataInv
    <3>4. QED BY <3>2, <3>3
  <2>12. LeafInv' /\ ChildrenInv' /\ ParentInv'
    BY <2>9, NoCertificates
  <2>13. CaughtInv'
    <3>1. at'.op = "sibling" => Injected' = None
      BY <1>0, <2>9 DEF Injected
    <3>2. QED BY <2>9, <3>1 DEF CaughtInv
  <2>14. status' # "fail" /\ at.op # "reduce" /\ status' \in {"running", "fail"}
    BY <1>0, <2>1
  <2>15. QED BY <1>0, <1>1, <1>4, <1>5, <2>1, <2>2, <2>3, <2>10, <2>11, <2>12, <2>13, <2>14, StepInv
<1>8. QED BY <1>6, <1>7

\* Certificates collected one by one.
LEMMA CollectedFacts ==
  ASSUME NEW g, NEW n \in Nat, NEW c, c = LeafCert(FirstOf(g) + (n + 1) - 1, 0)
  PROVE  /\ Collected(g, 0) = <<>>
         /\ Append(Collected(g, n), c) = Collected(g, n + 1)
<1> DEFINE q == Collected(g, n)
           S == {LeafCert(FirstOf(g) + i - 1, 0) : i \in 1..n + 1}
<1>1. Collected(g, 0) = <<>>
  <2>1. 1..0 = {}
    OBVIOUS
  <2>2. QED BY <2>1 DEF Collected
<1>2. q \in Seq(S) /\ Len(q) = n
  <2>1. q \in [1..n -> S]
    BY DEF Collected
  <2> HIDE DEF q, S
  <2>2. QED BY <2>1
<1>3. \A i \in 1..n : q[i] = LeafCert(FirstOf(g) + i - 1, 0)
  BY DEF Collected
<1>4. c \in S
  OBVIOUS
<1> DEFINE r == Append(q, c)
<1>5. r \in Seq(S) /\ Len(r) = n + 1 /\ r[n + 1] = c /\ \A i \in 1..n : r[i] = q[i]
  <2> HIDE DEF q, S
  <2>1. QED BY <1>2, <1>4
<1>6. \A i \in 1..n + 1 : r[i] = LeafCert(FirstOf(g) + i - 1, 0)
  <2> HIDE DEF q, r, S
  <2>1. QED BY <1>3, <1>5
<1>7. r = [i \in 1..n + 1 |-> r[i]]
  <2> HIDE DEF r, q, S
  <2>1. QED BY <1>5
<1>8. r = Collected(g, n + 1)
  <2> HIDE DEF r, q, S
  <2>1. QED BY <1>6, <1>7 DEF Collected
<1>9. QED BY <1>1, <1>8

LEMMA NestedIndices ==
  ASSUME Nested
  PROVE  Indices = 1
  BY DEF Nested, Indices

LEMMA PutLeafStep ==
  ASSUME BspInv, PutLeaf
  PROVE  BspInv'
<1> DEFINE t == at.tile
           i == at.index
<1>0. status = "running" /\ at.op = "put_leaf" /\ leaf' = Updated(leaf, t, i, Published(t, i))
      /\ events' = Append(events, Event("certificate_write", t, i, 0, TRUE)) /\ at' = After /\ status' = "running"
      /\ cell' = cell /\ epoch' = epoch /\ seed' = seed /\ attempt' = attempt /\ broken' = broken
      /\ values' = values /\ output' = output /\ group' = group /\ children' = children
  <2>1. leaf' = [leaf EXCEPT ![t][i] = Published(t, i)]
    BY DEF PutLeaf, Published, Faulty
  <2>2. QED BY <2>1 DEF PutLeaf, Ready, Log, Advance, stepVars, retryVars, Updated
<1>1. cell \in Cells /\ epoch \in Nat /\ attempt \in {1, 2} /\ broken \in BOOLEAN /\ DataInv /\ AtInv /\ LeafInv
      /\ ChildrenInv /\ IsMatrix(values) /\ IsMatrix(output) /\ IsMatrix(leaf) /\ group = [x \in Tiles |-> group[x]]
  BY <1>0, Running
<1>2. Tiles = 0..Target /\ Target \in Nat /\ Indices \in Nat \ {0} /\ 0..Indices - 1 \subseteq Blocks
  BY <1>1, CellFacts DEF Blocks
<1>3. t \in 0..Target /\ i \in 0..Indices - 1 /\ t \in Tiles /\ i \in Blocks
  BY <1>0, <1>1, <1>2, AtFacts
<1>4. IsMatrix(leaf') /\ leaf'[t][i] = Published(t, i)
      /\ \A x \in Tiles, y \in Blocks : x # t \/ y # i => leaf'[x][y] = leaf[x][y]
  <2> HIDE DEF t, i
  <2>1. QED BY <1>0, <1>1, <1>3, MatrixUpdate
<1>5. \E e \in EventRecord : e.epoch = epoch /\ e.action # "release" /\ events' = Append(events, e)
  <2>1. "certificate_write" \in Action /\ t \in Nat /\ i \in Nat /\ 0 \in Nat /\ epoch \in Nat
    BY <1>1, <1>2, <1>3 DEF Action
  <2> HIDE DEF t, i
  <2>2. Event("certificate_write", t, i, 0, TRUE) \in EventRecord /\ Event("certificate_write", t, i, 0, TRUE).epoch = epoch
        /\ Event("certificate_write", t, i, 0, TRUE).action = "certificate_write"
    BY <2>1, RightEvent
  <2>3. QED BY <1>0, <2>2
<1>6. at' = Loop(Target, Indices, Do("read_leaf", 0, 0))
  BY <1>0 DEF After
<1>7. \/ at.index + 1 < Indices /\ at' = Do(at.op, at.tile, at.index + 1)
      \/ at.index + 1 = Indices /\ at.tile < Target /\ at' = Do(at.op, at.tile + 1, 0)
      \/ at.index + 1 = Indices /\ at.tile = Target /\ at' = Do("read_leaf", 0, 0)
  BY <1>2, <1>3, <1>6, Turn
<1>8. Tiles' = Tiles /\ Indices' = Indices /\ Nested' = Nested /\ Groups' = Groups
      /\ \A x : GroupOf(x)' = GroupOf(x)
  BY <1>0, SameCell
<1>9. at'.op = "put_leaf" \/ (at'.op = "read_leaf" /\ at'.tile = 0 /\ at'.index = 0)
  BY <1>0, <1>7 DEF Do
<1>10. AtInv'
  <2>1. ASSUME NEW o \in {"put_leaf", "read_leaf"}, NEW x \in Tiles, NEW y \in 0..Indices - 1, at' = Do(o, x, y) PROVE AtInv'
    BY <1>8, <2>1 DEF AtInv, Turns
  <2>2. CASE at.index + 1 < Indices /\ at' = Do(at.op, at.tile, at.index + 1)
    <3>1. at.index + 1 \in 0..Indices - 1
      BY <1>2, <1>3, <2>2
    <3>2. QED BY <1>0, <1>3, <2>1, <2>2, <3>1
  <2>3. CASE at.tile < Target /\ at' = Do(at.op, at.tile + 1, 0)
    <3>1. at.tile + 1 \in Tiles /\ 0 \in 0..Indices - 1
      BY <1>2, <1>3, <2>3
    <3>2. QED BY <1>0, <2>1, <2>3, <3>1
  <2>4. CASE at' = Do("read_leaf", 0, 0)
    <3>1. 0 \in Tiles /\ 0 \in 0..Indices - 1
      BY <1>2
    <3>2. QED BY <2>1, <2>4, <3>1
  <2>5. QED BY <1>7, <2>2, <2>3, <2>4
<1>11. DataInv'
  BY <1>0, <1>1, DataKept
<1>12. LeafInv'
  <2>0. \A x, y : Published(x, y)' = Published(x, y)
    BY <1>0, SamePublished
  <2>1. SUFFICES ASSUME NEW x \in Tiles, NEW y \in 0..Indices - 1,
                        at'.op \in Reading \/ (at'.op = "put_leaf" /\ Over(x, y)')
                 PROVE  leaf'[x][y] = Published(x, y)
    BY <1>8, <2>0 DEF LeafInv
  <2>2. CASE x = t /\ y = i
    BY <1>4, <2>2
  <2>3. CASE x # t \/ y # i
    <3>1. leaf'[x][y] = leaf[x][y]
      BY <1>2, <1>4, <2>3
    <3>2. Over(x, y)
      <4>1. ~(x = at.tile /\ y = at.index) /\ x \in 0..Target
        BY <1>2, <2>3
      <4>2. CASE at.index + 1 = Indices /\ at.tile = Target
        BY <1>2, <1>3, <4>1, <4>2, TurnOver
      <4>3. CASE ~(at.index + 1 = Indices /\ at.tile = Target)
        <5>1. \/ at.index + 1 < Indices /\ at' = Do(at.op, at.tile, at.index + 1)
              \/ at.index + 1 = Indices /\ at.tile < Target /\ at' = Do(at.op, at.tile + 1, 0)
          BY <1>7, <4>3
        <5>2. at'.op = "put_leaf"
          BY <1>0, <5>1 DEF Do
        <5>3. Over(x, y)'
          BY <2>1, <5>2 DEF Reading
        <5>4. QED BY <1>2, <1>3, <4>1, <5>1, <5>3, TurnOver
      <4>4. QED BY <4>2, <4>3
    <3>3. QED BY <1>0, <1>1, <3>1, <3>2 DEF LeafInv
  <2>4. QED BY <2>2, <2>3
<1>13. ChildrenInv'
  <2>1. SUFFICES ASSUME Nested PROVE ChildrenInv'
    BY <1>8 DEF ChildrenInv
  <2>2. children' = <<>>
    BY <1>0, <1>1, <2>1 DEF ChildrenInv
  <2>3. CASE at'.op = "put_leaf"
    BY <2>2, <2>3 DEF ChildrenInv
  <2>4. CASE at'.op = "read_leaf" /\ at'.tile = 0
    <3>1. GroupOf(0) = 0 /\ FirstOf(0) = 0
      BY <1>1, <2>1, GroupFacts
    <3>2. GroupOf(at.tile)' = 0 /\ FirstOf(GroupOf(at.tile))' = 0
      <4>1. GroupOf(0)' = 0 /\ FirstOf(0)' = 0
        BY <1>0, <3>1, SameCell
      <4>2. QED BY <2>4, <4>1 DEF GroupOf, FirstOf
    <3>3. Collected(0, 0) = <<>>
      BY CollectedFacts
    <3>4. Collected(0, 0)' = <<>>
      BY <1>0, <3>3, SameCerts
    <3>5. (Collected(GroupOf(at.tile), at.tile - FirstOf(GroupOf(at.tile))))' = <<>>
      BY <2>4, <3>2, <3>4
    <3>6. QED BY <2>2, <2>4, <3>5 DEF ChildrenInv
  <2>5. QED BY <1>9, <2>3, <2>4
<1>14. ParentInv'
  <2>1. SUFFICES ASSUME Nested PROVE ParentInv'
    BY <1>8 DEF ParentInv
  <2>2. \A g \in Groups' : ~Grouped(g)'
    <3>1. CASE at'.op = "put_leaf"
      BY <3>1 DEF Grouped, Reading
    <3>2. CASE at'.op = "read_leaf" /\ at'.tile = 0
      <4>1. GroupOf(0) = 0 /\ Groups \subseteq Nat
        BY <1>1, <2>1, GroupFacts
      <4>2. GroupOf(at.tile)' = 0
        BY <1>8, <3>2, <4>1 DEF GroupOf
      <4>3. QED BY <1>8, <3>2, <4>1, <4>2 DEF Grouped
    <3>3. QED BY <1>9, <3>1, <3>2
  <2>3. QED BY <2>2 DEF ParentInv
<1>15. CaughtInv'
  BY <1>9 DEF CaughtInv
<1>16. status' # "fail" /\ at.op # "reduce" /\ status' \in {"running", "fail"}
  BY <1>0
<1> HIDE DEF t, i
<1>17. QED BY <1>0, <1>1, <1>4, <1>5, <1>10, <1>11, <1>12, <1>13, <1>14, <1>15, <1>16, StepInv

LEMMA ChildrenThen ==
  ASSUME cell' = cell, epoch' = epoch, values' = values,
         Nested =>
           /\ at'.op \in {"put_leaf", "read_parent"} => children' = <<>>
           /\ at'.op = "read_leaf" =>
                children' = Collected(GroupOf(at'.tile), at'.tile - FirstOf(GroupOf(at'.tile)))
           /\ at'.op = "put_parent" => children' = Children(at'.tile)
  PROVE  ChildrenInv'
<1>1. Nested' = Nested
  BY SameCell
<1>2. GroupOf(at.tile)' = GroupOf(at'.tile) /\ FirstOf(GroupOf(at.tile))' = FirstOf(GroupOf(at'.tile))
  <2>1. GroupSize' = GroupSize
    BY DEF GroupSize
  <2>2. QED BY <2>1 DEF GroupOf, FirstOf
<1>3. PICK x : x = at'.tile
  OBVIOUS
<1>4. Children(x)' = Children(x) /\ \A g, n : Collected(g, n)' = Collected(g, n)
  BY SameCerts
<1>5. Children(at.tile)' = Children(at'.tile)
  <2>1. Children(at.tile)' = Children(x)'
    BY <1>3 DEF Children, SizeOf, FirstOf, LastOf
  <2>2. QED BY <1>3, <1>4, <2>1
<1>6. (Collected(GroupOf(at.tile), at.tile - FirstOf(GroupOf(at.tile))))'
        = Collected(GroupOf(at'.tile), at'.tile - FirstOf(GroupOf(at'.tile)))
  <2>1. PICK g, n : g = GroupOf(at'.tile) /\ n = at'.tile - FirstOf(GroupOf(at'.tile))
    OBVIOUS
  <2>2. Collected(g, n)' = Collected(g, n)
    BY <1>4
  <2>3. (Collected(GroupOf(at.tile), at.tile - FirstOf(GroupOf(at.tile))))' = Collected(g, n)'
    BY <1>2, <2>1 DEF Collected, FirstOf
  <2>4. QED BY <2>1, <2>2, <2>3
<1>7. QED BY <1>1, <1>5, <1>6 DEF ChildrenInv

LEMMA GroupedThen ==
  ASSUME cell' = cell, NEW g
  PROVE  Grouped(g)' <=> /\ at'.op \in Reading
                         /\ at'.op = "read_leaf" => g < GroupOf(at'.tile)
                         /\ at'.op = "put_parent" => g < at'.tile
<1>1. GroupSize' = GroupSize
  BY DEF GroupSize
<1>2. GroupOf(at.tile)' = GroupOf(at'.tile)
  BY <1>1 DEF GroupOf
<1>3. QED BY <1>2 DEF Grouped, Reading

LEMMA PutParentStep ==
  ASSUME BspInv, PutParent
  PROVE  BspInv'
<1> DEFINE g == at.tile
           r == Representative(g)
           cert == ParentCert(g, Children(g))
<1>0. status = "running" /\ at.op = "put_parent" /\ group' = [group EXCEPT ![r] = ParentCert(g, children)]
      /\ events' = Append(events, Event("certificate_write", r, 0, 0, TRUE)) /\ at' = After /\ status' = "running"
      /\ cell' = cell /\ epoch' = epoch /\ seed' = seed /\ attempt' = attempt /\ broken' = broken
      /\ values' = values /\ output' = output /\ leaf' = leaf /\ children' = <<>>
  BY DEF PutParent, Ready, Log, Advance, stepVars, retryVars
<1>1. cell \in Cells /\ epoch \in Nat /\ attempt \in {1, 2} /\ broken \in BOOLEAN /\ DataInv /\ AtInv /\ LeafInv
      /\ ChildrenInv /\ ParentInv /\ CaughtInv /\ IsMatrix(values) /\ IsMatrix(output) /\ IsMatrix(leaf)
      /\ group = [x \in Tiles |-> group[x]]
  BY <1>0, Running
<1>2. Nested /\ g \in Groups /\ children = Children(g)
  BY <1>0, <1>1, AtFacts DEF ChildrenInv
<1>3. group' = [group EXCEPT ![r] = cert]
  BY <1>0, <1>2
<1>4. r \in Tiles /\ \A h \in Groups : h # g => Representative(h) # r
  BY <1>1, <1>2, Representatives
<1> HIDE DEF r, cert
<1>5. group' = [x \in Tiles |-> group'[x]] /\ group'[r] = cert /\ \A x \in Tiles : x # r => group'[x] = group[x]
  <2>1. group' = [x \in Tiles |-> IF x = r THEN cert ELSE group[x]]
    BY <1>1, <1>3
  <2>2. QED BY <1>4, <2>1
<1>6. \E e \in EventRecord : e.epoch = epoch /\ e.action # "release" /\ events' = Append(events, e)
  <2>1. "certificate_write" \in Action /\ r \in Nat /\ 0 \in Nat /\ TRUE \in BOOLEAN
    BY <1>1, <1>4, CellFacts DEF Action
  <2>2. Event("certificate_write", r, 0, 0, TRUE) \in EventRecord /\ Event("certificate_write", r, 0, 0, TRUE).epoch = epoch
        /\ Event("certificate_write", r, 0, 0, TRUE).action = "certificate_write"
    BY <1>1, <2>1, RightEvent
  <2>3. QED BY <1>0, <2>2
<1>7. /\ LastOf(g) \in Tiles /\ GroupOf(Target) \in Nat /\ Groups = 0..GroupOf(Target)
      /\ LastOf(g) < Target => g < GroupOf(Target) /\ g + 1 \in Groups /\ FirstOf(g + 1) = LastOf(g) + 1
      /\ ~(LastOf(g) < Target) => g = GroupOf(Target)
  BY <1>1, <1>2, GroupFacts
<1>8. Tiles = 0..Target /\ Target \in Nat /\ Indices \in Nat \ {0}
  BY <1>1, CellFacts
<1>9. at' = IF LastOf(g) < Target THEN Do("read_leaf", LastOf(g) + 1, 0) ELSE Do("read_parent", 0, 0)
  BY <1>0 DEF After
<1>10. \/ LastOf(g) < Target /\ at'.op = "read_leaf" /\ at'.tile = LastOf(g) + 1 /\ GroupOf(at'.tile) = g + 1
       \/ ~(LastOf(g) < Target) /\ at'.op = "read_parent" /\ g = GroupOf(Target)
  <2>1. CASE LastOf(g) < Target
    <3>1. at'.op = "read_leaf" /\ at'.tile = LastOf(g) + 1
      BY <1>9, <2>1 DEF Do
    <3>2. g + 1 \in Groups /\ FirstOf(g + 1) = LastOf(g) + 1
      BY <1>7, <2>1
    <3>3. GroupOf(FirstOf(g + 1)) = g + 1
      BY <1>1, <1>2, <3>2, GroupFacts
    <3>4. QED BY <2>1, <3>1, <3>2, <3>3
  <2>2. CASE ~(LastOf(g) < Target)
    BY <1>7, <1>9, <2>2 DEF Do
  <2>3. QED BY <2>1, <2>2
<1>11. AtInv'
  <2>0. Tiles' = Tiles /\ Indices' = Indices /\ Nested' = Nested /\ Groups' = Groups
    BY <1>0, SameCell
  <2>1. CASE LastOf(g) < Target
    <3>1. LastOf(g) + 1 \in Tiles /\ 0 \in 0..Indices - 1
      BY <1>7, <1>8, <2>1
    <3>2. at' \in Turns("read_leaf", Tiles, 0..Indices - 1)
      BY <1>9, <2>1, <3>1 DEF Turns
    <3>3. QED BY <2>0, <3>2 DEF AtInv
  <2>2. CASE ~(LastOf(g) < Target)
    <3>1. 0 \in Groups
      BY <1>7
    <3>2. at' \in Turns("read_parent", Groups, {0})
      BY <1>9, <2>2, <3>1 DEF Turns
    <3>3. QED BY <1>2, <2>0, <3>2 DEF AtInv
  <2>3. QED BY <2>1, <2>2
<1>12. DataInv'
  BY <1>0, <1>1, DataKept
<1>13. LeafInv'
  BY <1>0, <1>1, LeafKept DEF Reading
<1>14. ChildrenInv'
  <2>1. CASE at'.op = "read_leaf" /\ at'.tile = LastOf(g) + 1 /\ GroupOf(at'.tile) = g + 1 /\ LastOf(g) < Target
    <3>1. FirstOf(GroupOf(at'.tile)) = LastOf(g) + 1 /\ LastOf(g) + 1 \in Nat
      BY <1>7, <1>8, <2>1
    <3>2. at'.tile - FirstOf(GroupOf(at'.tile)) = 0
      BY <2>1, <3>1
    <3>3. Collected(g + 1, 0) = <<>>
      BY CollectedFacts
    <3>4. QED BY <1>0, <2>1, <3>2, <3>3, ChildrenThen
  <2>2. CASE at'.op = "read_parent"
    BY <1>0, <2>2, ChildrenThen
  <2>3. QED BY <1>10, <2>1, <2>2
<1>15. ParentInv'
  <2>0. /\ Nested' = Nested /\ Groups' = Groups
        /\ \A h : Representative(h)' = Representative(h) /\ Children(h)' = Children(h)
        /\ \A h, c : ParentCert(h, c)' = ParentCert(h, c)
    BY <1>0, SameCell, SameCerts
  <2>1. SUFFICES ASSUME NEW h \in Groups, Grouped(h)'
                 PROVE  group'[Representative(h)] = ParentCert(h, Children(h))
    BY <2>0 DEF ParentInv
  <2>2. h \in Nat /\ g \in Nat /\ (h < g \/ h = g)
    <3>1. h \in Nat /\ g \in Nat /\ h <= GroupOf(Target)
      BY <1>2, <1>7
    <3>2. at'.op = "read_leaf" => h < GroupOf(at'.tile)
      BY <1>0, <2>1, GroupedThen
    <3>3. QED BY <1>7, <1>10, <3>1, <3>2
  <2>3. CASE h = g
    BY <1>5, <2>3 DEF r, cert
  <2>4. CASE h < g
    <3>1. Grouped(h)
      BY <1>0, <2>4 DEF Grouped, Reading
    <3>2. group[Representative(h)] = ParentCert(h, Children(h))
      BY <1>1, <1>2, <3>1 DEF ParentInv
    <3>3. Representative(h) \in Tiles /\ Representative(h) # r
      BY <1>1, <1>2, <1>4, <2>2, <2>4, Representatives
    <3>4. QED BY <1>5, <3>2, <3>3
  <2>5. QED BY <2>2, <2>3, <2>4
<1>16. CaughtInv'
  <2>1. Injected' = Injected /\ at'.op # "reduce"
    BY <1>0, <1>10 DEF Injected
  <2>2. ~broken /\ Injected # None => g < GroupOf(Target)
    BY <1>0, <1>1 DEF CaughtInv
  <2>3. ~broken /\ Injected # None => at'.op = "read_leaf"
    BY <1>2, <1>7, <1>10, <2>2
  <2>4. QED BY <1>0, <2>1, <2>3 DEF CaughtInv
<1>17. status' # "fail" /\ at.op # "reduce" /\ status' \in {"running", "fail"}
  BY <1>0
<1> HIDE DEF g
<1>18. QED BY <1>0, <1>1, <1>5, <1>6, <1>11, <1>12, <1>13, <1>14, <1>15, <1>16, <1>17, StepInv

\* A read that is accepted goes on; one that is not ends the cell or starts the
\* retry, and ends it only if a device has failed.
LEMMA GetStep ==
  ASSUME BspInv, status = "running", at.op \in {"read_leaf", "read_parent"},
         NEW stored, NEW expected, IsCert(stored), IsCert(expected),
         NEW role \in {"read_group", "read_root"}, NEW owner \in Nat,
         stored = expected \/ (check_certificate(stored, expected) = Injected /\ Injected # None /\ owner = Target),
         Get(stored, expected, role, owner)
  PROVE  /\ cell' = cell /\ epoch' = epoch /\ seed' = seed /\ values' = values
         /\ output' = output /\ leaf' = leaf /\ group' = group /\ broken' \in BOOLEAN
         /\ \E e \in EventRecord : e.epoch = epoch /\ e.action # "release" /\ events' = Append(events, e)
         /\ \/ BspInv'
            \/ /\ broken' = (broken \/ expected # stored) /\ attempt' = attempt
               /\ children' = IF role = "read_group" THEN Append(children, expected) ELSE children
               /\ at' = After /\ status' = "running"
<1>1. cell \in Cells /\ epoch \in Nat /\ attempt \in {1, 2} /\ broken \in BOOLEAN /\ DataInv /\ ReleaseInv
      /\ IsMatrix(values) /\ IsMatrix(output) /\ IsMatrix(leaf) /\ group = [x \in Tiles |-> group[x]]
  BY Running
<1> DEFINE word == output[Target][cell.blocks - 1]
<1> DEFINE Answer(actual, seen) ==
             LET name == check_certificate(actual, expected)
             IN  /\ name = None => seen = word
                 /\ broken' = (broken \/ actual # stored \/ seen # word)
                 /\ Log(Event(role, owner, 0, 0, actual = expected))
                 /\ IF name = None
                    THEN /\ children' = IF role = "read_group" THEN Append(children, actual) ELSE children
                         /\ Advance
                         /\ UNCHANGED retryVars
                    ELSE Recover(owner, name, seen) /\ UNCHANGED children
                 /\ UNCHANGED <<cell, epoch, seed, initial, preserved, steps, values, data_writes,
                                deviceVars>>
<1>a. PICK actual \in ReadCert(stored) : \E seen : Answer(actual, seen)
  BY DEF Get
<1>2. PICK seen : Answer(actual, seen)
  BY <1>a
<1> DEFINE name == check_certificate(actual, expected)
<1>3. cell' = cell /\ epoch' = epoch /\ seed' = seed /\ values' = values
      /\ output' = output /\ leaf' = leaf /\ group' = group
  BY <1>2 DEF deviceVars
<1>4. broken' \in BOOLEAN
  BY <1>2
<1>5. \E e \in EventRecord : e.epoch = epoch /\ e.action # "release" /\ events' = Append(events, e)
  <2>1. PICK ok \in BOOLEAN : ok = (actual = expected)
    OBVIOUS
  <2>2. role \in Action /\ role # "release" /\ 0 \in Nat
    BY DEF Action
  <2>3. Event(role, owner, 0, 0, ok) \in EventRecord /\ Event(role, owner, 0, 0, ok).epoch = epoch
        /\ Event(role, owner, 0, 0, ok).action = role
    BY <1>1, <2>2, EventIs
  <2>4. events' = Append(events, Event(role, owner, 0, 0, ok))
    BY <1>2, <2>1 DEF Log
  <2>5. QED BY <2>2, <2>3, <2>4
<1>6. IsCert(actual)
  BY ReadIs
<1>7. CASE name = None
  <2>1. actual = expected
    BY <1>6, <1>7, AcceptedIsExpected
  <2>2. /\ broken' = (broken \/ actual # stored)
        /\ children' = IF role = "read_group" THEN Append(children, actual) ELSE children
        /\ at' = After /\ status' = status /\ attempt' = attempt
    BY <1>2, <1>7 DEF Advance, retryVars
  <2>3. QED BY <1>3, <1>4, <1>5, <2>1, <2>2
<1>8. CASE name # None
  <2>1. Recover(owner, name, seen) /\ broken' = (broken \/ actual # stored \/ seen # word)
    BY <1>2, <1>8
  <2>2. \/ status' = "fail" /\ attempt' = attempt
        \/ status' = "running" /\ attempt' = 2 /\ at' = Retry
    BY <2>1 DEF Recover, Abort, retryVars
  <2>3. ~broken' => status' # "fail"
    <3>1. SUFFICES ASSUME ~broken' PROVE status' # "fail"
      OBVIOUS
    <3>2. actual = stored /\ seen = word
      BY <1>1, <2>1, <3>1
    <3>3. name = Injected /\ Injected # None /\ owner = Target
      BY <1>8, <3>2, ExpectedIsAccepted
    <3>4. attempt = 1
      BY <1>1, <3>3, InjectedFacts
    <3>5. ~Released
      BY <1>1 DEF Released, ReleaseInv
    <3>6. word = values[Target][cell.blocks - 1]
      <4>1. Target \in Tiles /\ cell.blocks - 1 \in Blocks
        BY <1>1, CellFacts DEF Blocks
      <4>2. QED BY <1>1, <4>1, DataRight
    <3> HIDE DEF name, word
    <3>7. status' = status
      BY <2>1, <3>2, <3>3, <3>4, <3>5, <3>6 DEF Recover
    <3>8. QED BY <3>7
  <2>4. ASSUME status' = "running"
        PROVE  AtInv' /\ DataInv' /\ LeafInv' /\ ChildrenInv' /\ ParentInv' /\ CaughtInv'
    <3>1. attempt' = 2 /\ at' = Do("output", RetryFrom, 0)
      BY <2>2, <2>4 DEF Retry
    <3>2. at'.op = "output"
      BY <3>1 DEF Do
    <3>3. AtInv'
      <4>1. RetryFrom \in Tiles' /\ 0 \in Blocks'
        BY <1>1, <1>3, RetryTile, CellFacts, SameCell
      <4>2. QED BY <3>1, <4>1 DEF AtInv, Turns
    <3>4. DataInv'
      BY <1>1, <1>3, DataKept
    <3>5. LeafInv' /\ ChildrenInv' /\ ParentInv'
      BY <3>2, NoCertificates
    <3>6. CaughtInv'
      BY <3>2 DEF CaughtInv
    <3>7. QED BY <3>3, <3>4, <3>5, <3>6
  <2>5. attempt' \in {1, 2} /\ status' \in {"running", "fail"} /\ at.op # "reduce"
    BY <1>1, <2>2
  <2> HIDE DEF name, word
  <2>6. BspInv'
    BY <1>1, <1>3, <1>4, <1>5, <2>3, <2>4, <2>5, StepInv
  <2>7. QED BY <1>3, <1>4, <1>5, <2>6
<1>9. QED BY <1>7, <1>8

LEMMA ReadParentStep ==
  ASSUME BspInv, ReadParent
  PROVE  BspInv'
<1> DEFINE g == at.tile
           r == Representative(g)
           cert == ParentCert(g, Children(g))
<1>0. status = "running" /\ at.op = "read_parent" /\ Get(group[r], cert, "read_root", r)
  BY DEF ReadParent, Ready
<1>1. cell \in Cells /\ epoch \in Nat /\ attempt \in {1, 2} /\ broken \in BOOLEAN /\ DataInv /\ AtInv /\ LeafInv
      /\ ChildrenInv /\ ParentInv /\ CaughtInv /\ IsMatrix(values) /\ IsMatrix(output) /\ IsMatrix(leaf)
      /\ group = [x \in Tiles |-> group[x]]
  BY <1>0, Running
<1>2. Nested /\ g \in Groups /\ at.index = 0
  BY <1>0, <1>1, AtFacts
<1>3. group[r] = cert
  BY <1>0, <1>1, <1>2 DEF ParentInv, Grouped, Reading
<1>4. IsCert(cert) /\ r \in Nat
  BY <1>1, <1>2, ParentIs, Representatives, CellFacts
<1> HIDE DEF r, cert
<1>5. /\ cell' = cell /\ epoch' = epoch /\ seed' = seed /\ values' = values
      /\ output' = output /\ leaf' = leaf /\ group' = group /\ broken' \in BOOLEAN
      /\ \E e \in EventRecord : e.epoch = epoch /\ e.action # "release" /\ events' = Append(events, e)
      /\ \/ BspInv'
         \/ broken' = broken /\ attempt' = attempt /\ children' = children /\ at' = After /\ status' = "running"
  <2>1. at.op \in {"read_leaf", "read_parent"} /\ "read_root" \in {"read_group", "read_root"}
    BY <1>0
  <2>2. /\ cell' = cell /\ epoch' = epoch /\ seed' = seed /\ values' = values
        /\ output' = output /\ leaf' = leaf /\ group' = group /\ broken' \in BOOLEAN
        /\ \E e \in EventRecord : e.epoch = epoch /\ e.action # "release" /\ events' = Append(events, e)
        /\ \/ BspInv'
           \/ /\ broken' = (broken \/ cert # group[r]) /\ attempt' = attempt
              /\ children' = IF "read_root" = "read_group" THEN Append(children, cert) ELSE children
              /\ at' = After /\ status' = "running"
    BY <1>0, <1>3, <1>4, <2>1, GetStep
  <2>3. QED BY <1>1, <1>3, <2>2
<1>6. SUFFICES ASSUME broken' = broken, attempt' = attempt, children' = children, at' = After, status' = "running"
               PROVE  BspInv'
  BY <1>5
<1>7. Groups = 0..GroupOf(Target) /\ GroupOf(Target) \in Nat /\ GroupCount - 1 = GroupOf(Target)
  BY <1>1, <1>2, GroupFacts
<1>8. at' = Loop(GroupCount - 1, 1, Do("release", 0, 0))
  BY <1>0, <1>6 DEF After
<1>9. at.tile \in 0..GroupCount - 1 /\ at.index \in 0..1 - 1 /\ GroupCount - 1 \in Nat
  BY <1>2, <1>7
<1>10. \/ at.tile < GroupCount - 1 /\ at' = Do(at.op, at.tile + 1, 0)
       \/ at' = Do("release", 0, 0)
  <2>1. \/ at.index + 1 < 1 /\ at' = Do(at.op, at.tile, at.index + 1)
        \/ at.index + 1 = 1 /\ at.tile < GroupCount - 1 /\ at' = Do(at.op, at.tile + 1, 0)
        \/ at.index + 1 = 1 /\ at.tile = GroupCount - 1 /\ at' = Do("release", 0, 0)
    BY <1>8, <1>9, Turn
  <2>2. QED BY <1>2, <2>1
<1>11. at'.op \in {"read_parent", "release"}
  BY <1>0, <1>10 DEF Do
<1>12. AtInv'
  <2>0. Nested' = Nested /\ Groups' = Groups
    BY <1>5, SameCell
  <2>1. CASE at' = Do("release", 0, 0)
    BY <2>1 DEF AtInv, Single
  <2>2. CASE at.tile < GroupCount - 1 /\ at' = Do(at.op, at.tile + 1, 0)
    <3>1. at.tile + 1 \in Groups
      BY <1>7, <1>9, <2>2
    <3>2. at' \in Turns("read_parent", Groups, {0})
      BY <1>0, <2>2, <3>1 DEF Turns
    <3>3. QED BY <1>2, <2>0, <3>2 DEF AtInv
  <2>3. QED BY <1>10, <2>1, <2>2
<1>13. DataInv'
  BY <1>0, <1>1, <1>5, DataKept
<1>14. LeafInv'
  BY <1>0, <1>1, <1>5, <1>6, LeafKept DEF Reading
<1>15. ChildrenInv'
  <2>1. children = <<>>
    BY <1>0, <1>1, <1>2 DEF ChildrenInv
  <2>2. QED BY <1>5, <1>6, <1>11, <2>1, ChildrenThen
<1>16. ParentInv'
  <2>1. \A h \in Groups : Grouped(h)
    BY <1>0 DEF Grouped, Reading
  <2>2. QED BY <1>1, <1>5, <2>1, ParentKept
<1>17. CaughtInv'
  <2>1. Injected' = Injected /\ at'.op # "reduce"
    BY <1>5, <1>6, <1>11 DEF Injected
  <2>2. ~broken => Injected = None
    BY <1>0, <1>1 DEF CaughtInv
  <2>3. QED BY <1>6, <2>1, <2>2 DEF CaughtInv
<1>18. status' # "fail" /\ at.op # "reduce" /\ status' \in {"running", "fail"}
  BY <1>0, <1>6
<1> HIDE DEF g
<1>19. QED BY <1>0, <1>1, <1>5, <1>6, <1>12, <1>13, <1>14, <1>15, <1>16, <1>17, <1>18, StepInv

LEMMA ReadLeafStep ==
  ASSUME BspInv, ReadLeaf
  PROVE  BspInv'
<1> DEFINE t == at.tile
           i == at.index
           cert == LeafCert(t, i)
           g == GroupOf(t)
           n == t - FirstOf(g)
           role == IF Nested THEN "read_group" ELSE "read_root"
<1>0. status = "running" /\ at.op = "read_leaf" /\ Get(leaf[t][i], cert, role, t)
  BY DEF ReadLeaf, Ready
<1>1. cell \in Cells /\ epoch \in Nat /\ attempt \in {1, 2} /\ broken \in BOOLEAN /\ DataInv /\ AtInv /\ LeafInv
      /\ ChildrenInv /\ ParentInv /\ CaughtInv /\ IsMatrix(values) /\ IsMatrix(output) /\ IsMatrix(leaf)
      /\ group = [x \in Tiles |-> group[x]]
  BY <1>0, Running
<1>2. t \in Tiles /\ i \in 0..Indices - 1
  BY <1>0, <1>1, AtFacts
<1>3. leaf[t][i] = Published(t, i)
  BY <1>0, <1>1, <1>2 DEF LeafInv, Reading
<1>4. IsCert(cert) /\ t \in Nat /\ Tiles = 0..Target /\ Target \in Nat /\ Indices \in Nat \ {0}
  BY <1>1, <1>2, LeafIs, CellFacts
<1>5. /\ IsCert(Published(t, i))
      /\ Faulty(t, i) => Published(t, i) # cert /\ check_certificate(Published(t, i), cert) = Injected
      /\ ~Faulty(t, i) => Published(t, i) = cert
  BY <1>1, <1>2, PublishedFacts
<1>6. Faulty(t, i) => Injected # None /\ t = Target
  BY DEF Faulty
<1>7. role \in {"read_group", "read_root"}
  OBVIOUS
<1> HIDE DEF cert, role
<1>8. /\ cell' = cell /\ epoch' = epoch /\ seed' = seed /\ values' = values
      /\ output' = output /\ leaf' = leaf /\ group' = group /\ broken' \in BOOLEAN
      /\ \E e \in EventRecord : e.epoch = epoch /\ e.action # "release" /\ events' = Append(events, e)
      /\ \/ BspInv'
         \/ /\ broken' = (broken \/ cert # leaf[t][i]) /\ attempt' = attempt
            /\ children' = IF role = "read_group" THEN Append(children, cert) ELSE children
            /\ at' = After /\ status' = "running"
  <2>1. at.op \in {"read_leaf", "read_parent"}
    BY <1>0
  <2>2. leaf[t][i] = cert \/ (check_certificate(leaf[t][i], cert) = Injected /\ Injected # None /\ t = Target)
    BY <1>3, <1>5, <1>6
  <2>3. IsCert(leaf[t][i])
    BY <1>3, <1>5
  <2> HIDE DEF t, i
  <2>4. QED BY <1>0, <1>4, <1>7, <2>1, <2>2, <2>3, GetStep
<1>9. SUFFICES ASSUME broken' = (broken \/ cert # leaf[t][i]), attempt' = attempt,
                      children' = IF role = "read_group" THEN Append(children, cert) ELSE children,
                      at' = After, status' = "running"
               PROVE  BspInv'
  BY <1>8
<1>10. ~broken' => ~broken /\ ~Faulty(t, i)
  BY <1>1, <1>3, <1>5, <1>9
<1> DEFINE last == LastOf(g)
<1>11. Nested => /\ g \in Groups /\ FirstOf(g) \in Nat /\ FirstOf(g) <= t /\ t <= last
                 /\ t # last => t < Target /\ GroupOf(t + 1) = g
                 /\ last \in Tiles /\ SizeOf(g) = last - FirstOf(g) + 1 /\ Groups \subseteq Nat
                 /\ last < Target => g < GroupOf(Target)
                 /\ ~(last < Target) => last = Target
  BY <1>1, <1>2, GroupFacts
<1>12. \/ Nested /\ t = last /\ at' = Do("put_parent", g, 0)
       \/ Nested /\ t # last /\ t < Target /\ at' = Do("read_leaf", t + 1, 0)
       \/ ~Nested /\ i + 1 < Indices /\ at' = Do("read_leaf", t, i + 1)
       \/ ~Nested /\ t < Target /\ at' = Do("read_leaf", t + 1, 0)
       \/ ~Nested /\ i + 1 = Indices /\ t = Target /\ at' = Do("release", 0, 0)
  <2>1. at' = IF Nested /\ t = last THEN Do("put_parent", g, 0)
              ELSE Loop(Target, Indices, Do("release", 0, 0))
    BY <1>0, <1>9 DEF After
  <2>2. \/ i + 1 < Indices /\ Loop(Target, Indices, Do("release", 0, 0)) = Do("read_leaf", t, i + 1)
        \/ i + 1 = Indices /\ t < Target /\ Loop(Target, Indices, Do("release", 0, 0)) = Do("read_leaf", t + 1, 0)
        \/ i + 1 = Indices /\ t = Target /\ Loop(Target, Indices, Do("release", 0, 0)) = Do("release", 0, 0)
    BY <1>0, <1>2, <1>4, Turn
  <2>3. Nested => Indices = 1
    BY NestedIndices
  <2>4. Nested => ~(i + 1 < Indices)
    BY <1>2, <2>3
  <2>5. Nested /\ t # last => t < Target /\ t # Target
    BY <1>4, <1>11
  <2> HIDE DEF t, i, g, last
  <2>6. QED BY <2>1, <2>2, <2>4, <2>5
<1>13. Tiles' = Tiles /\ Indices' = Indices /\ Nested' = Nested /\ Groups' = Groups
  BY <1>8, SameCell
<1> HIDE DEF t, i, g, last, n
<1>14. AtInv'
  <2>1. ASSUME NEW x \in Tiles, NEW y \in 0..Indices - 1, at' = Do("read_leaf", x, y) PROVE AtInv'
    BY <1>13, <2>1 DEF AtInv, Turns
  <2>2. CASE Nested /\ at' = Do("put_parent", g, 0)
    <3>1. at' \in Turns("put_parent", Groups, {0})
      BY <1>11, <2>2 DEF Turns
    <3>2. QED BY <1>13, <2>2, <3>1 DEF AtInv
  <2>3. CASE t < Target /\ at' = Do("read_leaf", t + 1, 0)
    <3>1. t + 1 \in Tiles /\ 0 \in 0..Indices - 1
      BY <1>4, <2>3
    <3>2. QED BY <2>1, <2>3, <3>1
  <2>4. CASE i + 1 < Indices /\ at' = Do("read_leaf", t, i + 1)
    <3>1. i + 1 \in 0..Indices - 1
      BY <1>2, <1>4, <2>4
    <3>2. QED BY <1>2, <2>1, <2>4, <3>1
  <2>5. CASE at' = Do("release", 0, 0)
    BY <2>5 DEF AtInv, Single
  <2>6. QED BY <1>12, <2>2, <2>3, <2>4, <2>5
<1>15. DataInv'
  BY <1>0, <1>1, <1>8, DataKept
<1>16. LeafInv'
  BY <1>0, <1>1, <1>8, <1>9, LeafKept DEF Reading
<1>17. ChildrenInv'
  <2>1. SUFFICES ASSUME Nested PROVE ChildrenInv'
    BY <1>13 DEF ChildrenInv
  <2>2. children = Collected(g, n)
    BY <1>0, <1>1, <2>1 DEF ChildrenInv, g, n, t
  <2>3. n \in Nat /\ FirstOf(g) + (n + 1) - 1 = t /\ FirstOf(g) \in Nat
    BY <1>4, <1>11, <2>1 DEF n
  <2>4. i = 0
    BY <1>2, <2>1, NestedIndices
  <2>5. cert = LeafCert(FirstOf(g) + (n + 1) - 1, 0)
    BY <2>3, <2>4 DEF cert
  <2>6. children' = Collected(g, n + 1)
    <3>1. children' = Append(children, cert)
      BY <1>9, <2>1 DEF role
    <3>2. QED BY <2>2, <2>3, <2>5, <3>1, CollectedFacts
  <2>7. CASE t = last /\ at' = Do("put_parent", g, 0)
    <3>1. at'.op = "put_parent" /\ at'.tile = g
      BY <2>7 DEF Do
    <3>2. SizeOf(g) = n + 1
      BY <1>4, <1>11, <2>1, <2>3, <2>7
    <3>3. children' = Children(g)
      BY <2>6, <3>2 DEF Children, Collected
    <3>4. QED BY <1>8, <3>1, <3>3, ChildrenThen
  <2>8. CASE t # last /\ at' = Do("read_leaf", t + 1, 0)
    <3>1. at'.op = "read_leaf" /\ at'.tile = t + 1 /\ GroupOf(t + 1) = g
      BY <1>11, <2>1, <2>8 DEF Do
    <3>2. (t + 1) - FirstOf(g) = n + 1
      BY <1>4, <2>3
    <3>3. QED BY <1>8, <2>6, <3>1, <3>2, ChildrenThen
  <2>9. QED BY <1>12, <2>1, <2>7, <2>8
<1>18. ParentInv'
  <2>1. ASSUME Nested, NEW h \in Groups, Grouped(h)' PROVE Grouped(h)
    <3>1. SUFFICES h < g
      BY <1>0 DEF Grouped, Reading, g, t
    <3>2. CASE at' = Do("put_parent", g, 0)
      <4>1. at'.op = "put_parent" /\ at'.tile = g
        BY <3>2 DEF Do
      <4>2. QED BY <1>8, <2>1, <4>1, GroupedThen
    <3>3. CASE t # last /\ at' = Do("read_leaf", t + 1, 0)
      <4>1. at'.op = "read_leaf" /\ at'.tile = t + 1 /\ GroupOf(t + 1) = g
        BY <1>11, <2>1, <3>3 DEF Do
      <4>2. QED BY <1>8, <2>1, <4>1, GroupedThen
    <3>4. QED BY <1>12, <2>1, <3>2, <3>3
  <2>2. QED BY <1>1, <1>8, <2>1, ParentKept
<1>19. CaughtInv'
  <2>1. Injected' = Injected
    BY <1>8, <1>9 DEF Injected
  <2>2. at'.op # "reduce"
    BY <1>12 DEF Do
  <2>3. ASSUME ~broken', Injected # None
        PROVE  at'.op = "read_leaf" \/ (at'.op = "put_parent" /\ at'.tile < GroupOf(Target))
    <3>1. ~(t = Target /\ i = Indices - 1)
      BY <1>10, <2>3 DEF Faulty
    <3>2. CASE Nested /\ t = last /\ at' = Do("put_parent", g, 0)
      <4>1. at'.op = "put_parent" /\ at'.tile = g
        BY <3>2 DEF Do
      <4>2. i = Indices - 1
        BY <1>2, <3>2, NestedIndices
      <4>3. last < Target
        BY <1>11, <3>1, <3>2, <4>2
      <4>4. QED BY <1>11, <3>2, <4>1, <4>3
    <3>3. CASE i + 1 = Indices /\ t = Target /\ at' = Do("release", 0, 0)
      <4>1. i = Indices - 1
        BY <1>2, <1>4, <3>3
      <4>2. QED BY <3>1, <3>3, <4>1
    <3>4. QED BY <1>12, <3>2, <3>3 DEF Do
  <2>4. GroupOf(Target)' = GroupOf(Target)
    BY <1>8 DEF GroupOf, Target, GroupSize
  <2>5. QED BY <2>1, <2>2, <2>3, <2>4 DEF CaughtInv
<1>20. status' # "fail" /\ at.op # "reduce" /\ status' \in {"running", "fail"} /\ attempt' \in {1, 2}
  BY <1>0, <1>1, <1>9
<1>21. QED BY <1>0, <1>1, <1>8, <1>9, <1>14, <1>15, <1>16, <1>17, <1>18, <1>19, <1>20, StepInv

LEMMA UnchangedStep ==
  ASSUME BspInv, UNCHANGED vars
  PROVE  BspInv'
<1>1. cell' = cell /\ status' = status /\ at' = at /\ epoch' = epoch /\ seed' = seed /\ attempt' = attempt
      /\ values' = values /\ children' = children /\ output' = output /\ leaf' = leaf /\ group' = group
      /\ events' = events /\ broken' = broken
  BY DEF vars, stepVars, retryVars, deviceVars
<1>2. Tiles' = Tiles /\ Blocks' = Blocks /\ Target' = Target /\ Nested' = Nested /\ Groups' = Groups
      /\ Indices' = Indices /\ RetryFrom' = RetryFrom
  BY <1>1, SameCell
<1>3. TypeInv' /\ ReleaseInv' /\ HealthyPasses'
  BY <1>1, <1>2 DEF BspInv, TypeInv, ReleaseInv, HealthyPasses, IsMatrix
<1>4. ASSUME status' = "running" PROVE RunInv'
  <2>1. RunInv
    BY <1>1, <1>4 DEF BspInv
  <2>2. AtInv'
    BY <1>1, <1>2, <2>1 DEF RunInv, AtInv
  <2>3. DataInv'
    BY <1>1, <1>2, <2>1 DEF RunInv, DataInv, Over, output_bytes
  <2>4. LeafInv'
    <3>1. \A t, i : Published(t, i)' = Published(t, i)
      BY <1>1, SamePublished
    <3>2. QED BY <1>1, <1>2, <2>1, <3>1 DEF RunInv, LeafInv, Over, Reading
  <2>5. ChildrenInv'
    BY <1>1, <2>1, ChildrenThen DEF RunInv, ChildrenInv
  <2>6. ParentInv'
    <3>1. \A g : Grouped(g)' => Grouped(g)
      BY <1>1, GroupedThen DEF Grouped
    <3>2. QED BY <1>1, <2>1, <3>1, ParentKept DEF RunInv
  <2>7. CaughtInv'
    <3>1. Injected' = Injected
      BY <1>1 DEF Injected
    <3>2. GroupOf(Target)' = GroupOf(Target)
      BY <1>1 DEF GroupOf, Target, GroupSize
    <3>3. QED BY <1>1, <2>1, <3>1, <3>2 DEF RunInv, CaughtInv
  <2>8. serial_oracle' = serial_oracle
    BY <1>1, SameOracle
  <2>9. QED BY <1>1, <2>1, <2>2, <2>3, <2>4, <2>5, <2>6, <2>7, <2>8 DEF RunInv
<1>5. QED BY <1>3, <1>4 DEF BspInv

LEMMA BspInit ==
  ASSUME Init
  PROVE  BspInv
<1>1. cell \in Cells /\ status = "running" /\ epoch = 0 /\ seed = 7 /\ attempt = 1 /\ broken = FALSE
      /\ events = <<>> /\ at = Do("output", 0, 0)
  BY DEF Init, FirstAttempt
<1>2. at.op = "output" /\ at.tile = 0 /\ at.index = 0
  BY <1>1 DEF Do
<1>3. TypeInv
  <2>1. IsMatrix(values) /\ IsMatrix(output) /\ IsMatrix(leaf) /\ group = [t \in Tiles |-> group[t]]
    BY DEF Init, IsMatrix, NoValues
  <2>2. events \in Seq(EventRecord) /\ 0 \in 0..Steps
    BY <1>1, BspAssumption
  <2>3. QED BY <1>1, <2>1, <2>2 DEF TypeInv
<1>4. ReleaseInv /\ HealthyPasses
  BY <1>1 DEF ReleaseInv, HealthyPasses
<1>5. AtInv
  <2>1. 0 \in Tiles /\ 0 \in Blocks
    BY <1>1, CellFacts
  <2>2. QED BY <1>1, <2>1 DEF AtInv, Turns
<1>6. DataInv
  <2>1. \A t \in Tiles, b \in Blocks : ~Over(t, b)
    BY <1>1, <1>2, CellFacts DEF Over
  <2>2. QED BY <1>1, <1>2, <2>1 DEF DataInv
<1>7. LeafInv /\ ChildrenInv /\ ParentInv /\ CaughtInv
  BY <1>2 DEF LeafInv, ChildrenInv, ParentInv, CaughtInv, Grouped, Reading
<1>8. 0 < Steps /\ seed = serial_oracle[0]
  BY <1>1, BspAssumption, OracleSteps
<1>9. QED BY <1>1, <1>3, <1>4, <1>5, <1>6, <1>7, <1>8 DEF BspInv, RunInv

\* Whatever the host does next, its outputs, certificates, groups and releases
\* are those the invariant describes, in every cell.
THEOREM BspSafe == Spec => []BspInv
<1>1. Init => BspInv
  BY BspInit
<1>2. BspInv /\ [Next]_vars => BspInv'
  <2>1. SUFFICES ASSUME BspInv, [Next]_vars PROVE BspInv'
    OBVIOUS
  <2>2. QED BY <2>1, OutputStep, StartBarrierStep, PutLeafStep, ReadLeafStep, PutParentStep, ReadParentStep,
               ReleaseStep, SiblingStep, ReduceStepStep, CommandErrorStep, UnchangedStep DEF Next
<1>3. QED BY <1>1, <1>2, PTL DEF Spec

\* As long as the devices work no cell fails (run_cell's except branch): the
\* injected fault is caught at its tile under its name and repaired by one retry.
THEOREM HealthySafe == Spec => []HealthyPasses
<1>1. BspInv => HealthyPasses
  BY DEF BspInv
<1>2. QED BY <1>1, BspSafe, PTL

\* Barrier.execute releases a superstep only over the outputs of every tile and
\* exactly their certificates, leaf and parent, of this epoch.
THEOREM ReleaseSafe == Spec => []NoFalseRelease
<1>1. BspInv => NoFalseRelease
  <2>1. SUFFICES ASSUME BspInv, JustReleased, ~broken \/ status = "running"
                 PROVE  /\ output = values
                        /\ \A t \in Tiles, i \in 0..Indices - 1 : leaf[t][i] = LeafCert(t, i)
                        /\ Nested => \A g \in Groups : group[Representative(g)] = ParentCert(g, Children(g))
    BY DEF NoFalseRelease
  <2>2. TypeInv /\ ReleaseInv /\ HealthyPasses
    BY <2>1 DEF BspInv
  <2>3. status \in {"running", "pass", "fail"} /\ events \in Seq(EventRecord) /\ epoch \in Nat
    BY <2>2, BspAssumption DEF TypeInv
  <2>4. PICK n \in DOMAIN events : events[n].action = "release" /\ events[n].epoch = epoch
    <3>1. events # <<>> /\ events[Len(events)].action = "release" /\ events[Len(events)].epoch = epoch
      BY <2>1 DEF JustReleased, Last
    <3>2. Len(events) \in DOMAIN events
      BY <2>3, <3>1
    <3>3. QED BY <3>1, <3>2
  <2>5. status # "pass"
    BY <2>2, <2>3, <2>4 DEF ReleaseInv
  <2>6. status = "running"
    BY <2>1, <2>2, <2>3, <2>5 DEF HealthyPasses
  <2>7. at.op = "reduce"
    BY <2>2, <2>4, <2>6 DEF ReleaseInv
  <2>8. cell \in Cells /\ DataInv /\ LeafInv /\ ParentInv /\ CaughtInv /\ IsMatrix(values) /\ IsMatrix(output)
    BY <2>1, <2>6, Running
  <2>9. output = values
    <3>1. \A t \in Tiles, b \in Blocks : output[t][b] = values[t][b]
      BY <2>7, <2>8, DataRight
    <3>2. QED BY <2>8, <3>1, SameMatrix
  <2>10. Injected = None
    BY <2>7, <2>8 DEF CaughtInv
  <2>11. ASSUME NEW t \in Tiles, NEW i \in 0..Indices - 1 PROVE leaf[t][i] = LeafCert(t, i)
    <3>1. leaf[t][i] = Published(t, i)
      BY <2>7, <2>8 DEF LeafInv, Reading
    <3>2. QED BY <2>10, <3>1 DEF Published, Faulty
  <2>12. Nested => \A g \in Groups : group[Representative(g)] = ParentCert(g, Children(g))
    BY <2>7, <2>8 DEF ParentInv, Grouped, Reading
  <2>13. QED BY <2>9, <2>11, <2>12
<1>2. QED BY <1>1, BspSafe, PTL

(***************************************************************************)
(* What the log and the counters add up to                                 *)
(***************************************************************************)
MetricsRecord == [root_reads : Nat, group_reads : Nat, certificate_writes : Nat,
                  certificate_bytes_read : Nat, certificate_bytes_written : Nat, released : BOOLEAN]

\* What the barrier in work has read and written, by where the host is.
InBarrier == at.op \in {"put_leaf"} \cup Reading
Leaves == cell.devices * Indices
LeafReads ==
  CASE at.op = "put_leaf" -> 0
    [] at.op = "read_leaf" -> at.tile * Indices + at.index
    [] at.op = "put_parent" -> LastOf(at.tile) + 1
    [] OTHER -> Leaves
ParentReads ==
  CASE at.op = "read_parent" -> at.tile
    [] at.op \in {"release", "reduce"} -> GroupCount
    [] OTHER -> 0
CertificateWrites ==
  CASE at.op = "put_leaf" -> at.tile * Indices + at.index
    [] at.op = "read_leaf" -> Leaves + (IF Nested THEN GroupOf(at.tile) ELSE 0)
    [] at.op = "put_parent" -> Leaves + at.tile
    [] OTHER -> ExpectedRoot + ExpectedGroup
RootReads == IF Nested THEN ParentReads ELSE LeafReads
GroupReads == IF Nested THEN LeafReads ELSE 0
MetricsInv ==
  InBarrier => metrics = Counters(RootReads, GroupReads, CertificateWrites, at.op = "reduce")

\* The output records of both attempts.
All == cell.devices * cell.blocks
OutputWrites ==
  CASE attempt = 1 /\ at.op = "output" -> at.tile * cell.blocks + at.index
    [] attempt = 2 /\ at.op = "output" -> All + (at.tile - RetryFrom) * cell.blocks + at.index
    [] attempt = 1 /\ at.op # "output" -> All
    [] OTHER -> All + (cell.devices - RetryFrom) * cell.blocks
WritesInv == data_writes = OutputWrites

\* Only the injected fault makes a second attempt.
FaultInv ==
  /\ fault.attempted_barrier \in MetricsRecord
  /\ attempt = 1 => fault = NoFault
  /\ attempt = 2 => epoch = 1 /\ cell.fault # None

\* The log of this superstep.
ReadsOf(role) == Cardinality(Doing(epoch, {role}))
LogInv ==
  /\ Cardinality(Doing(epoch, Outputs)) = data_writes
  /\ ReadsOf("read_root") = fault.attempted_barrier.root_reads + (IF InBarrier THEN metrics.root_reads ELSE 0)
  /\ ReadsOf("read_group") = fault.attempted_barrier.group_reads + (IF InBarrier THEN metrics.group_reads ELSE 0)
  /\ Cardinality(Mismatches(epoch)) = attempt - 1
  /\ Originals(epoch) =
       {x \in Tiles \X Blocks : at.op = "output" /\ attempt = 1 => Over(x[1], x[2])}
  /\ Doing(epoch, {"release"}) = IF at.op = "reduce" THEN {Len(events)} ELSE {}

\* The supersteps that are over are valid.
PastInv ==
  /\ (\E R : steps \in Seq(R)) /\ Len(steps) = epoch
  /\ \A n \in DOMAIN steps : steps[n].epoch = n - 1 /\ ValidCounts(steps[n])

CountInv ==
  /\ PastInv
  /\ status = "running" => MetricsInv /\ WritesInv /\ FaultInv /\ LogInv
  /\ status = "pass" => epoch = Steps

LEMMA EntriesFinite ==
  ASSUME events \in Seq(EventRecord)
  PROVE  /\ \A e : IsFiniteSet(Entries(e)) /\ IsFiniteSet(Mismatches(e))
         /\ \A e, A : IsFiniteSet(Doing(e, A))
<1>1. IsFiniteSet(1..Len(events)) /\ DOMAIN events = 1..Len(events)
  BY FS_Interval
<1>2. \A S \in SUBSET (1..Len(events)) : IsFiniteSet(S)
  BY <1>1, FS_Subset
<1>3. \A e : Entries(e) \in SUBSET (1..Len(events)) /\ Mismatches(e) \in SUBSET (1..Len(events))
  BY <1>1 DEF Entries, Mismatches
<1>4. \A e, A : Doing(e, A) \in SUBSET (1..Len(events))
  BY <1>1 DEF Entries, Doing
<1>5. QED BY <1>2, <1>3, <1>4

\* An entry changes what is read from the log of its own superstep, and nothing else.
LEMMA Appended ==
  ASSUME events \in Seq(EventRecord), NEW v \in EventRecord, events' = Append(events, v)
  PROVE  LET N == Len(events) + 1
         IN  /\ \A e : Entries(e)' = IF v.epoch = e THEN Entries(e) \cup {N} ELSE Entries(e)
             /\ \A e, A : Doing(e, A)' = IF v.epoch = e /\ v.action \in A
                                         THEN Doing(e, A) \cup {N} ELSE Doing(e, A)
             /\ \A e : Mismatches(e)' = IF v.epoch = e /\ ~v.ok
                                        THEN Mismatches(e) \cup {N} ELSE Mismatches(e)
             /\ \A e : Originals(e)' = IF v.epoch = e /\ v.action \in Outputs /\ ~v.retry
                                       THEN Originals(e) \cup {<<v.tile, v.block>>} ELSE Originals(e)
             /\ N = Len(events') /\ \A e : N \notin Entries(e)
<1> DEFINE N == Len(events) + 1
<1>1. /\ Len(events) \in Nat /\ DOMAIN events = 1..Len(events) /\ N = Len(events')
      /\ DOMAIN events' = DOMAIN events \cup {N} /\ N \notin DOMAIN events
      /\ events'[N] = v /\ \A n \in DOMAIN events : events'[n] = events[n]
  <2>1. Len(events) \in Nat /\ DOMAIN events = 1..Len(events) /\ Len(events') = Len(events) + 1
        /\ DOMAIN events' = 1..Len(events')
    OBVIOUS
  <2>2. 1..Len(events') = 1..Len(events) \cup {N} /\ N \notin 1..Len(events)
    BY <2>1
  <2>3. events'[N] = v /\ \A n \in 1..Len(events) : events'[n] = events[n]
    OBVIOUS
  <2>4. QED BY <2>1, <2>2, <2>3
<1> HIDE DEF N
<1>2. ASSUME NEW e
      PROVE  /\ Entries(e)' = IF v.epoch = e THEN Entries(e) \cup {N} ELSE Entries(e)
             /\ N \notin Entries(e) /\ Entries(e) \subseteq DOMAIN events
  BY <1>1 DEF Entries
<1>3. ASSUME NEW e, NEW A
      PROVE  /\ Doing(e, A)' = IF v.epoch = e /\ v.action \in A THEN Doing(e, A) \cup {N} ELSE Doing(e, A)
             /\ Doing(e, A) \subseteq DOMAIN events
  BY <1>1, <1>2 DEF Doing
<1>4. ASSUME NEW e
      PROVE  Mismatches(e)' = IF v.epoch = e /\ ~v.ok THEN Mismatches(e) \cup {N} ELSE Mismatches(e)
  BY <1>1, <1>2 DEF Mismatches
<1>5. ASSUME NEW e
      PROVE  Originals(e)' = IF v.epoch = e /\ v.action \in Outputs /\ ~v.retry
                             THEN Originals(e) \cup {<<v.tile, v.block>>} ELSE Originals(e)
  <2> DEFINE firsts == {m \in Doing(e, Outputs) : ~events[m].retry}
             Place(x) == <<x.tile, x.block>>
  <2>1. firsts' = IF v.epoch = e /\ v.action \in Outputs /\ ~v.retry THEN firsts \cup {N} ELSE firsts
    BY <1>1, <1>3
  <2>2. events'[N] = v /\ \A n \in firsts : events'[n] = events[n]
    BY <1>1, <1>3
  <2>3. Originals(e) = {Place(events[n]) : n \in firsts} /\ Originals(e)' = {Place(events'[n]) : n \in firsts'}
    BY DEF Originals
  <2> HIDE DEF firsts, Place
  <2>4. {Place(events'[n]) : n \in firsts} = {Place(events[n]) : n \in firsts}
    BY <2>2
  <2>5. {Place(events'[n]) : n \in firsts \cup {N}} = {Place(events'[n]) : n \in firsts} \cup {Place(events'[N])}
    OBVIOUS
  <2>6. Place(v) = <<v.tile, v.block>>
    BY DEF Place
  <2>7. QED BY <2>1, <2>2, <2>3, <2>4, <2>5, <2>6
<1>6. QED BY <1>1, <1>2, <1>3, <1>4, <1>5 DEF N

\* ... and the numbers of entries accordingly.
LEMMA Counted ==
  ASSUME events \in Seq(EventRecord), NEW v \in EventRecord, events' = Append(events, v)
  PROVE  /\ \A A : Cardinality(Doing(v.epoch, A))' =
                     IF v.action \in A THEN Cardinality(Doing(v.epoch, A)) + 1
                     ELSE Cardinality(Doing(v.epoch, A))
         /\ Cardinality(Mismatches(v.epoch))' =
              IF ~v.ok THEN Cardinality(Mismatches(v.epoch)) + 1 ELSE Cardinality(Mismatches(v.epoch))
<1> DEFINE N == Len(events) + 1
           e == v.epoch
<1>1. /\ \A A : Doing(e, A)' = IF v.action \in A THEN Doing(e, A) \cup {N} ELSE Doing(e, A)
      /\ Mismatches(e)' = IF ~v.ok THEN Mismatches(e) \cup {N} ELSE Mismatches(e)
      /\ N \notin Entries(e)
  BY Appended
<1>2. N \notin Mismatches(e) /\ \A A : N \notin Doing(e, A)
  BY <1>1 DEF Mismatches, Doing
<1>3. ASSUME NEW S, NEW x, IsFiniteSet(S), x \notin S PROVE Cardinality(S \cup {x}) = Cardinality(S) + 1
  BY <1>3, FS_AddElement
<1>4. IsFiniteSet(Mismatches(e)) /\ \A A : IsFiniteSet(Doing(e, A))
  BY EntriesFinite
<1> HIDE DEF N, e
<1>5. Cardinality(Mismatches(e) \cup {N}) = Cardinality(Mismatches(e)) + 1
  BY <1>2, <1>3, <1>4
<1>6. \A A : Cardinality(Doing(e, A) \cup {N}) = Cardinality(Doing(e, A)) + 1
  BY <1>2, <1>3, <1>4
<1>7. /\ \A A : Cardinality(Doing(e, A)') = IF v.action \in A THEN Cardinality(Doing(e, A)) + 1
                                           ELSE Cardinality(Doing(e, A))
      /\ Cardinality(Mismatches(e)') = IF ~v.ok THEN Cardinality(Mismatches(e)) + 1
                                       ELSE Cardinality(Mismatches(e))
  BY <1>1, <1>5, <1>6
<1>8. QED BY <1>7 DEF e

LEMMA SameLog ==
  ASSUME events' = events
  PROVE  /\ \A e : Entries(e)' = Entries(e) /\ Mismatches(e)' = Mismatches(e) /\ Originals(e)' = Originals(e)
         /\ \A e, A : Doing(e, A)' = Doing(e, A)
<1>1. \A e, A : Doing(e, A)' = Doing(e, A) /\ Entries(e)' = Entries(e) /\ Mismatches(e)' = Mismatches(e)
  BY DEF Doing, Entries, Mismatches
<1>2. QED BY <1>1 DEF Originals

LEMMA SameExpected ==
  ASSUME cell' = cell
  PROVE  /\ ExpectedRoot' = ExpectedRoot /\ ExpectedGroup' = ExpectedGroup /\ Leaves' = Leaves /\ All' = All
         /\ SizeOf(GroupOf(Target))' = SizeOf(GroupOf(Target)) /\ GroupCount' = GroupCount
<1>1. GroupSize' = GroupSize /\ Target' = Target /\ Nested' = Nested /\ Indices' = Indices
  BY DEF GroupSize, Target, Nested, Indices
<1>2. GroupOf(Target)' = GroupOf(Target) /\ GroupCount' = GroupCount
  BY <1>1 DEF GroupOf, GroupCount
<1>3. SizeOf(GroupOf(Target))' = SizeOf(GroupOf(Target))
  BY <1>1, <1>2 DEF SizeOf, LastOf, FirstOf
<1>4. QED BY <1>1, <1>2, <1>3 DEF ExpectedRoot, ExpectedGroup, Leaves, All

\* What validate says of a superstep depends on its own entries only.
LEMMA ValidKept ==
  ASSUME NEW step, cell' = cell, ValidCounts(step),
         Entries(step.epoch)' = Entries(step.epoch), Mismatches(step.epoch)' = Mismatches(step.epoch),
         Originals(step.epoch)' = Originals(step.epoch),
         \A A : Doing(step.epoch, A)' = Doing(step.epoch, A)
  PROVE  ValidCounts(step)'
<1>1. /\ ExpectedRoot' = ExpectedRoot /\ ExpectedGroup' = ExpectedGroup
      /\ SizeOf(GroupOf(Target))' = SizeOf(GroupOf(Target))
  BY SameExpected
<1>2. Retries(step.epoch)' = Retries(step.epoch)
  BY <1>1 DEF Retries
<1>3. \A A : Doing(step.epoch, A)' = Doing(step.epoch, A)
  OBVIOUS
<1>4. QED BY <1>1, <1>2, <1>3 DEF ValidCounts, Outputs, Counters, CertBytes

LEMMA PastKept ==
  ASSUME PastInv, epoch \in Nat, events \in Seq(EventRecord), cell' = cell, epoch' = epoch, steps' = steps,
         events' = events \/ \E v \in EventRecord : v.epoch = epoch /\ events' = Append(events, v)
  PROVE  PastInv'
<1>1. ASSUME NEW n \in DOMAIN steps
      PROVE  steps'[n].epoch = n - 1 /\ ValidCounts(steps[n])'
  <2>1. steps[n].epoch = n - 1 /\ ValidCounts(steps[n])
    BY DEF PastInv
  <2>2. n \in 1..epoch
    BY DEF PastInv
  <2>3. PICK step : step = steps[n]
    OBVIOUS
  <2>4. step.epoch # epoch
    BY <2>1, <2>2, <2>3
  <2>5. /\ Entries(step.epoch)' = Entries(step.epoch) /\ Mismatches(step.epoch)' = Mismatches(step.epoch)
        /\ Originals(step.epoch)' = Originals(step.epoch) /\ \A A : Doing(step.epoch, A)' = Doing(step.epoch, A)
    <3>1. CASE events' = events
      BY <3>1, SameLog
    <3>2. CASE \E v \in EventRecord : v.epoch = epoch /\ events' = Append(events, v)
      <4>1. PICK v \in EventRecord : v.epoch = epoch /\ events' = Append(events, v)
        BY <3>2
      <4>2. QED BY <2>4, <4>1, Appended
    <3>3. QED BY <3>1, <3>2
  <2>6. ValidCounts(step)'
    BY <2>1, <2>3, <2>5, ValidKept
  <2>7. steps'[n] = step
    BY <2>3
  <2>8. ValidCounts(steps[n])'
    BY <2>6, <2>7
  <2>9. QED BY <2>1, <2>8
<1>2. QED BY <1>1 DEF PastInv

\* A raised error leaves the supersteps that are over alone.
LEMMA FailCounts ==
  ASSUME BspInv, CountInv, status' = "fail", cell' = cell, epoch' = epoch, steps' = steps,
         events' = events \/ \E v \in EventRecord : v.epoch = epoch /\ events' = Append(events, v)
  PROVE  CountInv'
<1>1. epoch \in Nat /\ events \in Seq(EventRecord) /\ PastInv
  BY BspAssumption DEF BspInv, TypeInv, CountInv
<1>2. PastInv'
  BY <1>1, PastKept
<1>3. QED BY <1>2 DEF CountInv

\* A step that logs nothing.
LEMMA QuietLog ==
  ASSUME LogInv, events' = events, epoch' = epoch, cell' = cell, attempt' = attempt, fault' = fault,
         data_writes' = data_writes, at.op \notin {"output", "reduce"}, at'.op \notin {"output", "reduce"},
         ~InBarrier, InBarrier' => metrics' = NoMetrics, FaultInv
  PROVE  LogInv'
<1>1. /\ \A e : Mismatches(e)' = Mismatches(e) /\ Originals(e)' = Originals(e)
      /\ \A e, A : Doing(e, A)' = Doing(e, A)
  BY SameLog
<1>2. Tiles' = Tiles /\ Blocks' = Blocks
  BY SameCell
<1>3. fault.attempted_barrier.root_reads \in Nat /\ fault.attempted_barrier.group_reads \in Nat
  BY DEF FaultInv, MetricsRecord
<1>4. /\ Cardinality(Doing(epoch, Outputs))' = data_writes'
      /\ Doing(epoch, {"release"})' = {} /\ Cardinality(Mismatches(epoch))' = attempt' - 1
  BY <1>1 DEF LogInv, Outputs
<1>5. /\ ReadsOf("read_root")' = fault.attempted_barrier.root_reads /\ ReadsOf("read_group")' = fault.attempted_barrier.group_reads
  BY <1>1, <1>3 DEF LogInv, ReadsOf
<1>6. InBarrier' => metrics'.root_reads = 0 /\ metrics'.group_reads = 0
  BY DEF NoMetrics
<1>7. Originals(epoch)' = {x \in Tiles' \X Blocks' : TRUE}
  BY <1>1, <1>2 DEF LogInv
<1>8. QED BY <1>3, <1>4, <1>5, <1>6, <1>7 DEF LogInv

\* A step that logs an event.
LEMMA LogThen ==
  ASSUME LogInv, events \in Seq(EventRecord), at.op # "reduce", epoch' = epoch,
         NEW v \in EventRecord, v.epoch = epoch, events' = Append(events, v)
  PROVE  /\ Cardinality(Doing(epoch, Outputs))' = IF v.action \in Outputs THEN data_writes + 1 ELSE data_writes
         /\ ReadsOf("read_root")' = IF v.action = "read_root" THEN ReadsOf("read_root") + 1
                                    ELSE ReadsOf("read_root")
         /\ ReadsOf("read_group")' = IF v.action = "read_group" THEN ReadsOf("read_group") + 1
                                     ELSE ReadsOf("read_group")
         /\ Cardinality(Mismatches(epoch))' = IF v.ok THEN attempt - 1 ELSE attempt - 1 + 1
         /\ Originals(epoch)' = IF v.action \in Outputs /\ ~v.retry
                                THEN Originals(epoch) \cup {<<v.tile, v.block>>} ELSE Originals(epoch)
         /\ Doing(epoch, {"release"})' = IF v.action = "release" THEN {Len(events')} ELSE {}
<1>1. \A A : Cardinality(Doing(epoch, A)') = IF v.action \in A THEN Cardinality(Doing(epoch, A)) + 1
                                             ELSE Cardinality(Doing(epoch, A))
  BY Counted
<1>2. Cardinality(Mismatches(epoch)') = IF ~v.ok THEN Cardinality(Mismatches(epoch)) + 1
                                        ELSE Cardinality(Mismatches(epoch))
  BY Counted
<1>3. Originals(epoch)' = IF v.action \in Outputs /\ ~v.retry
                          THEN Originals(epoch) \cup {<<v.tile, v.block>>} ELSE Originals(epoch)
  BY Appended
<1>4. Doing(epoch, {"release"})' = IF v.action = "release" THEN Doing(epoch, {"release"}) \cup {Len(events')}
                                   ELSE Doing(epoch, {"release"})
  BY Appended
<1>5. Cardinality(Doing(epoch, Outputs)) = data_writes /\ Cardinality(Mismatches(epoch)) = attempt - 1
      /\ Doing(epoch, {"release"}) = {}
  BY DEF LogInv
<1>6. Outputs' = Outputs
  BY DEF Outputs
<1>7. v.action \in {"read_root"} <=> v.action = "read_root"
  OBVIOUS
<1>8. v.action \in {"read_group"} <=> v.action = "read_group"
  OBVIOUS
<1>9. ReadsOf("read_root")' = Cardinality(Doing(epoch, {"read_root"})')
      /\ ReadsOf("read_group")' = Cardinality(Doing(epoch, {"read_group"})')
  BY DEF ReadsOf
<1>10. ReadsOf("read_root") = Cardinality(Doing(epoch, {"read_root"}))
       /\ ReadsOf("read_group") = Cardinality(Doing(epoch, {"read_group"}))
  BY DEF ReadsOf
<1>11. ReadsOf("read_root")' = IF v.action = "read_root" THEN ReadsOf("read_root") + 1 ELSE ReadsOf("read_root")
  BY <1>1, <1>7, <1>9, <1>10
<1>12. ReadsOf("read_group")' = IF v.action = "read_group" THEN ReadsOf("read_group") + 1 ELSE ReadsOf("read_group")
  BY <1>1, <1>8, <1>9, <1>10
<1>13. Cardinality(Doing(epoch, Outputs))' = IF v.action \in Outputs THEN data_writes + 1 ELSE data_writes
  BY <1>1, <1>5, <1>6
<1>14. Cardinality(Mismatches(epoch))' = IF v.ok THEN attempt - 1 ELSE attempt - 1 + 1
  BY <1>2, <1>5
<1>15. Doing(epoch, {"release"})' = IF v.action = "release" THEN {Len(events')} ELSE {}
  BY <1>4, <1>5
<1>16. QED BY <1>3, <1>11, <1>12, <1>13, <1>14, <1>15

\* What the counters need to know of a running host.
LEMMA Counting ==
  ASSUME BspInv, CountInv, status = "running"
  PROVE  /\ PastInv /\ MetricsInv /\ WritesInv /\ FaultInv /\ LogInv
         /\ cell \in Cells /\ epoch \in Nat /\ attempt \in {1, 2} /\ events \in Seq(EventRecord) /\ AtInv
         /\ cell.devices \in Nat \ {0} /\ cell.blocks \in Nat \ {0} /\ Indices \in Nat \ {0}
         /\ Target = cell.devices - 1 /\ Tiles = 0..Target /\ Blocks = 0..cell.blocks - 1 /\ Target \in Nat
         /\ RetryFrom \in Tiles /\ RetryFrom \in Nat
<1>1. cell \in Cells /\ epoch \in Nat /\ attempt \in {1, 2} /\ events \in Seq(EventRecord) /\ AtInv
  BY Running
<1>2. RetryFrom \in Tiles
  BY <1>1, RetryTile
<1>3. Indices \in 1..cell.blocks /\ cell.blocks \in Nat \ {0} /\ RetryFrom \in Nat
  BY <1>1, <1>2, CellFacts
<1>4. QED BY <1>1, <1>2, <1>3, CellFacts DEF CountInv, Target, Blocks

\* A step of the loops, from what it has to show.
LEMMA CountStep ==
  ASSUME BspInv, CountInv, status = "running", status' = "running", cell' = cell, epoch' = epoch, steps' = steps,
         events' = events \/ \E v \in EventRecord : v.epoch = epoch /\ events' = Append(events, v),
         MetricsInv', WritesInv', FaultInv', LogInv'
  PROVE  CountInv'
<1>1. PastInv'
  BY Counting, PastKept
<1>2. QED BY <1>1 DEF CountInv

LEMMA FaultKept ==
  ASSUME FaultInv, fault' = fault, attempt' = attempt, epoch' = epoch, cell' = cell
  PROVE  FaultInv'
  BY DEF FaultInv, NoFault, NoMetrics, MetricsRecord

LEMMA LoopGoes ==
  ASSUME NEW last, NEW count, NEW then
  PROVE  \/ Loop(last, count, then) = Do(at.op, at.tile, at.index + 1)
         \/ Loop(last, count, then) = Do(at.op, at.tile + 1, 0)
         \/ Loop(last, count, then) = then
  BY DEF Loop

LEMMA SiblingCounts ==
  ASSUME BspInv, CountInv, Sibling
  PROVE  CountInv'
<1>0. status = "running" /\ at.op = "sibling"
      /\ cell' = cell /\ epoch' = epoch /\ attempt' = attempt /\ fault' = fault /\ steps' = steps
      /\ data_writes' = data_writes /\ metrics' = metrics /\ events' = events
  BY DEF Sibling, Ready, stepVars, retryVars, deviceVars
<1>1. status' = "fail" \/ (at' = After /\ status' = "running")
  BY <1>0 DEF Sibling, Abort, Advance
<1>2. CASE status' = "fail"
  BY <1>0, <1>2, FailCounts
<1>3. CASE at' = After /\ status' = "running"
  <2>1. at'.op \in {"sibling", "barrier"}
    <3>1. at' = Loop(RetryFrom - 1, cell.blocks, Do("barrier", 0, 0))
      BY <1>0, <1>3 DEF After
    <3>2. QED BY <1>0, <3>1, LoopGoes, DoFields
  <2>2. attempt = 2
    BY <1>0, Counting, AtFacts
  <2>3. ~InBarrier /\ ~InBarrier'
    BY <1>0, <2>1 DEF InBarrier, Reading
  <2>4. MetricsInv' /\ FaultInv'
    BY <1>0, <2>3, Counting, FaultKept DEF MetricsInv
  <2>5. LogInv'
    BY <1>0, <2>1, <2>3, Counting, QuietLog
  <2>6. WritesInv'
    <3>1. data_writes = All + (cell.devices - RetryFrom) * cell.blocks
      BY <1>0, <2>2, Counting DEF WritesInv, OutputWrites
    <3>2. All' = All /\ RetryFrom' = RetryFrom
      BY <1>0, SameExpected, SameCell
    <3>3. QED BY <1>0, <2>1, <2>2, <3>1, <3>2 DEF WritesInv, OutputWrites
  <2>7. QED BY <1>0, <1>3, <2>4, <2>5, <2>6, CountStep
<1>4. QED BY <1>1, <1>2, <1>3

LEMMA CommandErrorCounts ==
  ASSUME BspInv, CountInv, CommandError
  PROVE  CountInv'
<1>1. status' = "fail" /\ cell' = cell /\ epoch' = epoch /\ steps' = steps /\ events' = events
  BY DEF CommandError, Abort, stepVars, retryVars
<1>2. QED BY <1>1, FailCounts

\* Once the outputs are made their number stays until the next attempt.
LEMMA WritesKept ==
  ASSUME WritesInv, cell' = cell, attempt' = attempt, data_writes' = data_writes,
         at.op # "output", at'.op # "output"
  PROVE  WritesInv'
<1>1. All' = All /\ RetryFrom' = RetryFrom
  BY SameExpected, SameCell
<1>2. QED BY <1>1 DEF WritesInv, OutputWrites

LEMMA StartBarrierCounts ==
  ASSUME BspInv, CountInv, StartBarrier
  PROVE  CountInv'
<1>0. status = "running" /\ at.op = "barrier" /\ metrics' = NoMetrics /\ at' = After /\ status' = status
      /\ cell' = cell /\ epoch' = epoch /\ attempt' = attempt /\ fault' = fault /\ steps' = steps
      /\ data_writes' = data_writes /\ events' = events
  BY DEF StartBarrier, Ready, stepVars, retryVars, deviceVars, Advance
<1>1. at'.op = "put_leaf" /\ at'.tile = 0 /\ at'.index = 0
  BY <1>0, DoFields DEF After
<1>2. ~InBarrier
  BY <1>0 DEF InBarrier, Reading
<1>3. MetricsInv'
  <2>1. Indices' \in Nat
    BY <1>0, SameCell, Counting
  <2>2. LeafReads' = 0 /\ ParentReads' = 0 /\ CertificateWrites' = 0
    BY <1>1, <2>1 DEF LeafReads, ParentReads, CertificateWrites
  <2>3. RootReads' = 0 /\ GroupReads' = 0
    BY <2>2 DEF RootReads, GroupReads
  <2>4. NoMetrics = Counters(0, 0, 0, FALSE)
    BY DEF NoMetrics, Counters, CertBytes
  <2>5. QED BY <1>0, <1>1, <2>2, <2>3, <2>4 DEF MetricsInv, Counters
<1>4. FaultInv' /\ WritesInv'
  BY <1>0, <1>1, Counting, FaultKept, WritesKept
<1>5. LogInv'
  BY <1>0, <1>1, <1>2, Counting, QuietLog
<1>6. QED BY <1>0, <1>3, <1>4, <1>5, CountStep

LEMMA Carry ==
  ASSUME NEW B \in Int, NEW x \in Int, NEW i \in Int, i + 1 = B
  PROVE  (x * B + i) + 1 = (x + 1) * B
<1>1. (x + 1) * B = x * B + B
  OBVIOUS
<1>2. PICK p \in Int : p = x * B
  OBVIOUS
<1>3. QED BY <1>1, <1>2

\* One more turn of a loop of B blocks, in the first and in the second attempt.
LEMMA Rows ==
  ASSUME NEW D \in Int, NEW B \in Int, NEW R \in Int, NEW t \in Int, NEW b \in Int
  PROVE  /\ (t * B + b) + 1 = t * B + (b + 1)
         /\ (D * B + (t - R) * B + b) + 1 = D * B + (t - R) * B + (b + 1)
         /\ b + 1 = B => /\ (t * B + b) + 1 = (t + 1) * B + 0
                         /\ (D * B + (t - R) * B + b) + 1 = D * B + ((t + 1) - R) * B + 0
         /\ b + 1 = B /\ t + 1 = D => /\ (t * B + b) + 1 = D * B
                                      /\ (D * B + (t - R) * B + b) + 1 = D * B + (D - R) * B
<1>1. PICK p \in Int, q \in Int, d \in Int : p = t * B /\ q = (t - R) * B /\ d = D * B
  OBVIOUS
<1>2. /\ (t * B + b) + 1 = t * B + (b + 1)
      /\ (D * B + (t - R) * B + b) + 1 = D * B + (t - R) * B + (b + 1)
  <2>1. (p + b) + 1 = p + (b + 1) /\ (d + q + b) + 1 = d + q + (b + 1)
    BY <1>1
  <2>2. QED BY <1>1, <2>1, Zenon
<1>3. ASSUME b + 1 = B
      PROVE  /\ (t * B + b) + 1 = (t + 1) * B
             /\ (D * B + (t - R) * B + b) + 1 = D * B + ((t + 1) - R) * B
             /\ (t + 1) * B \in Int /\ ((t + 1) - R) * B \in Int
  <2>1. (t * B + b) + 1 = (t + 1) * B /\ ((t - R) * B + b) + 1 = ((t - R) + 1) * B
    BY <1>3, Carry
  <2>2. (t - R) + 1 = (t + 1) - R
    OBVIOUS
  <2>3. (d + q + b) + 1 = d + ((q + b) + 1)
    BY <1>1
  <2>4. (D * B + (t - R) * B + b) + 1 = D * B + ((t + 1) - R) * B
    BY <1>1, <2>1, <2>2, <2>3, Zenon
  <2>5. (t + 1) * B \in Int /\ ((t + 1) - R) * B \in Int
    OBVIOUS
  <2>6. QED BY <2>1, <2>4, <2>5, Zenon
<1>4. ASSUME b + 1 = B
      PROVE  /\ (t * B + b) + 1 = (t + 1) * B + 0
             /\ (D * B + (t - R) * B + b) + 1 = D * B + ((t + 1) - R) * B + 0
  <2>1. PICK u \in Int, w \in Int : u = (t + 1) * B /\ w = ((t + 1) - R) * B
    BY <1>3, <1>4
  <2>2. u = u + 0 /\ d + w = d + w + 0
    BY <1>1
  <2>3. QED BY <1>1, <1>3, <1>4, <2>1, <2>2, Zenon
<1>5. QED BY <1>2, <1>3, <1>4, Zenon

\* Outputs, by one turn of their loop.
LEMMA OutputCounts ==
  ASSUME BspInv, CountInv, Output
  PROVE  CountInv'
<1>0. status = "running" /\ at.op = "output" /\ cell' = cell /\ epoch' = epoch /\ attempt' = attempt
      /\ fault' = fault /\ steps' = steps
  BY DEF Output, Ready, stepVars, retryVars
<1>1. \/ status' = "fail" /\ events' = events
      \/ /\ data_writes' = data_writes + 1 /\ at' = After /\ status' = "running"
         /\ \E a \in Outputs : events' = Append(events, Event(a, at.tile, at.index, output_bytes(seed, epoch, at.tile, at.index), TRUE))
  BY <1>0 DEF Output, Abort, Advance, Outputs, Log
<1>2. CASE status' = "fail" /\ events' = events
  BY <1>0, <1>2, FailCounts
<1>3. CASE /\ data_writes' = data_writes + 1 /\ at' = After /\ status' = "running"
           /\ \E a \in Outputs : events' = Append(events, Event(a, at.tile, at.index, output_bytes(seed, epoch, at.tile, at.index), TRUE))
  <2>1. /\ FaultInv /\ LogInv /\ WritesInv /\ cell \in Cells /\ epoch \in Nat /\ attempt \in {1, 2}
        /\ events \in Seq(EventRecord) /\ cell.devices \in Nat \ {0} /\ cell.blocks \in Nat \ {0}
        /\ Target = cell.devices - 1 /\ Tiles = 0..Target /\ Blocks = 0..cell.blocks - 1
        /\ Target \in Nat /\ RetryFrom \in Nat /\ AtInv
    BY <1>0, Counting
  <2>a. at.tile \in 0..Target /\ at.index \in 0..cell.blocks - 1
    BY <1>0, <2>1, AtFacts
  <2>2. PICK t \in 0..Target, b \in 0..cell.blocks - 1 : at.tile = t /\ at.index = b
    BY <2>a
  <2>3. PICK v \in EventRecord : /\ v.epoch = epoch /\ v.action \in Outputs /\ v.tile = t /\ v.block = b
                                 /\ v.ok = TRUE /\ v.retry = (attempt = 2) /\ events' = Append(events, v)
    <3>0. PICK d \in Nat : d = output_bytes(seed, epoch, t, b)
      <4>1. seed \in Int /\ epoch \in Int /\ t \in Tiles /\ b \in Blocks
        BY <1>0, <2>1, Running
      <4>2. QED BY <2>1, <4>1, OutcomeWords
    <3>1. PICK a \in Outputs : events' = Append(events, Event(a, t, b, d, TRUE))
      BY <1>3, <2>2, <3>0
    <3>2. a \in Action /\ t \in Nat /\ b \in Nat
      BY <2>1, <2>2 DEF Action
    <3>3. Event(a, t, b, d, TRUE) \in EventRecord
      BY <2>1, <3>2, RightEvent
    <3>4. QED BY <3>1, <3>3 DEF Event
  <2>4. PICK then : /\ then \in {Do("sibling", 0, 0), Do("barrier", 0, 0)}
                    /\ at' = Loop(Target, cell.blocks, then)
    BY <1>0, <1>3 DEF After
  <2>5. \/ b + 1 < cell.blocks /\ at' = Do("output", t, b + 1)
        \/ b + 1 = cell.blocks /\ t < Target /\ at' = Do("output", t + 1, 0)
        \/ b + 1 = cell.blocks /\ t = Target /\ at' = then
    <3>1. \/ at.index + 1 < cell.blocks /\ at' = Do(at.op, at.tile, at.index + 1)
          \/ at.index + 1 = cell.blocks /\ at.tile < Target /\ at' = Do(at.op, at.tile + 1, 0)
          \/ at.index + 1 = cell.blocks /\ at.tile = Target /\ at' = then
      BY <2>1, <2>a, <2>4, Turn
    <3>2. QED BY <1>0, <2>2, <3>1
  <2>6. at'.op \in {"output", "sibling", "barrier"}
    BY <2>4, <2>5 DEF Do
  <2>7. ~InBarrier /\ ~InBarrier'
    BY <1>0, <2>6 DEF InBarrier, Reading
  <2>8. MetricsInv' /\ FaultInv'
    BY <1>0, <2>1, <2>7, FaultKept DEF MetricsInv
  <2>9. Tiles' = Tiles /\ Blocks' = Blocks /\ All' = All /\ RetryFrom' = RetryFrom
    BY <1>0, SameCell, SameExpected
  <2>10. WritesInv'
    <3>1. PICK B \in Int, D \in Int, R \in Int : B = cell.blocks /\ D = cell.devices /\ R = RetryFrom
      BY <2>1
    <3>2. /\ attempt = 1 => data_writes = t * B + b
          /\ attempt = 2 => data_writes = D * B + (t - R) * B + b
      BY <1>0, <2>1, <2>2, <3>1 DEF WritesInv, OutputWrites, All
    <3>3. /\ attempt = 1 => data_writes' = (t * B + b) + 1
          /\ attempt = 2 => data_writes' = (D * B + (t - R) * B + b) + 1
      BY <1>3, <3>2, Zenon
    <3>4. /\ at'.op = "output" /\ attempt = 1 => OutputWrites' = at'.tile * B + at'.index
          /\ at'.op = "output" /\ attempt = 2 => OutputWrites' = D * B + (at'.tile - R) * B + at'.index
          /\ at'.op # "output" /\ attempt = 1 => OutputWrites' = D * B
          /\ at'.op # "output" /\ attempt = 2 => OutputWrites' = D * B + (D - R) * B
      BY <1>0, <2>9, <3>1 DEF OutputWrites, All
    <3>5. t \in Int /\ b \in Int /\ Target + 1 = D /\ attempt \in {1, 2}
      BY <2>1, <3>1
    <3>6. CASE at' = Do("output", t, b + 1)
      <4>1. at'.op = "output" /\ at'.tile = t /\ at'.index = b + 1
        BY <3>6, DoFields
      <4>2. /\ (t * B + b) + 1 = t * B + (b + 1)
            /\ (D * B + (t - R) * B + b) + 1 = D * B + (t - R) * B + (b + 1)
        BY <3>5, Rows
      <4>3. QED BY <3>3, <3>4, <3>5, <4>1, <4>2, Zenon DEF WritesInv
    <3>7. CASE b + 1 = cell.blocks /\ at' = Do("output", t + 1, 0)
      <4>1. at'.op = "output" /\ at'.tile = t + 1 /\ at'.index = 0
        BY <3>7, DoFields
      <4>2. /\ (t * B + b) + 1 = (t + 1) * B + 0
            /\ (D * B + (t - R) * B + b) + 1 = D * B + ((t + 1) - R) * B + 0
        <5>1. b + 1 = B
          BY <3>1, <3>7
        <5>2. QED BY <3>5, <5>1, Rows
      <4>3. QED BY <3>3, <3>4, <3>5, <4>1, <4>2, Zenon DEF WritesInv
    <3>8. CASE b + 1 = cell.blocks /\ t = Target /\ at' = then
      <4>1. at'.op # "output"
        BY <2>4, <3>8, DoFields
      <4>2. /\ (t * B + b) + 1 = D * B
            /\ (D * B + (t - R) * B + b) + 1 = D * B + (D - R) * B
        <5>1. b + 1 = B /\ t + 1 = D
          BY <3>1, <3>5, <3>8
        <5>2. QED BY <3>5, <5>1, Rows
      <4>3. QED BY <3>3, <3>4, <3>5, <4>1, <4>2, Zenon DEF WritesInv
    <3>9. QED BY <2>5, <3>6, <3>7, <3>8
  <2>11. Originals(epoch)' = {x \in Tiles \X Blocks : at'.op = "output" /\ attempt = 1 => Over(x[1], x[2])'}
    <3>1. Originals(epoch)' = IF attempt = 1 THEN Originals(epoch) \cup {<<t, b>>} ELSE Originals(epoch)
      <4>1. Originals(epoch)' = IF v.action \in Outputs /\ ~v.retry
                                THEN Originals(epoch) \cup {<<v.tile, v.block>>} ELSE Originals(epoch)
        BY <1>0, <2>1, <2>3, LogThen
      <4>2. v.retry = (attempt = 2) /\ attempt \in {1, 2} /\ v.action \in Outputs /\ v.tile = t /\ v.block = b
        BY <2>1, <2>3
      <4>3. CASE attempt = 1
        <5>1. ~v.retry
          <6>1. attempt # 2
            BY <4>3
          <6>2. QED BY <4>2, <6>1, Zenon
        <5>2. QED BY <4>1, <4>2, <4>3, <5>1
      <4>4. CASE attempt = 2
        <5>1. v.retry
          BY <4>2, <4>4
        <5>2. QED BY <4>1, <4>2, <4>4, <5>1
      <4>5. QED BY <4>2, <4>3, <4>4
    <3>2. Originals(epoch) = {x \in Tiles \X Blocks : attempt = 1 => Over(x[1], x[2])}
      BY <1>0, <2>1 DEF LogInv
    <3>3. CASE attempt = 2
      BY <3>1, <3>2, <3>3
    <3>4. CASE attempt = 1
      <4>1. ASSUME NEW x \in 0..Target, NEW y \in 0..cell.blocks - 1
            PROVE  (at'.op = "output" => Over(x, y)') <=> (Over(x, y) \/ (x = t /\ y = b))
        <5>1. CASE b + 1 < cell.blocks /\ at' = Do("output", t, b + 1)
          <6>1. at'.op = "output" /\ at'.tile = t /\ at'.index = b + 1
            BY <5>1, DoFields
          <6>2. QED BY <2>1, <2>2, <6>1 DEF Over
        <5>2. CASE b + 1 = cell.blocks /\ t < Target /\ at' = Do("output", t + 1, 0)
          <6>1. at'.op = "output" /\ at'.tile = t + 1 /\ at'.index = 0
            BY <5>2, DoFields
          <6>2. QED BY <2>1, <2>2, <5>2, <6>1 DEF Over
        <5>3. CASE b + 1 = cell.blocks /\ t = Target /\ at' = then
          <6>1. at'.op # "output"
            BY <2>4, <5>3, DoFields
          <6>2. QED BY <2>1, <2>2, <5>3, <6>1 DEF Over
        <5>4. QED BY <2>5, <5>1, <5>2, <5>3
      <4>2. \A z \in Tiles \X Blocks : /\ z[1] \in 0..Target /\ z[2] \in 0..cell.blocks - 1 /\ z = <<z[1], z[2]>>
                                       /\ z = <<t, b>> <=> z[1] = t /\ z[2] = b
        BY <2>1
      <4>3. <<t, b>> \in Tiles \X Blocks
        BY <2>1, <2>2
      <4>4. \A z \in Tiles \X Blocks : (at'.op = "output" => Over(z[1], z[2])')
                                         <=> (Over(z[1], z[2]) \/ z = <<t, b>>)
        BY <4>1, <4>2
      <4>5. QED BY <3>1, <3>2, <3>4, <4>3, <4>4
    <3>5. QED BY <2>1, <3>3, <3>4
  <2>12. LogInv'
    <3>1. /\ Cardinality(Doing(epoch, Outputs))' = data_writes + 1
          /\ ReadsOf("read_root")' = ReadsOf("read_root") /\ ReadsOf("read_group")' = ReadsOf("read_group")
          /\ Cardinality(Mismatches(epoch))' = attempt - 1 /\ Doing(epoch, {"release"})' = {}
      <4>1. v.action # "read_root" /\ v.action # "read_group" /\ v.action # "release"
        BY <2>3 DEF Outputs
      <4>2. QED BY <1>0, <2>1, <2>3, <4>1, LogThen
    <3>2. ReadsOf("read_root") = fault.attempted_barrier.root_reads + 0 /\ ReadsOf("read_group") = fault.attempted_barrier.group_reads + 0
      BY <2>1, <2>7 DEF LogInv
    <3>3. at'.op # "reduce"
      BY <2>6
    <3>4. QED BY <1>0, <1>3, <2>7, <2>9, <2>11, <3>1, <3>2, <3>3 DEF LogInv
  <2>13. \E e \in EventRecord : e.epoch = epoch /\ events' = Append(events, e)
    BY <2>3
  <2>14. QED BY <1>0, <1>3, <2>8, <2>10, <2>12, <2>13, CountStep
<1>4. QED BY <1>1, <1>2, <1>3

\* What a certificate read or written changes in the log.
LEMMA BarrierLog ==
  ASSUME LogInv, InBarrier, InBarrier', cell' = cell, epoch' = epoch, attempt' = attempt, fault' = fault,
         data_writes' = data_writes, FaultInv, events \in Seq(EventRecord), at.op # "reduce", at'.op # "reduce",
         metrics.root_reads \in Nat, metrics.group_reads \in Nat,
         NEW v \in EventRecord, v.epoch = epoch, events' = Append(events, v), v.ok = TRUE,
         v.action \in {"certificate_write", "read_root", "read_group"},
         metrics'.root_reads = IF v.action = "read_root" THEN metrics.root_reads + 1 ELSE metrics.root_reads,
         metrics'.group_reads = IF v.action = "read_group" THEN metrics.group_reads + 1 ELSE metrics.group_reads
  PROVE  LogInv'
<1>1. Tiles' = Tiles /\ Blocks' = Blocks
  BY SameCell
<1>2. v.action \notin Outputs /\ v.action # "release" /\ at.op # "output" /\ at'.op # "output"
  BY DEF Outputs, InBarrier, Reading
<1>3. /\ Cardinality(Doing(epoch, Outputs))' = data_writes
      /\ ReadsOf("read_root")' = IF v.action = "read_root" THEN ReadsOf("read_root") + 1
                                 ELSE ReadsOf("read_root")
      /\ ReadsOf("read_group")' = IF v.action = "read_group" THEN ReadsOf("read_group") + 1
                                  ELSE ReadsOf("read_group")
      /\ Cardinality(Mismatches(epoch))' = attempt - 1
      /\ Originals(epoch)' = Originals(epoch) /\ Doing(epoch, {"release"})' = {}
  BY <1>2, LogThen
<1>4. /\ ReadsOf("read_root") = fault.attempted_barrier.root_reads + metrics.root_reads
      /\ ReadsOf("read_group") = fault.attempted_barrier.group_reads + metrics.group_reads
      /\ Originals(epoch) = {x \in Tiles \X Blocks : TRUE}
  BY <1>2 DEF LogInv
<1>5. fault.attempted_barrier.root_reads \in Nat /\ fault.attempted_barrier.group_reads \in Nat
  BY DEF FaultInv, MetricsRecord
<1>6. /\ ReadsOf("read_root")' = fault.attempted_barrier.root_reads + metrics'.root_reads
      /\ ReadsOf("read_group")' = fault.attempted_barrier.group_reads + metrics'.group_reads
  <2>1. \A a, m \in Nat : (a + m) + 1 = a + (m + 1)
    OBVIOUS
  <2>2. /\ (fault.attempted_barrier.root_reads + metrics.root_reads) + 1 = fault.attempted_barrier.root_reads + (metrics.root_reads + 1)
        /\ (fault.attempted_barrier.group_reads + metrics.group_reads) + 1 = fault.attempted_barrier.group_reads + (metrics.group_reads + 1)
    BY <1>5, <2>1
  <2>3. ReadsOf("read_root")' = fault.attempted_barrier.root_reads + metrics'.root_reads
    <3>1. CASE v.action = "read_root"
      BY <1>3, <1>4, <2>2, <3>1, Zenon
    <3>2. CASE v.action # "read_root"
      BY <1>3, <1>4, <3>2, Zenon
    <3>3. QED BY <3>1, <3>2
  <2>4. ReadsOf("read_group")' = fault.attempted_barrier.group_reads + metrics'.group_reads
    <3>1. CASE v.action = "read_group"
      BY <1>3, <1>4, <2>2, <3>1, Zenon
    <3>2. CASE v.action # "read_group"
      BY <1>3, <1>4, <3>2, Zenon
    <3>3. QED BY <3>1, <3>2
  <2>5. QED BY <2>3, <2>4
<1>7. Originals(epoch)' = {x \in Tiles' \X Blocks' : at'.op = "output" /\ attempt' = 1 => Over(x[1], x[2])'}
  BY <1>1, <1>2, <1>3, <1>4
<1>8. QED BY <1>3, <1>6, <1>7 DEF LogInv

\* How many certificates the two kinds of barrier have.
LEMMA Expected ==
  ASSUME cell \in Cells
  PROVE  /\ Nested => /\ Indices = 1 /\ Leaves = cell.devices /\ ExpectedRoot = GroupCount
                      /\ ExpectedGroup = cell.devices
         /\ ~Nested => ExpectedRoot = Leaves /\ ExpectedGroup = 0
         /\ Leaves \in Nat
<1>1. cell.devices \in Nat \ {0} /\ cell.blocks \in Nat \ {0} /\ cell.mode \in Mode
  BY CellFacts
<1>2. CASE Nested
  <2>1. cell.mode # "event" /\ cell.mode # "tile" /\ Indices = 1
    BY <1>2 DEF Nested, Indices
  <2>2. QED BY <1>1, <1>2, <2>1 DEF Leaves, ExpectedRoot, ExpectedGroup
<1>3. CASE ~Nested
  <2>1. CASE cell.mode = "event"
    BY <1>1, <1>3, <2>1 DEF Leaves, ExpectedRoot, ExpectedGroup, Indices
  <2>2. CASE cell.mode = "tile"
    BY <1>1, <1>3, <2>2 DEF Leaves, ExpectedRoot, ExpectedGroup, Indices
  <2>3. QED BY <1>1, <1>3, <2>1, <2>2 DEF Nested, Mode
<1>4. QED BY <1>2, <1>3

\* A record of counters by its fields, and what one certificate more makes of it.
Made(r, g, w, i, o, x) ==
  [root_reads |-> r, group_reads |-> g, certificate_writes |-> w, certificate_bytes_read |-> i,
   certificate_bytes_written |-> o, released |-> x]
Written(m, w, o) == [[m EXCEPT !.certificate_writes = w] EXCEPT !.certificate_bytes_written = o]
RootRead(m, r, i) == [[m EXCEPT !.root_reads = r] EXCEPT !.certificate_bytes_read = i]
GroupRead(m, g, i) == [[m EXCEPT !.group_reads = g] EXCEPT !.certificate_bytes_read = i]

LEMMA MadeIs ==
  ASSUME NEW r \in Nat, NEW g \in Nat, NEW w \in Nat, NEW i \in Nat, NEW o \in Nat, NEW x \in BOOLEAN
  PROVE  Made(r, g, w, i, o, x) \in MetricsRecord
  BY DEF Made, MetricsRecord

LEMMA IsMade ==
  ASSUME NEW m \in MetricsRecord
  PROVE  m = Made(m.root_reads, m.group_reads, m.certificate_writes, m.certificate_bytes_read,
                  m.certificate_bytes_written, m.released)
  BY DEF Made, MetricsRecord

LEMMA MadeFields ==
  ASSUME NEW r, NEW g, NEW w, NEW i, NEW o, NEW x
  PROVE  LET m == Made(r, g, w, i, o, x)
         IN  /\ m.root_reads = r /\ m.group_reads = g /\ m.certificate_writes = w
             /\ m.certificate_bytes_read = i /\ m.certificate_bytes_written = o
  BY DEF Made

LEMMA MadeThen ==
  ASSUME NEW r, NEW g, NEW w, NEW i, NEW o, NEW x, NEW y, NEW z
  PROVE  LET m == Made(r, g, w, i, o, x)
         IN  /\ Written(m, y, z) = Made(r, g, y, i, z, x)
             /\ RootRead(m, y, z) = Made(y, g, w, z, o, x)
             /\ GroupRead(m, y, z) = Made(r, y, w, z, o, x)
<1>1. [Made(r, g, w, i, o, x) EXCEPT !.certificate_writes = y] = Made(r, g, y, i, o, x)
  BY SMTT(30) DEF Made
<1>2. [Made(r, g, y, i, o, x) EXCEPT !.certificate_bytes_written = z] = Made(r, g, y, i, z, x)
  BY SMTT(30) DEF Made
<1>3. [Made(r, g, w, i, o, x) EXCEPT !.root_reads = y] = Made(y, g, w, i, o, x)
  BY SMTT(30) DEF Made
<1>4. [Made(y, g, w, i, o, x) EXCEPT !.certificate_bytes_read = z] = Made(y, g, w, z, o, x)
  BY SMTT(30) DEF Made
<1>5. [Made(r, g, w, i, o, x) EXCEPT !.group_reads = y] = Made(r, y, w, i, o, x)
  BY SMTT(30) DEF Made
<1>6. [Made(r, y, w, i, o, x) EXCEPT !.certificate_bytes_read = z] = Made(r, y, w, z, o, x)
  BY SMTT(30) DEF Made
<1>7. QED BY <1>1, <1>2, <1>3, <1>4, <1>5, <1>6, Zenon DEF Written, RootRead, GroupRead

LEMMA OneMore ==
  ASSUME NEW r, NEW g, NEW w, NEW i, NEW o, NEW x
  PROVE  LET m == Made(r, g, w, i, o, x)
         IN  /\ WriteCounted(m) = Made(r, g, w + 1, i, o + CertBytes, x)
             /\ ReadCounted(m, "read_root") = Made(r + 1, g, w, i + CertBytes, o, x)
             /\ ReadCounted(m, "read_group") = Made(r, g + 1, w, i + CertBytes, o, x)
<1>1. ASSUME NEW m
      PROVE  /\ WriteCounted(m) = Written(m, m.certificate_writes + 1,
                                          m.certificate_bytes_written + CertBytes)
             /\ ReadCounted(m, "read_root") = RootRead(m, m.root_reads + 1,
                                                       m.certificate_bytes_read + CertBytes)
             /\ ReadCounted(m, "read_group") = GroupRead(m, m.group_reads + 1,
                                                         m.certificate_bytes_read + CertBytes)
  BY Zenon DEF WriteCounted, ReadCounted, Written, RootRead, GroupRead
<1>2. PICK m : m = Made(r, g, w, i, o, x)
  OBVIOUS
<1>3. /\ m.root_reads = r /\ m.group_reads = g /\ m.certificate_writes = w
      /\ m.certificate_bytes_read = i /\ m.certificate_bytes_written = o
  BY <1>2, MadeFields
<1>4. WriteCounted(m) = Made(r, g, w + 1, i, o + CertBytes, x)
  <2>1. WriteCounted(m) = Written(m, w + 1, o + CertBytes)
    BY <1>1, <1>3
  <2>2. QED BY <1>2, <2>1, MadeThen
<1>5. ReadCounted(m, "read_root") = Made(r + 1, g, w, i + CertBytes, o, x)
  <2>1. ReadCounted(m, "read_root") = RootRead(m, r + 1, i + CertBytes)
    BY <1>1, <1>3
  <2>2. QED BY <1>2, <2>1, MadeThen
<1>6. ReadCounted(m, "read_group") = Made(r, g + 1, w, i + CertBytes, o, x)
  <2>1. ReadCounted(m, "read_group") = GroupRead(m, g + 1, i + CertBytes)
    BY <1>1, <1>3
  <2>2. QED BY <1>2, <2>1, MadeThen
<1>7. QED BY <1>2, <1>4, <1>5, <1>6

\* Counters, and one more.
LEMMA CountersFacts ==
  ASSUME NEW r \in Nat, NEW g \in Nat, NEW w \in Nat, NEW x
  PROVE  LET c == Counters(r, g, w, x)
         IN  /\ x \in BOOLEAN => c \in MetricsRecord
             /\ c.root_reads = r /\ c.group_reads = g
             /\ WriteCounted(c) = Counters(r, g, w + 1, x)
             /\ ReadCounted(c, "read_root") = Counters(r + 1, g, w, x)
             /\ ReadCounted(c, "read_group") = Counters(r, g + 1, w, x)
<1>1. PICK i \in Nat, o \in Nat : i = CertBytes * (r + g) /\ o = CertBytes * w
  BY DEF CertBytes
<1>2. /\ o + CertBytes = CertBytes * (w + 1)
      /\ i + CertBytes = CertBytes * ((r + 1) + g)
      /\ i + CertBytes = CertBytes * (r + (g + 1))
  BY <1>1 DEF CertBytes
<1>3. /\ Counters(r, g, w, x) = Made(r, g, w, i, o, x)
      /\ Counters(r, g, w + 1, x) = Made(r, g, w + 1, i, o + CertBytes, x)
      /\ Counters(r + 1, g, w, x) = Made(r + 1, g, w, i + CertBytes, o, x)
      /\ Counters(r, g + 1, w, x) = Made(r, g + 1, w, i + CertBytes, o, x)
  BY <1>1, <1>2, Zenon DEF Counters, Made
<1>4. x \in BOOLEAN => Made(r, g, w, i, o, x) \in MetricsRecord
  BY MadeIs
<1>5. QED BY <1>3, <1>4, OneMore, MadeFields

\* What reading one certificate counts.
LEMMA ReadCountedFacts ==
  ASSUME NEW m \in MetricsRecord, NEW role \in {"read_group", "read_root"}
  PROVE  LET c == ReadCounted(m, role)
         IN  /\ c \in MetricsRecord
             /\ c.root_reads = IF role = "read_root" THEN m.root_reads + 1 ELSE m.root_reads
             /\ c.group_reads = IF role = "read_group" THEN m.group_reads + 1 ELSE m.group_reads
<1>1. PICK r, g, w, i, o, x : /\ r = m.root_reads /\ g = m.group_reads /\ w = m.certificate_writes
                              /\ i = m.certificate_bytes_read /\ o = m.certificate_bytes_written
                              /\ x = m.released
  OBVIOUS
<1>2. r \in Nat /\ g \in Nat /\ w \in Nat /\ i \in Nat /\ o \in Nat /\ x \in BOOLEAN
  BY <1>1 DEF MetricsRecord
<1>3. m = Made(r, g, w, i, o, x)
  BY <1>1, IsMade
<1>4. r + 1 \in Nat /\ g + 1 \in Nat /\ i + CertBytes \in Nat
  BY <1>2 DEF CertBytes
<1>5. CASE role = "read_root"
  <2>1. PICK c : c = Made(r + 1, g, w, i + CertBytes, o, x)
    OBVIOUS
  <2>2. ReadCounted(m, role) = c
    BY <1>3, <1>5, <2>1, OneMore
  <2>3. c \in MetricsRecord /\ c.root_reads = r + 1 /\ c.group_reads = g
    <3>1. x \in BOOLEAN => Made(r + 1, g, w, i + CertBytes, o, x) \in MetricsRecord
      BY <1>2, <1>4, MadeIs
    <3>2. c \in MetricsRecord
      BY <1>2, <2>1, <3>1, Zenon
    <3>3. QED BY <2>1, <3>2, MadeFields
  <2>4. QED BY <1>1, <1>5, <2>2, <2>3
<1>6. CASE role = "read_group"
  <2>1. PICK c : c = Made(r, g + 1, w, i + CertBytes, o, x)
    OBVIOUS
  <2>2. ReadCounted(m, role) = c
    BY <1>3, <1>6, <2>1, OneMore
  <2>3. c \in MetricsRecord /\ c.root_reads = r /\ c.group_reads = g + 1
    <3>1. x \in BOOLEAN => Made(r, g + 1, w, i + CertBytes, o, x) \in MetricsRecord
      BY <1>2, <1>4, MadeIs
    <3>2. c \in MetricsRecord
      BY <1>2, <2>1, <3>1, Zenon
    <3>3. QED BY <2>1, <3>2, MadeFields
  <2>4. QED BY <1>1, <1>6, <2>2, <2>3
<1>7. QED BY <1>5, <1>6

LEMMA WriteCountedFacts ==
  ASSUME NEW m \in MetricsRecord
  PROVE  WriteCounted(m).root_reads = m.root_reads /\ WriteCounted(m).group_reads = m.group_reads
  BY DEF WriteCounted, MetricsRecord

LEMMA MetricsTyped ==
  ASSUME BspInv, CountInv, status = "running", InBarrier
  PROVE  /\ LeafReads \in Nat /\ ParentReads \in Nat /\ CertificateWrites \in Nat
         /\ RootReads \in Nat /\ GroupReads \in Nat
         /\ metrics = Counters(RootReads, GroupReads, CertificateWrites, at.op = "reduce")
         /\ metrics \in MetricsRecord /\ metrics.root_reads \in Nat /\ metrics.group_reads \in Nat
<1>1. /\ cell \in Cells /\ AtInv /\ Indices \in Nat \ {0} /\ Tiles = 0..Target /\ Target \in Nat /\ MetricsInv
      /\ cell.devices \in Nat \ {0}
  BY Counting
<1>2. /\ at.op \in {"put_leaf", "read_leaf"} => at.tile \in Nat /\ at.tile \in Tiles /\ at.index \in Nat
      /\ at.op \in {"put_parent", "read_parent"} => Nested /\ at.tile \in Groups
  BY <1>1, AtFacts
<1>3. \A x, y, z \in Nat : x * y + z \in Nat
  OBVIOUS
<1>4. at.op \in {"put_leaf", "read_leaf"} => at.tile * Indices + at.index \in Nat
  BY <1>1, <1>2, <1>3
<1>5. Leaves \in Nat /\ ExpectedRoot \in Nat /\ ExpectedGroup \in Nat /\ (Nested => GroupCount \in Nat)
  <2>1. ASSUME Nested PROVE GroupCount \in Nat
    <3>1. GroupOf(Target) \in Nat /\ GroupCount = GroupOf(Target) + 1
      BY <1>1, <2>1, GroupFacts
    <3>2. QED BY <3>1
  <2>2. QED BY <1>1, <2>1, Expected
<1>6. at.op \in {"put_parent", "read_parent"} => at.tile \in Nat /\ LastOf(at.tile) + 1 \in Nat
  <2>1. SUFFICES ASSUME at.op \in {"put_parent", "read_parent"} PROVE at.tile \in Nat /\ LastOf(at.tile) + 1 \in Nat
    OBVIOUS
  <2>2. at.tile \in Nat /\ LastOf(at.tile) \in Tiles
    BY <1>1, <1>2, <2>1, GroupFacts
  <2>3. QED BY <1>1, <2>2
<1>7. LeafReads \in Nat
  BY <1>4, <1>5, <1>6 DEF LeafReads
<1>8. ParentReads \in Nat
  <2>1. GroupCount \in Nat
    <3>1. CASE Nested
      BY <1>5, <3>1
    <3>2. CASE ~Nested
      <4>1. GroupOf(Target) = 0
        <5>1. cell.mode \in Mode /\ Target = cell.devices - 1
          BY <1>1, CellFacts DEF Target
        <5>2. GroupSize = cell.devices
          BY <3>2, <5>1 DEF GroupSize, Nested, Mode
        <5>3. \A n \in Nat \ {0} : (n - 1) \div n = 0
          OBVIOUS
        <5>4. QED BY <1>1, <5>1, <5>2, <5>3 DEF GroupOf
      <4>2. QED BY <4>1 DEF GroupCount
    <3>3. QED BY <3>1, <3>2
  <2>2. QED BY <1>6, <2>1 DEF ParentReads
<1>9. CertificateWrites \in Nat
  <2>1. at.op = "read_leaf" /\ Nested => GroupOf(at.tile) \in Nat
    BY <1>1, <1>2, GroupFacts
  <2>2. CASE at.op = "put_leaf"
    BY <1>4, <2>2 DEF CertificateWrites
  <2>3. CASE at.op = "read_leaf"
    BY <1>5, <2>1, <2>3 DEF CertificateWrites
  <2>4. CASE at.op = "put_parent"
    BY <1>5, <1>6, <2>4 DEF CertificateWrites
  <2>5. CASE at.op \notin {"put_leaf", "read_leaf", "put_parent"}
    BY <1>5, <2>5 DEF CertificateWrites
  <2>6. QED BY <2>2, <2>3, <2>4, <2>5
<1>10. metrics = Counters(RootReads, GroupReads, CertificateWrites, at.op = "reduce")
  BY <1>1 DEF MetricsInv
<1>11. PICK r \in BOOLEAN : r = (at.op = "reduce")
  OBVIOUS
<1>12. RootReads \in Nat /\ GroupReads \in Nat
  BY <1>7, <1>8 DEF RootReads, GroupReads
<1>13. metrics \in MetricsRecord
  <2>1. metrics = Counters(RootReads, GroupReads, CertificateWrites, r)
    BY <1>10, <1>11, Zenon
  <2>2. r \in BOOLEAN => Counters(RootReads, GroupReads, CertificateWrites, r) \in MetricsRecord
    BY <1>9, <1>12, CountersFacts
  <2>3. QED BY <2>1, <2>2, Zenon
<1>14. QED BY <1>7, <1>8, <1>9, <1>10, <1>12, <1>13 DEF MetricsRecord

\* One more certificate written, or read.
LEMMA MetricsWrite ==
  ASSUME BspInv, CountInv, status = "running", InBarrier, cell' = cell, at.op # "reduce", at'.op # "reduce",
         metrics' = WriteCounted(metrics),
         LeafReads' = LeafReads, ParentReads' = ParentReads, CertificateWrites' = CertificateWrites + 1
  PROVE  MetricsInv'
<1>1. RootReads \in Nat /\ GroupReads \in Nat /\ CertificateWrites \in Nat
  BY MetricsTyped
<1>a. metrics = Counters(RootReads, GroupReads, CertificateWrites, FALSE)
  BY MetricsTyped
<1>2. RootReads' = RootReads /\ GroupReads' = GroupReads
  BY SameCell DEF RootReads, GroupReads
<1>3. metrics' = Counters(RootReads, GroupReads, CertificateWrites + 1, FALSE)
  <2>1. PICK x : x = FALSE
    OBVIOUS
  <2>2. metrics = Counters(RootReads, GroupReads, CertificateWrites, x)
    BY <1>a, <2>1, Zenon
  <2>3. metrics' = Counters(RootReads, GroupReads, CertificateWrites + 1, x)
    BY <1>1, <2>2, CountersFacts
  <2>4. QED BY <2>1, <2>3, Zenon
<1>4. MetricsInv' = (InBarrier' => metrics' = Counters(RootReads', GroupReads', CertificateWrites', at'.op = "reduce"))
  BY DEF MetricsInv, Counters
<1>5. QED BY <1>2, <1>3, <1>4

LEMMA MetricsRead ==
  ASSUME BspInv, CountInv, status = "running", InBarrier, cell' = cell, at.op # "reduce", at'.op # "reduce",
         NEW role \in {"read_group", "read_root"},
         metrics' = ReadCounted(metrics, role),
         \/ Nested /\ role = "read_group" /\ LeafReads' = LeafReads + 1 /\ ParentReads' = ParentReads
         \/ Nested /\ role = "read_root" /\ LeafReads' = LeafReads /\ ParentReads' = ParentReads + 1
         \/ ~Nested /\ role = "read_root" /\ LeafReads' = LeafReads + 1,
         CertificateWrites' = CertificateWrites
  PROVE  MetricsInv'
<1>1. RootReads \in Nat /\ GroupReads \in Nat /\ CertificateWrites \in Nat
  BY MetricsTyped
<1>a. metrics = Counters(RootReads, GroupReads, CertificateWrites, FALSE)
  BY MetricsTyped
<1>2. Nested' = Nested
  BY SameCell
<1>3. metrics' = Counters(RootReads', GroupReads', CertificateWrites, FALSE)
  <2>a. PICK x : x = FALSE
    OBVIOUS
  <2>b. metrics = Counters(RootReads, GroupReads, CertificateWrites, x)
    BY <1>a, <2>a, Zenon
  <2>1. CASE role = "read_group"
    <3>1. RootReads' = RootReads /\ GroupReads' = GroupReads + 1
      BY <1>2, <2>1 DEF RootReads, GroupReads
    <3>2. metrics' = Counters(RootReads', GroupReads', CertificateWrites, x)
      BY <1>1, <2>b, <2>1, <3>1, CountersFacts
    <3>3. QED BY <2>a, <3>2, Zenon
  <2>2. CASE role = "read_root"
    <3>1. RootReads' = RootReads + 1 /\ GroupReads' = GroupReads
      BY <1>2, <2>2 DEF RootReads, GroupReads
    <3>2. metrics' = Counters(RootReads', GroupReads', CertificateWrites, x)
      BY <1>1, <2>b, <2>2, <3>1, CountersFacts
    <3>3. QED BY <2>a, <3>2, Zenon
  <2>3. QED BY <2>1, <2>2
<1>4. MetricsInv' = (InBarrier' => metrics' = Counters(RootReads', GroupReads', CertificateWrites', at'.op = "reduce"))
  BY DEF MetricsInv, Counters
<1>5. QED BY <1>3, <1>4

LEMMA PutLeafCounts ==
  ASSUME BspInv, CountInv, PutLeaf
  PROVE  CountInv'
<1>0. status = "running" /\ at.op = "put_leaf" /\ metrics' = WriteCounted(metrics)
      /\ cell' = cell /\ epoch' = epoch /\ attempt' = attempt /\ fault' = fault /\ steps' = steps
      /\ data_writes' = data_writes /\ at' = After /\ status' = status
      /\ events' = Append(events, Event("certificate_write", at.tile, at.index, 0, TRUE))
  BY DEF PutLeaf, Ready, stepVars, retryVars, Advance, Log
<1>1. /\ FaultInv /\ LogInv /\ WritesInv /\ cell \in Cells /\ epoch \in Nat /\ AtInv
      /\ events \in Seq(EventRecord) /\ cell.devices \in Nat \ {0} /\ Indices \in Nat \ {0}
      /\ Target = cell.devices - 1 /\ Tiles = 0..Target /\ Target \in Nat
  BY <1>0, Counting
<1>a. at.tile \in 0..Target /\ at.index \in 0..Indices - 1
  BY <1>0, <1>1, AtFacts
<1>2. PICK t \in 0..Target, i \in 0..Indices - 1 : at.tile = t /\ at.index = i
  BY <1>a
<1>3. at' = Loop(Target, Indices, Do("read_leaf", 0, 0))
  BY <1>0 DEF After
<1>4. \/ i + 1 < Indices /\ at' = Do("put_leaf", t, i + 1)
      \/ i + 1 = Indices /\ t < Target /\ at' = Do("put_leaf", t + 1, 0)
      \/ i + 1 = Indices /\ t = Target /\ at' = Do("read_leaf", 0, 0)
  <2>1. \/ at.index + 1 < Indices /\ at' = Do(at.op, at.tile, at.index + 1)
        \/ at.index + 1 = Indices /\ at.tile < Target /\ at' = Do(at.op, at.tile + 1, 0)
        \/ at.index + 1 = Indices /\ at.tile = Target /\ at' = Do("read_leaf", 0, 0)
    BY <1>1, <1>a, <1>3, Turn
  <2>2. QED BY <1>0, <1>2, <2>1
<1>5. at'.op \in {"put_leaf", "read_leaf"}
  BY <1>4, DoFields
<1>6. InBarrier /\ InBarrier' /\ Indices' = Indices /\ Leaves' = Leaves
  BY <1>0, <1>5, SameCell, SameExpected DEF InBarrier, Reading
<1>7. PICK D \in Int, I \in Int : D = cell.devices /\ I = Indices
  BY <1>1
<1>8. CertificateWrites = t * I + i /\ LeafReads = 0 /\ ParentReads = 0
  BY <1>0, <1>2, <1>7 DEF CertificateWrites, LeafReads, ParentReads
<1>9. t \in Int /\ i \in Int /\ Target + 1 = D
  BY <1>1, <1>7
<1>10. LeafReads' = LeafReads /\ ParentReads' = ParentReads /\ CertificateWrites' = CertificateWrites + 1
  <2>1. CASE at' = Do("put_leaf", t, i + 1)
    <3>1. at'.op = "put_leaf" /\ at'.tile = t /\ at'.index = i + 1
      BY <2>1, DoFields
    <3>2. (t * I + i) + 1 = t * I + (i + 1)
      BY <1>7, <1>9, Rows
    <3>3. CertificateWrites' = t * I + (i + 1) /\ LeafReads' = 0 /\ ParentReads' = 0
      BY <1>6, <1>7, <3>1 DEF CertificateWrites, LeafReads, ParentReads
    <3>4. QED BY <1>8, <3>2, <3>3, Zenon
  <2>2. CASE i + 1 = Indices /\ at' = Do("put_leaf", t + 1, 0)
    <3>1. at'.op = "put_leaf" /\ at'.tile = t + 1 /\ at'.index = 0
      BY <2>2, DoFields
    <3>2. (t * I + i) + 1 = (t + 1) * I + 0
      <4>1. i + 1 = I
        BY <1>7, <2>2
      <4>2. QED BY <1>7, <1>9, <4>1, Rows
    <3>3. CertificateWrites' = (t + 1) * I + 0 /\ LeafReads' = 0 /\ ParentReads' = 0
      BY <1>6, <1>7, <3>1 DEF CertificateWrites, LeafReads, ParentReads
    <3>4. QED BY <1>8, <3>2, <3>3, Zenon
  <2>3. CASE i + 1 = Indices /\ t = Target /\ at' = Do("read_leaf", 0, 0)
    <3>1. at'.op = "read_leaf" /\ at'.tile = 0 /\ at'.index = 0
      BY <2>3, DoFields
    <3>2. (t * I + i) + 1 = D * I
      <4>1. i + 1 = I /\ t + 1 = D
        BY <1>7, <1>9, <2>3
      <4>2. QED BY <1>7, <1>9, <4>1, Rows
    <3>3. (IF Nested THEN GroupOf(0) ELSE 0) = 0
      BY <1>1, GroupFacts
    <3>4. Nested' = Nested /\ GroupOf(0)' = GroupOf(0)
      BY <1>0, SameCell
    <3>5. CertificateWrites' = Leaves + 0
      <4>1. CertificateWrites' = Leaves' + (IF Nested' THEN GroupOf(0)' ELSE 0)
        BY <3>1 DEF CertificateWrites
      <4>2. QED BY <1>6, <3>3, <3>4, <4>1
    <3>6. Leaves + 0 = D * I
      BY <1>7 DEF Leaves
    <3>7. LeafReads' = 0 /\ ParentReads' = 0
      <4>1. LeafReads' = 0 * Indices' + 0 /\ ParentReads' = 0
        BY <3>1 DEF LeafReads, ParentReads
      <4>2. QED BY <1>1, <1>6, <4>1
    <3>8. QED BY <1>8, <3>2, <3>5, <3>6, <3>7, Zenon
  <2>4. QED BY <1>4, <2>1, <2>2, <2>3
<1>11. MetricsInv'
  <2>1. at.op # "reduce" /\ at'.op # "reduce"
    BY <1>0, <1>5
  <2>2. QED BY <1>0, <1>6, <1>10, <2>1, MetricsWrite
<1>12. FaultInv' /\ WritesInv'
  BY <1>0, <1>1, <1>5, FaultKept, WritesKept
<1>13. PICK v \in EventRecord : /\ v.epoch = epoch /\ v.action = "certificate_write" /\ v.ok = TRUE
                                /\ events' = Append(events, v)
  <2>1. t \in Nat /\ i \in Nat /\ "certificate_write" \in Action
    BY <1>1 DEF Action
  <2>2. Event("certificate_write", t, i, 0, TRUE) \in EventRecord
    BY <1>1, <2>1, RightEvent
  <2>3. QED BY <1>0, <1>2, <2>2 DEF Event
<1>14. metrics.root_reads \in Nat /\ metrics.group_reads \in Nat
  BY <1>0, <1>6, MetricsTyped
<1>15. metrics'.root_reads = metrics.root_reads /\ metrics'.group_reads = metrics.group_reads
  <2>1. metrics \in MetricsRecord
    BY <1>0, <1>6, MetricsTyped
  <2>2. QED BY <1>0, <2>1, WriteCountedFacts
<1>16. LogInv'
  BY <1>0, <1>1, <1>5, <1>6, <1>13, <1>14, <1>15, BarrierLog
<1>17. QED BY <1>0, <1>11, <1>12, <1>13, <1>16, CountStep

LEMMA PutParentCounts ==
  ASSUME BspInv, CountInv, PutParent
  PROVE  CountInv'
<1>0. status = "running" /\ at.op = "put_parent" /\ metrics' = WriteCounted(metrics)
      /\ cell' = cell /\ epoch' = epoch /\ attempt' = attempt /\ fault' = fault /\ steps' = steps
      /\ data_writes' = data_writes /\ at' = After /\ status' = status
      /\ events' = Append(events, Event("certificate_write", Representative(at.tile), 0, 0, TRUE))
  BY DEF PutParent, Ready, stepVars, retryVars, Advance, Log
<1>1. /\ FaultInv /\ LogInv /\ WritesInv /\ cell \in Cells /\ epoch \in Nat /\ AtInv
      /\ events \in Seq(EventRecord) /\ cell.devices \in Nat \ {0}
      /\ Target = cell.devices - 1 /\ Tiles = 0..Target /\ Target \in Nat
  BY <1>0, Counting
<1>2. Nested /\ at.tile \in Groups
  BY <1>0, <1>1, AtFacts
<1>3. PICK g \in Groups : at.tile = g
  BY <1>2
<1>4. /\ Indices = 1 /\ Leaves = cell.devices /\ ExpectedRoot = GroupCount /\ ExpectedGroup = cell.devices
  BY <1>1, <1>2, Expected
<1>5. /\ g \in Nat /\ LastOf(g) \in Tiles /\ GroupCount = GroupOf(Target) + 1 /\ GroupOf(Target) \in Nat
      /\ LastOf(g) < Target => /\ g + 1 \in Groups /\ FirstOf(g + 1) = LastOf(g) + 1
                               /\ GroupOf(FirstOf(g + 1)) = g + 1
      /\ ~(LastOf(g) < Target) => g = GroupOf(Target) /\ LastOf(g) = Target
  BY <1>1, <1>2, GroupFacts
<1>6. /\ Indices' = Indices /\ Leaves' = Leaves /\ Nested' = Nested /\ \A t : GroupOf(t)' = GroupOf(t)
      /\ ExpectedRoot' = ExpectedRoot /\ ExpectedGroup' = ExpectedGroup
  BY <1>0, SameCell, SameExpected
<1>7. CertificateWrites = cell.devices + g /\ LeafReads = LastOf(g) + 1 /\ ParentReads = 0
  BY <1>0, <1>3, <1>4 DEF CertificateWrites, LeafReads, ParentReads
<1>8. /\ at' = IF LastOf(g) < Target THEN Do("read_leaf", LastOf(g) + 1, 0) ELSE Do("read_parent", 0, 0)
      /\ at'.op \in {"read_leaf", "read_parent"}
  <2>1. at' = IF LastOf(g) < Target THEN Do("read_leaf", LastOf(g) + 1, 0) ELSE Do("read_parent", 0, 0)
    BY <1>0, <1>3 DEF After
  <2>2. QED BY <2>1, DoFields
<1>9. LeafReads' = LeafReads /\ ParentReads' = ParentReads /\ CertificateWrites' = CertificateWrites + 1
  <2>1. CASE LastOf(g) < Target
    <3>1. at'.op = "read_leaf" /\ at'.tile = LastOf(g) + 1 /\ at'.index = 0
      BY <1>8, <2>1, DoFields
    <3>2. GroupOf(LastOf(g) + 1) = g + 1
      BY <1>5, <2>1
    <3>3. CertificateWrites' = cell.devices + (g + 1)
      <4>1. CertificateWrites' = Leaves' + (IF Nested' THEN GroupOf(LastOf(g) + 1) ELSE 0)
        <5>1. \A t : GroupOf(t)' = GroupOf(t)
          BY <1>6
        <5>2. QED BY <3>1, <5>1 DEF CertificateWrites
      <4>2. QED BY <1>2, <1>4, <1>6, <3>2, <4>1
    <3>4. LeafReads' = (LastOf(g) + 1) * 1 + 0 /\ ParentReads' = 0
      BY <1>4, <1>6, <3>1 DEF LeafReads, ParentReads
    <3>5. LastOf(g) + 1 = (LastOf(g) + 1) * 1 + 0
      BY <1>1, <1>5
    <3>6. (cell.devices + g) + 1 = cell.devices + (g + 1)
      BY <1>1, <1>5
    <3>7. QED BY <1>7, <3>3, <3>4, <3>5, <3>6, Zenon
  <2>2. CASE ~(LastOf(g) < Target)
    <3>1. at'.op = "read_parent" /\ at'.tile = 0
      BY <1>8, <2>2, DoFields
    <3>2. CertificateWrites' = GroupCount + cell.devices /\ LeafReads' = cell.devices /\ ParentReads' = 0
      BY <1>4, <1>6, <3>1 DEF CertificateWrites, LeafReads, ParentReads
    <3>3. (cell.devices + g) + 1 = GroupCount + cell.devices /\ LastOf(g) + 1 = cell.devices
      BY <1>1, <1>5, <2>2
    <3>4. QED BY <1>7, <3>2, <3>3, Zenon
  <2>3. QED BY <2>1, <2>2
<1>10. InBarrier /\ InBarrier' /\ at.op # "reduce" /\ at'.op # "reduce" /\ at.op # "output" /\ at'.op # "output"
  BY <1>0, <1>8 DEF InBarrier, Reading
<1>11. MetricsInv'
  BY <1>0, <1>9, <1>10, MetricsWrite
<1>12. FaultInv' /\ WritesInv'
  BY <1>0, <1>1, <1>10, FaultKept, WritesKept
<1>13. PICK v \in EventRecord : /\ v.epoch = epoch /\ v.action = "certificate_write" /\ v.ok = TRUE
                                /\ events' = Append(events, v)
  <2>1. Representative(g) \in Nat /\ 0 \in Nat /\ "certificate_write" \in Action
    <3>1. Representative(g) \in Tiles
      BY <1>1, <1>2, Representatives
    <3>2. QED BY <1>1, <3>1 DEF Action
  <2>2. Event("certificate_write", Representative(g), 0, 0, TRUE) \in EventRecord
    BY <1>1, <2>1, RightEvent
  <2>3. QED BY <1>0, <1>3, <2>2 DEF Event
<1>14. metrics.root_reads \in Nat /\ metrics.group_reads \in Nat /\ metrics \in MetricsRecord
  BY <1>0, <1>10, MetricsTyped
<1>15. metrics'.root_reads = metrics.root_reads /\ metrics'.group_reads = metrics.group_reads
  BY <1>0, <1>14, WriteCountedFacts
<1>16. LogInv'
  BY <1>0, <1>1, <1>10, <1>13, <1>14, <1>15, BarrierLog
<1>17. QED BY <1>0, <1>11, <1>12, <1>13, <1>16, CountStep

LEMMA ReleaseCounts ==
  ASSUME BspInv, CountInv, Release
  PROVE  CountInv'
<1>0. status = "running" /\ at.op = "release" /\ metrics' = [metrics EXCEPT !.released = TRUE]
      /\ cell' = cell /\ epoch' = epoch /\ attempt' = attempt /\ fault' = fault /\ steps' = steps
      /\ data_writes' = data_writes
      /\ events' = Append(events, Event("release", epoch % cell.devices, 0, 0, TRUE))
      /\ (status' = "fail" \/ (at' = After /\ status' = "running"))
  BY DEF Release, Ready, stepVars, retryVars, Advance, Abort, Log
<1>1. /\ FaultInv /\ LogInv /\ WritesInv /\ cell \in Cells /\ epoch \in Nat
      /\ events \in Seq(EventRecord) /\ cell.devices \in Nat \ {0}
  BY <1>0, Counting
<1>2. PICK v \in EventRecord : /\ v.epoch = epoch /\ v.action = "release" /\ v.ok = TRUE
                               /\ events' = Append(events, v)
  <2>1. \A m \in Nat, n \in Nat \ {0} : m % n \in Nat
    OBVIOUS
  <2>2. epoch % cell.devices \in Nat /\ 0 \in Nat /\ "release" \in Action
    BY <1>1, <2>1 DEF Action
  <2>3. Event("release", epoch % cell.devices, 0, 0, TRUE) \in EventRecord
    BY <1>1, <2>2, RightEvent
  <2>4. QED BY <1>0, <2>3 DEF Event
<1>3. CASE status' = "fail"
  BY <1>0, <1>2, <1>3, FailCounts
<1>4. CASE at' = After /\ status' = "running"
  <2>1. at'.op = "reduce"
    BY <1>0, <1>4, DoFields DEF After
  <2>2. /\ InBarrier /\ InBarrier' /\ Tiles' = Tiles /\ Blocks' = Blocks /\ Nested' = Nested /\ Leaves' = Leaves
        /\ ExpectedRoot' = ExpectedRoot /\ ExpectedGroup' = ExpectedGroup /\ GroupCount' = GroupCount
    BY <1>0, <2>1, SameCell, SameExpected DEF InBarrier, Reading
  <2>3. LeafReads' = LeafReads /\ ParentReads' = ParentReads /\ CertificateWrites' = CertificateWrites
    BY <1>0, <2>1, <2>2 DEF LeafReads, ParentReads, CertificateWrites
  <2>4. metrics = Counters(RootReads, GroupReads, CertificateWrites, FALSE)
    BY <1>0, <2>2, MetricsTyped
  <2>a. /\ RootReads \in Nat /\ GroupReads \in Nat /\ CertificateWrites \in Nat
        /\ RootReads' = RootReads /\ GroupReads' = GroupReads
    BY <1>0, <2>2, <2>3, MetricsTyped DEF RootReads, GroupReads
  <2>5. metrics' = Counters(RootReads, GroupReads, CertificateWrites, TRUE)
    BY <1>0, <2>4, Zenon DEF Counters
  <2>6. MetricsInv'
    BY <2>1, <2>2, <2>3, <2>5, <2>a DEF MetricsInv, Counters
  <2>7. FaultInv' /\ WritesInv'
    BY <1>0, <1>1, <2>1, FaultKept, WritesKept
  <2>8. metrics'.root_reads = metrics.root_reads /\ metrics'.group_reads = metrics.group_reads
    <3>1. PICK x, y : metrics = Counters(RootReads, GroupReads, CertificateWrites, x)
                      /\ metrics' = Counters(RootReads, GroupReads, CertificateWrites, y)
      BY <2>4, <2>5, Zenon
    <3>2. QED BY <2>a, <3>1, CountersFacts
  <2>9. LogInv'
    <3>1. /\ Cardinality(Doing(epoch, Outputs))' = data_writes
          /\ ReadsOf("read_root")' = ReadsOf("read_root") /\ ReadsOf("read_group")' = ReadsOf("read_group")
          /\ Cardinality(Mismatches(epoch))' = attempt - 1 /\ Originals(epoch)' = Originals(epoch)
          /\ Doing(epoch, {"release"})' = {Len(events')}
      <4>1. v.action \notin Outputs /\ v.action # "read_root" /\ v.action # "read_group" /\ at.op # "reduce"
        BY <1>0, <1>2 DEF Outputs
      <4>2. QED BY <1>0, <1>1, <1>2, <4>1, LogThen
    <3>2. /\ ReadsOf("read_root") = fault.attempted_barrier.root_reads + metrics.root_reads
          /\ ReadsOf("read_group") = fault.attempted_barrier.group_reads + metrics.group_reads
          /\ Originals(epoch) = {x \in Tiles \X Blocks : TRUE}
      BY <1>0, <1>1, <2>2 DEF LogInv
    <3>3. Originals(epoch)' = {x \in Tiles' \X Blocks' : at'.op = "output" /\ attempt' = 1 => Over(x[1], x[2])'}
      BY <2>1, <2>2, <3>1, <3>2
    <3>4. QED BY <1>0, <2>1, <2>2, <2>8, <3>1, <3>2, <3>3 DEF LogInv
  <2>10. QED BY <1>0, <1>2, <1>4, <2>6, <2>7, <2>9, CountStep
<1>5. QED BY <1>0, <1>3, <1>4

\* A certificate that is not the expected one starts the retry: the log has its
\* first mismatch, and the reads of the barrier that raised are kept as the fault's.
LEMMA RetryCounts ==
  ASSUME BspInv, CountInv, status = "running", status' = "running", at.op \in {"read_leaf", "read_parent"},
         Injected # None, attempt' = 2, at' = Retry, fault'.attempted_barrier = metrics',
         cell' = cell, epoch' = epoch, steps' = steps, data_writes' = data_writes,
         NEW role \in {"read_group", "read_root"},
         metrics' = ReadCounted(metrics, role),
         NEW v \in EventRecord, v.epoch = epoch, v.action = role, v.ok = FALSE, events' = Append(events, v)
  PROVE  CountInv'
<1>1. /\ FaultInv /\ LogInv /\ WritesInv /\ cell \in Cells /\ epoch \in Nat /\ events \in Seq(EventRecord)
      /\ cell.devices \in Nat \ {0} /\ cell.blocks \in Nat \ {0} /\ RetryFrom \in Nat
  BY Counting
<1>2. attempt = 1 /\ epoch = 1 /\ cell.fault # None
  <2>1. attempt = 1 /\ epoch = 1
    BY <1>1, InjectedFacts
  <2>2. QED BY <2>1 DEF Injected
<1>3. at'.op = "output" /\ at'.tile = RetryFrom /\ at'.index = 0
  BY DoFields DEF Retry
<1>4. InBarrier /\ ~InBarrier'
  BY <1>3 DEF InBarrier, Reading
<1>5. metrics \in MetricsRecord /\ metrics.root_reads \in Nat /\ metrics.group_reads \in Nat
  BY <1>4, MetricsTyped
<1>6. MetricsInv'
  BY <1>4 DEF MetricsInv
<1>7. /\ metrics' \in MetricsRecord
      /\ metrics'.root_reads = IF role = "read_root" THEN metrics.root_reads + 1 ELSE metrics.root_reads
      /\ metrics'.group_reads = IF role = "read_group" THEN metrics.group_reads + 1 ELSE metrics.group_reads
  BY <1>5, ReadCountedFacts
<1>8. FaultInv'
  BY <1>2, <1>7 DEF FaultInv, MetricsRecord
<1>9. WritesInv'
  <2>1. All' = All /\ RetryFrom' = RetryFrom
    BY SameExpected, SameCell
  <2>2. data_writes = All
    BY <1>1, <1>2 DEF WritesInv, OutputWrites
  <2>3. OutputWrites' = All + (RetryFrom - RetryFrom) * cell.blocks + 0
    BY <1>3, <2>1 DEF OutputWrites
  <2>4. All \in Int
    BY <1>1 DEF All
  <2>5. \A a, r, b \in Int : a + (r - r) * b + 0 = a
    OBVIOUS
  <2>6. All + (RetryFrom - RetryFrom) * cell.blocks + 0 = All
    BY <1>1, <2>4, <2>5
  <2>7. QED BY <2>2, <2>3, <2>6 DEF WritesInv
<1>10. LogInv'
  <2>1. role \notin Outputs /\ role # "release" /\ at.op # "reduce" /\ at.op # "output" /\ at'.op # "reduce"
    BY <1>3 DEF Outputs
  <2>2. /\ Cardinality(Doing(epoch, Outputs))' = data_writes
        /\ ReadsOf("read_root")' = IF role = "read_root" THEN ReadsOf("read_root") + 1 ELSE ReadsOf("read_root")
        /\ ReadsOf("read_group")' = IF role = "read_group" THEN ReadsOf("read_group") + 1 ELSE ReadsOf("read_group")
        /\ Cardinality(Mismatches(epoch))' = attempt - 1 + 1
        /\ Originals(epoch)' = Originals(epoch) /\ Doing(epoch, {"release"})' = {}
    BY <1>1, <2>1, LogThen
  <2>3. fault.attempted_barrier.root_reads = 0 /\ fault.attempted_barrier.group_reads = 0
    BY <1>1, <1>2 DEF FaultInv, NoFault, NoMetrics
  <2>4. ReadsOf("read_root") = metrics.root_reads /\ ReadsOf("read_group") = metrics.group_reads
    <3>1. /\ ReadsOf("read_root") = fault.attempted_barrier.root_reads + metrics.root_reads
          /\ ReadsOf("read_group") = fault.attempted_barrier.group_reads + metrics.group_reads
      BY <1>1, <1>4 DEF LogInv
    <3>2. QED BY <1>5, <2>3, <3>1
  <2>5. ReadsOf("read_root")' = metrics'.root_reads /\ ReadsOf("read_group")' = metrics'.group_reads
    BY <1>7, <2>2, <2>4
  <2>6. metrics'.root_reads \in Nat /\ metrics'.group_reads \in Nat
    BY <1>7 DEF MetricsRecord
  <2>7. /\ ReadsOf("read_root")' = fault'.attempted_barrier.root_reads + 0
        /\ ReadsOf("read_group")' = fault'.attempted_barrier.group_reads + 0
    BY <2>5, <2>6
  <2>8. Originals(epoch)' = {x \in Tiles' \X Blocks' : at'.op = "output" /\ attempt' = 1 => Over(x[1], x[2])'}
    <3>1. Tiles' = Tiles /\ Blocks' = Blocks
      BY SameCell
    <3>2. Originals(epoch) = {x \in Tiles \X Blocks : TRUE}
      BY <1>1, <2>1 DEF LogInv
    <3>3. QED BY <2>2, <3>1, <3>2
  <2>9. Cardinality(Mismatches(epoch))' = attempt' - 1
    BY <1>2, <2>2
  <2>10. QED BY <1>4, <2>1, <2>2, <2>7, <2>8, <2>9 DEF LogInv
<1>11. QED BY <1>6, <1>8, <1>9, <1>10, CountStep

\* An error of Barrier.get ends the cell, or is the injected fault and starts the retry.
LEMMA RecoverIs ==
  ASSUME status = "running", attempt \in {1, 2}, NEW tile, NEW name, NEW seen,
         Recover(tile, name, seen)
  PROVE  \/ status' = "fail"
         \/ /\ status' = "running" /\ attempt = 1 /\ attempt' = 2 /\ name = Injected /\ tile = Target
            /\ fault'.fault = name /\ fault'.tile = tile /\ fault'.epoch = epoch
            /\ ~fault'.replay_barrier_released /\ fault'.attempted_barrier = metrics'
            /\ fault'.completion_only_would_release =
                 (Cardinality(Received(Tiles)) = cell.devices * cell.blocks)
            /\ retry_tiles' = RetryFrom..Target /\ at' = Retry
<1> DEFINE complete == Cardinality(Received(Tiles)) = cell.devices * cell.blocks
<1>1. \/ status' = "fail"
      \/ /\ status' = "running" /\ attempt = 1 /\ attempt' = 2 /\ name = Injected /\ tile = Target
         /\ fault' = [fault |-> name, tile |-> tile, epoch |-> epoch,
                      completion_only_would_release |-> complete,
                      replay_barrier_released |-> FALSE, attempted_barrier |-> metrics']
         /\ retry_tiles' = RetryFrom..Target /\ at' = Retry
  BY DEF Recover, Abort
<1>2. PICK all \in BOOLEAN : all = complete
  OBVIOUS
<1> HIDE DEF complete
<1>3. CASE status' = "fail"
  BY <1>3
<1>4. CASE /\ status' = "running" /\ attempt = 1 /\ attempt' = 2 /\ name = Injected /\ tile = Target
           /\ fault' = [fault |-> name, tile |-> tile, epoch |-> epoch,
                        completion_only_would_release |-> complete,
                        replay_barrier_released |-> FALSE, attempted_barrier |-> metrics']
           /\ retry_tiles' = RetryFrom..Target /\ at' = Retry
  <2>1. /\ fault'.fault = name /\ fault'.tile = tile /\ fault'.epoch = epoch
        /\ fault'.attempted_barrier = metrics'
    BY <1>4
  <2>2. ~fault'.replay_barrier_released
    BY <1>4
  <2>3. fault'.completion_only_would_release = complete
    BY <1>4
  <2>4. QED BY <1>4, <2>1, <2>2, <2>3, Zenon DEF complete
<1>5. QED BY <1>1, <1>3, <1>4, Zenon

\* Barrier.get: a read that is not accepted keeps the counts; one that is goes on.
LEMMA GetCounts ==
  ASSUME BspInv, CountInv, status = "running", at.op \in {"read_leaf", "read_parent"},
         NEW stored, NEW expected, IsCert(stored), IsCert(expected),
         NEW role \in {"read_group", "read_root"}, NEW owner \in Nat,
         Get(stored, expected, role, owner)
  PROVE  \/ CountInv'
         \/ /\ cell' = cell /\ epoch' = epoch /\ attempt' = attempt /\ fault' = fault /\ steps' = steps
            /\ data_writes' = data_writes /\ at' = After /\ status' = "running"
            /\ metrics' = ReadCounted(metrics, role)
            /\ \E v \in EventRecord : /\ v.epoch = epoch /\ v.action = role /\ v.ok = TRUE
                                      /\ events' = Append(events, v)
<1>1. epoch \in Nat /\ attempt \in {1, 2}
  BY Running
<1> DEFINE counted == ReadCounted(metrics, role)
<1> DEFINE Answer(actual, seen) ==
             LET name == check_certificate(actual, expected)
             IN  /\ metrics' = counted
                 /\ Log(Event(role, owner, 0, 0, actual = expected))
                 /\ IF name = None THEN Advance /\ UNCHANGED retryVars ELSE Recover(owner, name, seen)
                 /\ UNCHANGED <<cell, epoch, seed, initial, preserved, steps, values, data_writes,
                                deviceVars>>
<1>a. PICK actual \in ReadCert(stored) : \E seen : Answer(actual, seen)
  BY DEF Get
<1>2. PICK seen : Answer(actual, seen)
  BY <1>a
<1> DEFINE name == check_certificate(actual, expected)
<1>3. cell' = cell /\ epoch' = epoch /\ steps' = steps /\ data_writes' = data_writes /\ metrics' = counted
  BY <1>2
<1>4. PICK v \in EventRecord : /\ v.epoch = epoch /\ v.action = role /\ v.ok = (actual = expected)
                               /\ events' = Append(events, v)
  <2>1. PICK ok \in BOOLEAN : ok = (actual = expected)
    OBVIOUS
  <2>2. role \in Action /\ 0 \in Nat
    BY DEF Action
  <2>3. Event(role, owner, 0, 0, ok) \in EventRecord /\ Event(role, owner, 0, 0, ok).epoch = epoch
        /\ Event(role, owner, 0, 0, ok).action = role
    BY <1>1, <2>2, EventIs
  <2>4. Event(role, owner, 0, 0, ok).ok = ok
    BY DEF Event
  <2>5. events' = Append(events, Event(role, owner, 0, 0, ok))
    BY <1>2, <2>1 DEF Log
  <2>6. QED BY <2>1, <2>3, <2>4, <2>5
<1>5. CASE name = None
  <2>1. IsCert(actual)
    BY ReadIs
  <2>2. actual = expected
    BY <1>5, <2>1, AcceptedIsExpected
  <2>3. at' = After /\ status' = status /\ attempt' = attempt /\ fault' = fault
    BY <1>2, <1>5 DEF Advance, retryVars
  <2>4. v.ok = TRUE
    BY <1>4, <2>2, Zenon
  <2>5. QED BY <1>3, <1>4, <2>3, <2>4
<1>6. CASE name # None
  <2>1. Recover(owner, name, seen)
    BY <1>2, <1>6
  <2>2. actual # expected
    BY <1>6, ExpectedIsAccepted
  <2>3. v.ok = FALSE
    BY <1>4, <2>2, Zenon
  <2>4. \E e \in EventRecord : e.epoch = epoch /\ events' = Append(events, e)
    BY <1>4
  <2>5. \/ status' = "fail"
        \/ status' = "running" /\ attempt' = 2 /\ at' = Retry /\ fault'.attempted_barrier = metrics' /\ name = Injected
    <3> HIDE DEF name, counted
    <3>1. QED BY <1>1, <2>1, RecoverIs
  <2> HIDE DEF name, counted
  <2>6. CASE status' = "fail"
    BY <1>3, <2>4, <2>6, FailCounts
  <2>7. CASE status' = "running" /\ attempt' = 2 /\ at' = Retry /\ fault'.attempted_barrier = metrics' /\ name = Injected
    <3>1. Injected # None /\ fault'.attempted_barrier = metrics'
      BY <1>3, <1>6, <2>7
    <3>2. metrics' = ReadCounted(metrics, role)
      BY <1>3 DEF counted
    <3>3. CountInv'
      BY <1>3, <1>4, <2>3, <2>7, <3>1, <3>2, RetryCounts
    <3>4. QED BY <3>3
  <2>8. QED BY <2>5, <2>6, <2>7
<1>7. QED BY <1>5, <1>6

\* An accepted read, from what it has to show.
LEMMA ReadCounts ==
  ASSUME BspInv, CountInv, status = "running", status' = "running", at.op \in {"read_leaf", "read_parent"},
         at'.op \in {"read_leaf", "put_parent", "read_parent", "release"},
         cell' = cell, epoch' = epoch, attempt' = attempt, fault' = fault, steps' = steps,
         data_writes' = data_writes,
         NEW role \in {"read_group", "read_root"},
         metrics' = ReadCounted(metrics, role),
         \E v \in EventRecord : v.epoch = epoch /\ v.action = role /\ v.ok = TRUE /\ events' = Append(events, v),
         \/ Nested /\ role = "read_group" /\ LeafReads' = LeafReads + 1 /\ ParentReads' = ParentReads
         \/ Nested /\ role = "read_root" /\ LeafReads' = LeafReads /\ ParentReads' = ParentReads + 1
         \/ ~Nested /\ role = "read_root" /\ LeafReads' = LeafReads + 1,
         CertificateWrites' = CertificateWrites
  PROVE  CountInv'
<1>1. InBarrier /\ InBarrier' /\ at.op # "reduce" /\ at'.op # "reduce" /\ at.op # "output" /\ at'.op # "output"
  BY DEF InBarrier, Reading
<1>2. FaultInv /\ LogInv /\ WritesInv /\ events \in Seq(EventRecord)
  BY Counting
<1>3. MetricsInv'
  BY <1>1, MetricsRead
<1>4. FaultInv' /\ WritesInv'
  BY <1>1, <1>2, FaultKept, WritesKept
<1>5. metrics.root_reads \in Nat /\ metrics.group_reads \in Nat /\ metrics \in MetricsRecord
  BY <1>1, MetricsTyped
<1>6. PICK v \in EventRecord : v.epoch = epoch /\ v.action = role /\ v.ok = TRUE /\ events' = Append(events, v)
  OBVIOUS
<1>7. /\ metrics'.root_reads = IF v.action = "read_root" THEN metrics.root_reads + 1 ELSE metrics.root_reads
      /\ metrics'.group_reads = IF v.action = "read_group" THEN metrics.group_reads + 1 ELSE metrics.group_reads
  BY <1>5, <1>6, ReadCountedFacts
<1>8. v.action \in {"certificate_write", "read_root", "read_group"}
  BY <1>6
<1>9. LogInv'
  BY <1>1, <1>2, <1>5, <1>6, <1>7, <1>8, BarrierLog
<1>10. QED BY <1>3, <1>4, <1>6, <1>9, CountStep

LEMMA ReadParentCounts ==
  ASSUME BspInv, CountInv, ReadParent
  PROVE  CountInv'
<1> DEFINE g == at.tile
           r == Representative(g)
           cert == ParentCert(g, Children(g))
<1>0. status = "running" /\ at.op = "read_parent" /\ Get(group[r], cert, "read_root", r)
  BY DEF ReadParent, Ready
<1>1. cell \in Cells /\ epoch \in Nat /\ AtInv /\ ParentInv
  BY <1>0, Running
<1>2. Nested /\ g \in Groups /\ at.index = 0
  BY <1>0, <1>1, AtFacts
<1>3. group[r] = cert
  BY <1>0, <1>1, <1>2 DEF ParentInv, Grouped, Reading
<1>4. IsCert(cert) /\ r \in Nat
  BY <1>1, <1>2, ParentIs, Representatives, CellFacts
<1> HIDE DEF r, cert
<1>5. SUFFICES ASSUME cell' = cell, epoch' = epoch, attempt' = attempt, fault' = fault, steps' = steps,
                      data_writes' = data_writes, at' = After, status' = "running",
                      metrics' = ReadCounted(metrics, "read_root"),
                      \E v \in EventRecord : /\ v.epoch = epoch /\ v.action = "read_root" /\ v.ok = TRUE
                                             /\ events' = Append(events, v)
               PROVE  CountInv'
  <2>1. at.op \in {"read_leaf", "read_parent"} /\ "read_root" \in {"read_group", "read_root"} /\ IsCert(group[r])
    BY <1>0, <1>3, <1>4
  <2>2. \/ CountInv'
        \/ /\ cell' = cell /\ epoch' = epoch /\ attempt' = attempt /\ fault' = fault /\ steps' = steps
           /\ data_writes' = data_writes /\ at' = After /\ status' = "running"
           /\ metrics' = ReadCounted(metrics, "read_root")
           /\ \E v \in EventRecord : /\ v.epoch = epoch /\ v.action = "read_root" /\ v.ok = TRUE
                                     /\ events' = Append(events, v)
    BY <1>0, <1>4, <2>1, GetCounts
  <2>3. QED BY <2>2
<1>6. Groups = 0..GroupOf(Target) /\ GroupOf(Target) \in Nat /\ GroupCount - 1 = GroupOf(Target)
  BY <1>1, <1>2, GroupFacts
<1>7. at.tile \in 0..GroupCount - 1 /\ at.index \in 0..1 - 1 /\ GroupCount - 1 \in Nat
  BY <1>2, <1>6
<1>8. \/ at' = Do("read_parent", g + 1, 0)
      \/ g = GroupCount - 1 /\ at' = Do("release", 0, 0)
  <2>1. at' = Loop(GroupCount - 1, 1, Do("release", 0, 0))
    BY <1>0, <1>5 DEF After
  <2>2. \/ at.index + 1 < 1 /\ at' = Do(at.op, at.tile, at.index + 1)
        \/ at.index + 1 = 1 /\ at.tile < GroupCount - 1 /\ at' = Do(at.op, at.tile + 1, 0)
        \/ at.index + 1 = 1 /\ at.tile = GroupCount - 1 /\ at' = Do("release", 0, 0)
    BY <1>7, <2>1, Turn
  <2>3. QED BY <1>0, <1>2, <2>2
<1>9. /\ Leaves' = Leaves /\ ExpectedRoot' = ExpectedRoot /\ ExpectedGroup' = ExpectedGroup
      /\ GroupCount' = GroupCount
  BY <1>5, SameExpected
<1>10. LeafReads = Leaves /\ ParentReads = g /\ CertificateWrites = ExpectedRoot + ExpectedGroup
  BY <1>0 DEF LeafReads, ParentReads, CertificateWrites
<1>11. /\ at'.op \in {"read_parent", "release"}
       /\ at'.op = "read_parent" => at'.tile = g + 1
       /\ at'.op = "release" => g = GroupCount - 1
  BY <1>8, DoFields
<1>12. LeafReads' = LeafReads /\ CertificateWrites' = CertificateWrites
  <2>1. at'.op \notin {"put_leaf", "read_leaf", "put_parent"}
    BY <1>11
  <2>2. QED BY <1>9, <1>10, <2>1 DEF LeafReads, CertificateWrites
<1>13. ParentReads' = ParentReads + 1
  <2>1. CASE at'.op = "read_parent"
    BY <1>10, <1>11, <2>1 DEF ParentReads
  <2>2. CASE at'.op = "release"
    <3>1. ParentReads' = GroupCount
      BY <1>9, <2>2 DEF ParentReads
    <3>2. g + 1 = GroupCount
      BY <1>6, <1>7, <1>11, <2>2 DEF GroupCount
    <3>3. QED BY <1>10, <3>1, <3>2
  <2>3. QED BY <1>11, <2>1, <2>2
<1>14. /\ at.op \in {"read_leaf", "read_parent"} /\ "read_root" \in {"read_group", "read_root"}
       /\ at'.op \in {"read_leaf", "put_parent", "read_parent", "release"}
       /\ metrics' = ReadCounted(metrics, "read_root")
  BY <1>0, <1>5, <1>11
<1> HIDE DEF g
<1>15. QED BY <1>0, <1>2, <1>5, <1>12, <1>13, <1>14, ReadCounts

LEMMA ReadLeafCounts ==
  ASSUME BspInv, CountInv, ReadLeaf
  PROVE  CountInv'
<1> DEFINE role == IF Nested THEN "read_group" ELSE "read_root"
<1>0. status = "running" /\ at.op = "read_leaf" /\ cell \in Cells /\ epoch \in Nat /\ AtInv /\ LeafInv
  BY Running DEF ReadLeaf, Ready
<1>1. at.tile \in Tiles /\ at.index \in 0..Indices - 1
  BY <1>0, AtFacts
<1>2. PICK t \in Tiles, i \in 0..Indices - 1 : at.tile = t /\ at.index = i
  BY <1>1
<1>3. Get(leaf[t][i], LeafCert(t, i), role, t)
  BY <1>2 DEF ReadLeaf
<1>4. IsCert(leaf[t][i]) /\ IsCert(LeafCert(t, i))
  <2>1. leaf[t][i] = Published(t, i)
    BY <1>0 DEF LeafInv, Reading
  <2>2. QED BY <1>0, <2>1, PublishedFacts, LeafIs
<1>5. /\ cell.devices \in Nat \ {0} /\ Target = cell.devices - 1 /\ Tiles = 0..Target /\ Target \in Nat
      /\ t \in Nat /\ Indices \in Nat \ {0}
  BY <1>0, Counting
<1>6. role \in {"read_group", "read_root"}
  OBVIOUS
<1>7. /\ Nested => role = "read_group"
      /\ ~Nested => role = "read_root"
  OBVIOUS
<1> HIDE DEF role
<1>8. SUFFICES ASSUME cell' = cell, epoch' = epoch, attempt' = attempt, fault' = fault, steps' = steps,
                      data_writes' = data_writes, at' = After, status' = "running",
                      metrics' = ReadCounted(metrics, role),
                      \E v \in EventRecord : /\ v.epoch = epoch /\ v.action = role /\ v.ok = TRUE
                                             /\ events' = Append(events, v)
               PROVE  CountInv'
  <2>1. at.op \in {"read_leaf", "read_parent"}
    BY <1>0
  <2>2. QED BY <1>0, <1>3, <1>4, <1>5, <1>6, <2>1, GetCounts
<1>9. at' = IF Nested /\ t = LastOf(GroupOf(t)) THEN Do("put_parent", GroupOf(t), 0)
            ELSE Loop(Target, Indices, Do("release", 0, 0))
  BY <1>0, <1>2, <1>8 DEF After
<1>10. LET next == Loop(Target, Indices, Do("release", 0, 0))
       IN  \/ i + 1 < Indices /\ next = Do("read_leaf", t, i + 1)
           \/ i + 1 = Indices /\ t < Target /\ next = Do("read_leaf", t + 1, 0)
           \/ i + 1 = Indices /\ t = Target /\ next = Do("release", 0, 0)
  <2>1. at.tile \in 0..Target /\ at.index \in 0..Indices - 1
    BY <1>1, <1>5
  <2>2. QED BY <1>0, <1>2, <1>5, <2>1, Turn
<1>11. /\ Indices' = Indices /\ Nested' = Nested /\ Leaves' = Leaves /\ ExpectedRoot' = ExpectedRoot
       /\ ExpectedGroup' = ExpectedGroup
  BY <1>8, SameCell, SameExpected
<1>12. \A x : GroupOf(x)' = GroupOf(x) /\ LastOf(x)' = LastOf(x)
  BY <1>8, SameCell
<1>13. LeafReads = t * Indices + i /\ ParentReads = 0
  BY <1>0, <1>2 DEF LeafReads, ParentReads
<1>14. ASSUME Nested
       PROVE  /\ at'.op \in {"read_leaf", "put_parent"} /\ LeafReads' = LeafReads + 1
              /\ ParentReads' = ParentReads /\ CertificateWrites' = CertificateWrites
  <2>1. Indices = 1 /\ i = 0 /\ Leaves = cell.devices
    <3>1. Indices = 1 /\ Leaves = cell.devices
      BY <1>0, <1>14, Expected
    <3>2. QED BY <3>1
  <2>2. LeafReads = t
    BY <1>5, <1>13, <2>1
  <2>3. CertificateWrites = cell.devices + GroupOf(t)
    BY <1>0, <1>2, <1>14, <2>1 DEF CertificateWrites
  <2>4. t # LastOf(GroupOf(t)) => t < Target /\ GroupOf(t + 1) = GroupOf(t)
    BY <1>0, <1>14, GroupFacts
  <2>5. CASE t = LastOf(GroupOf(t))
    <3>1. at'.op = "put_parent" /\ at'.tile = GroupOf(t)
      BY <1>9, <1>14, <2>5, DoFields
    <3>2. LeafReads' = LastOf(GroupOf(t)) + 1
      <4>1. LeafReads' = LastOf(at.tile)' + 1
        BY <3>1 DEF LeafReads
      <4>2. LastOf(at.tile)' = LastOf(GroupOf(t))
        <5>1. LastOf(at.tile)' = IF at'.tile = GroupOf(Target)' THEN Target' ELSE FirstOf(at.tile)' + GroupSize' - 1
          BY DEF LastOf
        <5>2. GroupSize' = GroupSize /\ Target' = Target /\ GroupOf(Target)' = GroupOf(Target)
          BY <1>8 DEF GroupSize, Target, GroupOf
        <5>3. FirstOf(at.tile)' = FirstOf(GroupOf(t))
          BY <3>1, <5>2 DEF FirstOf
        <5>4. QED BY <3>1, <5>1, <5>2, <5>3 DEF LastOf
      <4>3. QED BY <4>1, <4>2
    <3>3. CertificateWrites' = Leaves' + GroupOf(t) /\ ParentReads' = 0
      BY <3>1 DEF CertificateWrites, ParentReads
    <3>4. QED BY <1>11, <1>13, <2>1, <2>2, <2>3, <2>5, <3>1, <3>2, <3>3
  <2>6. CASE t # LastOf(GroupOf(t))
    <3>1. at' = Do("read_leaf", t + 1, 0)
      <4>1. t < Target /\ t # Target /\ ~(i + 1 < Indices)
        BY <1>5, <2>1, <2>4, <2>6
      <4>2. QED BY <1>9, <1>10, <2>6, <4>1
    <3>2. at'.op = "read_leaf" /\ at'.tile = t + 1 /\ at'.index = 0
      BY <3>1, DoFields
    <3>3. LeafReads' = t + 1
      <4>1. LeafReads' = (t + 1) * Indices' + 0
        BY <3>2 DEF LeafReads
      <4>2. QED BY <1>5, <1>11, <2>1, <4>1
    <3>4. CertificateWrites' = cell.devices + GroupOf(t) /\ ParentReads' = 0
      <4>1. CertificateWrites' = Leaves' + (IF Nested' THEN GroupOf(at.tile)' ELSE 0) /\ ParentReads' = 0
        BY <3>2 DEF CertificateWrites, ParentReads
      <4>2. GroupOf(at.tile)' = GroupOf(t + 1)
        <5>1. GroupSize' = GroupSize
          BY <1>8 DEF GroupSize
        <5>2. QED BY <3>2, <5>1 DEF GroupOf
      <4>3. QED BY <1>11, <1>14, <2>1, <2>4, <2>6, <4>1, <4>2
    <3>5. QED BY <1>13, <2>2, <2>3, <3>2, <3>3, <3>4
  <2>7. QED BY <2>5, <2>6
<1>15. ASSUME ~Nested
       PROVE  /\ at'.op \in {"read_leaf", "release"} /\ LeafReads' = LeafReads + 1
              /\ CertificateWrites' = CertificateWrites
  <2>1. ExpectedRoot = Leaves /\ ExpectedGroup = 0 /\ Leaves \in Nat
    BY <1>0, <1>15, Expected
  <2>2. CertificateWrites = Leaves
    <3>1. CertificateWrites = Leaves + 0
      BY <1>0, <1>15 DEF CertificateWrites
    <3>2. QED BY <2>1, <3>1
  <2>3. /\ at'.op = "read_leaf" => CertificateWrites' = Leaves
        /\ at'.op = "release" => CertificateWrites' = Leaves /\ LeafReads' = Leaves
        /\ at'.op = "read_leaf" => LeafReads' = at'.tile * Indices + at'.index
    <3>1. /\ at'.op = "read_leaf" => CertificateWrites' = Leaves + 0
          /\ at'.op = "release" => CertificateWrites' = Leaves + 0 /\ LeafReads' = Leaves
      BY <1>11, <1>15, <2>1 DEF CertificateWrites, LeafReads
    <3>2. at'.op = "read_leaf" => LeafReads' = at'.tile * Indices + at'.index
      BY <1>11 DEF LeafReads
    <3>3. QED BY <2>1, <3>1, <3>2
  <2>4. PICK D \in Int, I \in Int : D = cell.devices /\ I = Indices
    BY <1>5
  <2>5. t \in Int /\ i \in Int /\ Target + 1 = D
    BY <1>5, <2>4
  <2>6. CASE at' = Do("read_leaf", t, i + 1)
    <3>1. at'.op = "read_leaf" /\ at'.tile = t /\ at'.index = i + 1
      BY <2>6, DoFields
    <3>2. (t * I + i) + 1 = t * I + (i + 1)
      BY <2>4, <2>5, Rows
    <3>3. LeafReads' = LeafReads + 1
      BY <1>13, <2>3, <2>4, <3>1, <3>2, Zenon
    <3>4. QED BY <2>2, <2>3, <3>1, <3>3
  <2>7. CASE i + 1 = Indices /\ at' = Do("read_leaf", t + 1, 0)
    <3>1. at'.op = "read_leaf" /\ at'.tile = t + 1 /\ at'.index = 0
      BY <2>7, DoFields
    <3>2. (t * I + i) + 1 = (t + 1) * I + 0
      <4>1. i + 1 = I
        BY <2>4, <2>7
      <4>2. QED BY <2>4, <2>5, <4>1, Rows
    <3>3. LeafReads' = LeafReads + 1
      BY <1>13, <2>3, <2>4, <3>1, <3>2, Zenon
    <3>4. QED BY <2>2, <2>3, <3>1, <3>3
  <2>8. CASE i + 1 = Indices /\ t = Target /\ at' = Do("release", 0, 0)
    <3>1. at'.op = "release"
      BY <2>8, DoFields
    <3>2. (t * I + i) + 1 = D * I
      <4>1. i + 1 = I /\ t + 1 = D
        BY <2>4, <2>5, <2>8
      <4>2. QED BY <2>4, <2>5, <4>1, Rows
    <3>3. Leaves = D * I
      BY <2>4 DEF Leaves
    <3>4. LeafReads' = LeafReads + 1
      BY <1>13, <2>3, <2>4, <3>1, <3>2, <3>3, Zenon
    <3>5. QED BY <2>2, <2>3, <3>1, <3>4
  <2>9. QED BY <1>9, <1>10, <1>15, <2>6, <2>7, <2>8
<1>16. at.op \in {"read_leaf", "read_parent"} /\ at'.op \in {"read_leaf", "put_parent", "read_parent", "release"}
  BY <1>0, <1>14, <1>15
<1>17. QED BY <1>0, <1>6, <1>7, <1>8, <1>14, <1>15, <1>16, ReadCounts

LEMMA LargerSeq ==
  ASSUME NEW R, NEW T, R \subseteq T, NEW q \in Seq(R)
  PROVE  q \in Seq(T)
  OBVIOUS

\* The entry of a superstep in result["steps"].
Entry ==
  [epoch |-> epoch, initial_output_writes |-> initial, barrier |-> metrics, fault |-> fault,
   retry_tiles |-> retry_tiles, preserved_blocks_checked |-> preserved, output_sha256 |-> values,
   reduction |-> Reduce(values), retry_output_writes |-> data_writes - initial]

\* At the end of a superstep its counters and its log are what validate expects.
LEMMA StepIsValid ==
  ASSUME BspInv, CountInv, status = "running", at.op = "reduce",
         NEW S, S.epoch = epoch, S.barrier = metrics, S.fault = fault
  PROVE  ValidCounts(S) /\ data_writes = All + Retries(epoch) /\ All \in Nat /\ Retries(epoch) \in Int
<1>1. /\ WritesInv /\ FaultInv /\ LogInv /\ cell \in Cells /\ epoch \in Nat /\ attempt \in {1, 2}
      /\ events \in Seq(EventRecord) /\ cell.devices \in Nat \ {0} /\ cell.blocks \in Nat \ {0}
      /\ Target = cell.devices - 1 /\ Tiles = 0..Target /\ Blocks = 0..cell.blocks - 1 /\ Target \in Nat
      /\ RetryFrom \in Nat
  BY Counting
<1>2. InBarrier
  BY DEF InBarrier, Reading
<1>4. (cell.fault # None /\ epoch = 1) <=> attempt = 2
  <2>1. Injected = None
    BY Running DEF CaughtInv
  <2>2. QED BY <1>1, <2>1 DEF Injected, FaultInv
<1>5. metrics = Counters(ExpectedRoot, ExpectedGroup, ExpectedRoot + ExpectedGroup, TRUE)
  <2>1. metrics = Counters(RootReads, GroupReads, CertificateWrites, TRUE)
    BY <1>2, MetricsTyped
  <2>2. LeafReads = Leaves /\ ParentReads = GroupCount /\ CertificateWrites = ExpectedRoot + ExpectedGroup
    BY DEF LeafReads, ParentReads, CertificateWrites
  <2>3. RootReads = ExpectedRoot /\ GroupReads = ExpectedGroup
    BY <1>1, <2>2, Expected DEF RootReads, GroupReads
  <2>4. QED BY <2>1, <2>2, <2>3
<1>6. metrics \in MetricsRecord /\ ExpectedRoot \in Nat /\ ExpectedGroup \in Nat
      /\ fault.attempted_barrier.root_reads \in Nat /\ fault.attempted_barrier.group_reads \in Nat
  <2>1. metrics \in MetricsRecord /\ metrics.root_reads \in Nat /\ metrics.group_reads \in Nat
    BY <1>2, MetricsTyped
  <2>2. metrics.root_reads = ExpectedRoot /\ metrics.group_reads = ExpectedGroup
    BY <1>5 DEF Counters
  <2>3. QED BY <1>1, <2>1, <2>2 DEF FaultInv, MetricsRecord
<1> DEFINE retries == IF attempt = 2 THEN SizeOf(GroupOf(Target)) * cell.blocks ELSE 0
<1>7. All \in Nat /\ data_writes = All + retries /\ retries \in Int
  <2>1. All \in Nat
    <3>1. \A x, y \in Nat : x * y \in Nat
      OBVIOUS
    <3>2. QED BY <1>1, <3>1 DEF All
  <2>2. SizeOf(GroupOf(Target)) = cell.devices - RetryFrom
    <3>1. SizeOf(GroupOf(Target)) = Target - RetryFrom + 1
      BY DEF SizeOf, LastOf, RetryFrom
    <3>2. QED BY <1>1, <3>1
  <2>3. data_writes = IF attempt = 1 THEN All ELSE All + (cell.devices - RetryFrom) * cell.blocks
    BY <1>1 DEF WritesInv, OutputWrites
  <2>4. (cell.devices - RetryFrom) * cell.blocks \in Int
    <3>1. \A x, y, z \in Int : (x - y) * z \in Int
      OBVIOUS
    <3>2. QED BY <1>1, <3>1
  <2>5. CASE attempt = 1
    BY <2>1, <2>3, <2>5
  <2>6. CASE attempt = 2
    <3>1. attempt # 1
      BY <2>6
    <3>2. retries = (cell.devices - RetryFrom) * cell.blocks
      BY <2>2, <2>6
    <3>3. data_writes = All + (cell.devices - RetryFrom) * cell.blocks
      BY <2>3, <3>1
    <3> HIDE DEF retries
    <3>4. QED BY <2>1, <2>4, <3>2, <3>3
  <2>7. QED BY <1>1, <2>1, <2>5, <2>6
<1>8. retries = Retries(epoch)
  BY <1>4 DEF Retries
<1> HIDE DEF retries
<1>10. Cardinality(Doing(epoch, Outputs)) = cell.devices * cell.blocks + retries
  BY <1>1, <1>7 DEF LogInv, All
<1>11. cell.fault # None /\ epoch = 1 => Cardinality(Mismatches(epoch)) = 1
  BY <1>1, <1>4 DEF LogInv
<1>12. Cardinality(Originals(epoch)) = cell.devices * cell.blocks
  <2>1. Originals(epoch) = {x \in Tiles \X Blocks : TRUE}
    BY <1>1 DEF LogInv
  <2>2. Originals(epoch) = Tiles \X Blocks
    BY <2>1
  <2>3. IsFiniteSet(Tiles) /\ Cardinality(Tiles) = cell.devices
    <3>1. 0 \in Int /\ Target \in Int
      BY <1>1
    <3>2. IsFiniteSet(0..Target) /\ Cardinality(0..Target) = IF 0 > Target THEN 0 ELSE Target - 0 + 1
      BY <3>1, FS_Interval
    <3>3. QED BY <1>1, <3>2
  <2>4. IsFiniteSet(Blocks) /\ Cardinality(Blocks) = cell.blocks
    <3>1. cell.blocks - 1 \in Nat
      BY <1>1
    <3>2. IsFiniteSet(0..cell.blocks - 1)
          /\ Cardinality(0..cell.blocks - 1) = IF 0 > cell.blocks - 1 THEN 0 ELSE cell.blocks - 1 - 0 + 1
      BY <3>1, FS_Interval
    <3>3. QED BY <1>1, <3>1, <3>2
  <2>5. QED BY <2>2, <2>3, <2>4, FS_Product
<1>13. /\ Cardinality(Doing(epoch, {"read_root"})) = ExpectedRoot + fault.attempted_barrier.root_reads
       /\ Cardinality(Doing(epoch, {"read_group"})) = ExpectedGroup + fault.attempted_barrier.group_reads
  <2>1. /\ Cardinality(Doing(epoch, {"read_root"})) = fault.attempted_barrier.root_reads + metrics.root_reads
        /\ Cardinality(Doing(epoch, {"read_group"})) = fault.attempted_barrier.group_reads + metrics.group_reads
    BY <1>1, <1>2 DEF LogInv, ReadsOf
  <2>2. metrics.root_reads = ExpectedRoot /\ metrics.group_reads = ExpectedGroup
    BY <1>5 DEF Counters
  <2>3. QED BY <1>6, <2>1, <2>2
<1>14. Doing(epoch, {"release"}) = {Len(events)}
  BY <1>1 DEF LogInv
<1>15. Cardinality(Doing(epoch, {"release"})) = 1
  BY <1>14, FS_Singleton
<1>16. \A n \in Doing(epoch, {"release"}), m \in Entries(epoch) : m <= n
  <2>1. \A m \in Entries(epoch) : m \in 1..Len(events)
    BY <1>1 DEF Entries
  <2>2. QED BY <1>1, <1>14, <2>1
<1>17. metrics.root_reads = ExpectedRoot /\ metrics.group_reads = ExpectedGroup
  BY <1>5 DEF Counters
<1>18. ValidCounts(S)
  BY <1>5, <1>8, <1>10, <1>11, <1>12, <1>13, <1>15, <1>16, <1>17 DEF ValidCounts
<1>19. QED BY <1>7, <1>8, <1>18

\* The next superstep starts with nothing in its log.
LEMMA FreshCounts ==
  ASSUME BspInv, status = "running", cell' = cell, epoch' = epoch + 1, attempt' = 1, fault' = NoFault,
         data_writes' = 0, at' = FirstAttempt, events' = events
  PROVE  MetricsInv' /\ WritesInv' /\ FaultInv' /\ LogInv'
<1>1. cell \in Cells /\ epoch \in Nat /\ events \in Seq(EventRecord) /\ ReleaseInv
  BY Running
<1>2. at'.op = "output" /\ at'.tile = 0 /\ at'.index = 0
  BY DoFields DEF FirstAttempt
<1>3. ~InBarrier'
  BY <1>2 DEF InBarrier, Reading
<1>4. MetricsInv'
  BY <1>3 DEF MetricsInv
<1>5. FaultInv'
  BY DEF FaultInv, NoFault, NoMetrics, MetricsRecord
<1>6. WritesInv'
  <2>1. cell'.blocks \in Nat
    BY <1>1, CellFacts
  <2>2. OutputWrites' = 0 * cell'.blocks + 0
    BY <1>2 DEF OutputWrites
  <2>3. QED BY <2>1, <2>2 DEF WritesInv
<1>7. Entries(epoch)' = {}
  <2>1. ASSUME NEW n \in DOMAIN events PROVE events[n].epoch # epoch + 1
    <3>1. events[n] \in EventRecord /\ events[n].epoch <= epoch
      BY <1>1 DEF ReleaseInv
    <3>2. events[n].epoch \in Nat
      BY <3>1 DEF EventRecord
    <3>3. QED BY <1>1, <3>1, <3>2
  <2>2. QED BY <2>1 DEF Entries
<1>8. /\ Doing(epoch, Outputs)' = {} /\ Doing(epoch, {"read_root"})' = {} /\ Doing(epoch, {"read_group"})' = {}
      /\ Doing(epoch, {"release"})' = {} /\ Mismatches(epoch)' = {}
  BY <1>7 DEF Doing, Mismatches
<1>9. Originals(epoch)' = {}
  BY <1>8 DEF Originals
<1>10. Cardinality({}) = 0
  BY FS_EmptySet
<1>11. {x \in Tiles' \X Blocks' : at'.op = "output" /\ attempt' = 1 => Over(x[1], x[2])'} = {}
  <2>1. Tiles' \subseteq Nat /\ Blocks' \subseteq Nat
    BY <1>1, SameCell, CellFacts
  <2>2. \A t \in Tiles', b \in Blocks' : ~Over(t, b)'
    BY <1>2, <2>1 DEF Over
  <2>3. QED BY <1>2, <2>2
<1>12. LogInv'
  <2>1. /\ Cardinality(Doing(epoch, Outputs))' = data_writes' /\ ReadsOf("read_root")' = 0
        /\ ReadsOf("read_group")' = 0 /\ Cardinality(Mismatches(epoch))' = attempt' - 1
    BY <1>8, <1>10 DEF ReadsOf
  <2>2. fault'.attempted_barrier.root_reads + 0 = 0 /\ fault'.attempted_barrier.group_reads + 0 = 0
    BY DEF NoFault, NoMetrics
  <2>3. Originals(epoch)' = {x \in Tiles' \X Blocks' : at'.op = "output" /\ attempt' = 1 => Over(x[1], x[2])'}
    BY <1>9, <1>11
  <2>4. Doing(epoch, {"release"})' = {} /\ at'.op # "reduce"
    BY <1>2, <1>8
  <2>5. QED BY <1>3, <2>1, <2>2, <2>3, <2>4 DEF LogInv
<1>13. QED BY <1>4, <1>5, <1>6, <1>12

LEMMA ReduceStepCounts ==
  ASSUME BspInv, CountInv, ReduceStep
  PROVE  CountInv'
<1>0. status = "running" /\ at.op = "reduce" /\ cell' = cell /\ events' = events
  BY DEF ReduceStep, Ready
<1>1. /\ PastInv /\ cell \in Cells /\ epoch \in Nat
  BY <1>0, Counting
<1> DEFINE S == Entry
<1>2. \/ status' = "fail" /\ epoch' = epoch /\ steps' = steps
      \/ /\ steps' = Append(steps, S) /\ epoch' = epoch + 1 /\ attempt' = 1 /\ fault' = NoFault
         /\ data_writes' = 0
         /\ \/ epoch + 1 = Steps /\ status' = "pass"
            \/ at' = FirstAttempt /\ status' = "running"
  <2>1. CASE values # Outcome(serial_oracle[epoch], epoch) \/ Reduce(values) # serial_oracle[epoch + 1]
    BY <2>1 DEF ReduceStep, Abort, stepVars
  <2>2. CASE ~(values # Outcome(serial_oracle[epoch], epoch) \/ Reduce(values) # serial_oracle[epoch + 1])
    BY <1>0, <2>2 DEF ReduceStep, Entry
  <2>3. QED BY <2>1, <2>2
<1>3. CASE status' = "fail" /\ epoch' = epoch /\ steps' = steps
  BY <1>0, <1>3, FailCounts
<1>4. CASE /\ steps' = Append(steps, S) /\ epoch' = epoch + 1 /\ attempt' = 1 /\ fault' = NoFault
           /\ data_writes' = 0
           /\ \/ epoch + 1 = Steps /\ status' = "pass"
              \/ at' = FirstAttempt /\ status' = "running"
  <2>1. ValidCounts(S) /\ S.epoch = epoch
    <3>1. S.epoch = epoch /\ S.barrier = metrics /\ S.fault = fault
      BY DEF Entry
    <3>2. QED BY <1>0, <3>1, StepIsValid
  <2> HIDE DEF S
  <2>2. \A s : ValidCounts(s) => ValidCounts(s)'
    <3>1. TAKE s
    <3>2. QED BY <1>0, SameLog, ValidKept
  <2>3. PICK R : steps \in Seq(R) /\ Len(steps) = epoch
    BY <1>1 DEF PastInv
  <2>a. steps \in Seq(R \cup {S})
    BY <2>3, LargerSeq
  <2>4. steps' \in Seq(R \cup {S}) /\ Len(steps') = epoch' /\ DOMAIN steps' = 1..epoch + 1
    BY <1>4, <2>3, <2>a
  <2>5. ASSUME NEW n \in DOMAIN steps' PROVE steps'[n].epoch = n - 1 /\ ValidCounts(steps'[n])
    <3>1. CASE n \in 1..epoch
      <4>1. steps'[n] = steps[n] /\ n \in DOMAIN steps
        BY <1>4, <2>3, <3>1
      <4>2. QED BY <1>1, <4>1 DEF PastInv
    <3>2. CASE n = epoch + 1
      <4>1. steps'[n] = S
        BY <1>4, <2>3, <3>2
      <4>2. epoch = n - 1
        BY <1>1, <3>2
      <4>3. QED BY <2>1, <4>1, <4>2
    <3>3. n \in 1..epoch \/ n = epoch + 1
      BY <1>1, <2>4
    <3>4. QED BY <3>1, <3>2, <3>3
  <2>6. ASSUME NEW n \in DOMAIN steps' PROVE ValidCounts(steps[n])'
    <3>1. PICK s : s = steps'[n]
      OBVIOUS
    <3>2. ValidCounts(s)'
      BY <2>2, <2>5, <3>1
    <3>3. QED BY <3>1, <3>2
  <2>7. PastInv'
    BY <2>4, <2>5, <2>6 DEF PastInv
  <2>8. status' = "running" => MetricsInv' /\ WritesInv' /\ FaultInv' /\ LogInv'
    BY <1>0, <1>4, FreshCounts
  <2>9. QED BY <1>4, <2>7, <2>8 DEF CountInv
<1>5. QED BY <1>2, <1>3, <1>4

LEMMA UnchangedCounts ==
  ASSUME BspInv, CountInv, UNCHANGED vars
  PROVE  CountInv'
<1>1. /\ cell' = cell /\ status' = status /\ at' = at /\ epoch' = epoch /\ attempt' = attempt /\ fault' = fault
      /\ steps' = steps /\ metrics' = metrics /\ data_writes' = data_writes /\ events' = events
  BY DEF vars, stepVars, retryVars
<1>2. PastInv'
  <2>1. PastInv /\ epoch \in Nat /\ events \in Seq(EventRecord)
    BY BspAssumption DEF CountInv, BspInv, TypeInv
  <2>2. QED BY <1>1, <2>1, PastKept
<1>3. status' = "pass" => epoch' = Steps
  BY <1>1 DEF CountInv
<1>4. ASSUME status' = "running" PROVE MetricsInv' /\ WritesInv' /\ FaultInv' /\ LogInv'
  <2>1. MetricsInv /\ WritesInv /\ FaultInv /\ LogInv
    BY <1>1, <1>4 DEF CountInv
  <2>2. /\ Tiles' = Tiles /\ Blocks' = Blocks /\ Nested' = Nested /\ Indices' = Indices /\ RetryFrom' = RetryFrom
        /\ Leaves' = Leaves /\ All' = All /\ ExpectedRoot' = ExpectedRoot /\ ExpectedGroup' = ExpectedGroup
        /\ GroupCount' = GroupCount
    BY <1>1, SameCell, SameExpected
  <2>3. GroupOf(at.tile)' = GroupOf(at.tile) /\ LastOf(at.tile)' = LastOf(at.tile)
    BY <1>1 DEF GroupOf, LastOf, FirstOf, GroupSize, Target
  <2>4. InBarrier' = InBarrier /\ LeafReads' = LeafReads /\ ParentReads' = ParentReads
        /\ CertificateWrites' = CertificateWrites
    BY <1>1, <2>2, <2>3 DEF InBarrier, Reading, LeafReads, ParentReads, CertificateWrites
  <2>5. MetricsInv'
    BY <1>1, <2>1, <2>2, <2>4 DEF MetricsInv, Counters, RootReads, GroupReads
  <2>6. WritesInv'
    BY <1>1, <2>1, <2>2 DEF WritesInv, OutputWrites
  <2>7. FaultInv'
    BY <1>1, <2>1, FaultKept
  <2>8. LogInv'
    <3>1. /\ \A e : Mismatches(e)' = Mismatches(e) /\ Originals(e)' = Originals(e)
          /\ \A e, A : Doing(e, A)' = Doing(e, A)
      BY <1>1, SameLog
    <3>2. \A t, b : Over(t, b)' <=> Over(t, b)
      BY <1>1 DEF Over
    <3>3. QED BY <1>1, <2>1, <2>2, <2>4, <3>1, <3>2 DEF LogInv, ReadsOf, Outputs
  <2>9. QED BY <2>5, <2>6, <2>7, <2>8
<1>5. QED BY <1>2, <1>3, <1>4 DEF CountInv

LEMMA CountInit ==
  ASSUME Init
  PROVE  CountInv
<1>1. /\ cell \in Cells /\ status = "running" /\ epoch = 0 /\ attempt = 1 /\ fault = NoFault /\ steps = <<>>
      /\ data_writes = 0 /\ events = <<>> /\ at = Do("output", 0, 0)
  BY DEF Init, FirstAttempt
<1>2. at.op = "output" /\ at.tile = 0 /\ at.index = 0
  BY <1>1, DoFields
<1>3. PastInv
  <2>1. steps \in Seq({}) /\ Len(steps) = epoch /\ DOMAIN steps = {}
    BY <1>1
  <2>2. QED BY <2>1 DEF PastInv
<1>4. ~InBarrier
  BY <1>2 DEF InBarrier, Reading
<1>5. MetricsInv
  BY <1>4 DEF MetricsInv
<1>6. FaultInv
  BY <1>1 DEF FaultInv, NoFault, NoMetrics, MetricsRecord
<1>7. WritesInv
  <2>1. cell.blocks \in Nat
    BY <1>1, CellFacts
  <2>2. OutputWrites = 0 * cell.blocks + 0
    BY <1>1, <1>2 DEF OutputWrites
  <2>3. QED BY <1>1, <2>1, <2>2 DEF WritesInv
<1>8. LogInv
  <2>1. Entries(epoch) = {}
    BY <1>1 DEF Entries
  <2>2. /\ Doing(epoch, Outputs) = {} /\ Doing(epoch, {"read_root"}) = {} /\ Doing(epoch, {"read_group"}) = {}
        /\ Doing(epoch, {"release"}) = {} /\ Mismatches(epoch) = {}
    BY <2>1 DEF Doing, Mismatches
  <2>3. Originals(epoch) = {}
    BY <2>2 DEF Originals
  <2>4. Cardinality({}) = 0
    BY FS_EmptySet
  <2>5. {x \in Tiles \X Blocks : at.op = "output" /\ attempt = 1 => Over(x[1], x[2])} = {}
    <3>1. Tiles \subseteq Nat /\ Blocks \subseteq Nat
      BY <1>1, CellFacts
    <3>2. \A t \in Tiles, b \in Blocks : ~Over(t, b)
      BY <1>2, <3>1 DEF Over
    <3>3. QED BY <1>1, <1>2, <3>2
  <2>6. fault.attempted_barrier.root_reads + 0 = 0 /\ fault.attempted_barrier.group_reads + 0 = 0 /\ at.op # "reduce" /\ attempt - 1 = 0
    BY <1>1, <1>2 DEF NoFault, NoMetrics
  <2>7. QED BY <1>1, <1>4, <2>2, <2>3, <2>4, <2>5, <2>6 DEF LogInv, ReadsOf
<1>9. QED BY <1>1, <1>3, <1>5, <1>6, <1>7, <1>8 DEF CountInv

\* Wherever run_cell is in its loops, the barrier's metrics, the output writes and
\* the lines of events.jsonl of this superstep are as many as that place says, of
\* both attempts together, and so they are in every superstep that is over.
THEOREM CountSafe == Spec => []CountInv
<1>1. Init => CountInv
  BY CountInit
<1>2. BspInv /\ CountInv /\ [Next]_vars => CountInv'
  <2>1. SUFFICES ASSUME BspInv, CountInv, [Next]_vars PROVE CountInv'
    OBVIOUS
  <2>2. QED BY <2>1, OutputCounts, StartBarrierCounts, PutLeafCounts, ReadLeafCounts, PutParentCounts,
               ReadParentCounts, ReleaseCounts, SiblingCounts, ReduceStepCounts, CommandErrorCounts,
               UnchangedCounts DEF Next
<1>3. QED BY <1>1, <1>2, BspSafe, PTL DEF Spec

(***************************************************************************)
(* What the entries of the log and of result["steps"] say                  *)
(***************************************************************************)
\* Every output record of this superstep carries what its block must hold.
PayloadInv ==
  \A n \in Doing(epoch, Outputs) :
    events[n].payload = output_bytes(seed, epoch, events[n].tile, events[n].block)

\* The retry's evidence: which fault, what is redone and what is kept.
RetryInv ==
  /\ attempt = 2 =>
       /\ fault.fault = cell.fault /\ fault.tile = Target /\ fault.epoch = epoch
       /\ ~fault.replay_barrier_released /\ fault.completion_only_would_release
       /\ retry_tiles = RetryFrom..Target
  /\ InBarrier \/ attempt = 2 => initial = All
  /\ InBarrier /\ attempt = 2 => preserved = RetryFrom * cell.blocks

PastEvidence == \A n \in DOMAIN steps : ValidEvidence(steps[n])

EvidenceInv == PastEvidence /\ (status = "running" => PayloadInv /\ RetryInv)

\* What validate says of a superstep depends on its own output records and on the
\* reduction before it.
LEMMA EvidenceKept ==
  ASSUME NEW step, cell' = cell, ValidEvidence(step), SeedOf(step.epoch)' = SeedOf(step.epoch),
         Doing(step.epoch, Outputs)' = Doing(step.epoch, Outputs),
         \A n \in Doing(step.epoch, Outputs) : events'[n] = events[n]
  PROVE  ValidEvidence(step)'
<1> DEFINE e == step.epoch
<1>1. /\ Target' = Target /\ Members(GroupOf(Target))' = Members(GroupOf(Target))
      /\ SizeOf(GroupOf(Target))' = SizeOf(GroupOf(Target))
  <2>1. Target' = Target /\ GroupOf(Target)' = GroupOf(Target)
    BY DEF Target, GroupOf, GroupSize
  <2>2. QED BY <2>1 DEF Members, SizeOf, FirstOf, LastOf, GroupOf, GroupSize
<1>2. serial_oracle' = serial_oracle /\ Outcome(serial_oracle[e], e)' = Outcome(serial_oracle[e], e)
  <2>1. serial_oracle' = serial_oracle
    BY SameOracle
  <2>2. Tiles' = Tiles /\ Blocks' = Blocks
    BY SameCell
  <2>3. QED BY <2>1, <2>2 DEF Outcome
<1>3. Retries(e)' = Retries(e)
  BY <1>1 DEF Retries
<1>4. \A n \in Doing(e, Outputs)' :
        events'[n].payload = output_bytes(SeedOf(e), e, events'[n].tile, events'[n].block)
  <2>1. TAKE n \in Doing(e, Outputs)'
  <2>2. events'[n] = events[n] /\ n \in Doing(e, Outputs)
    OBVIOUS
  <2>3. QED BY <2>2 DEF ValidEvidence
<1>5. (\A n \in Doing(e, Outputs) :
         events[n].payload = output_bytes(SeedOf(e), e, events[n].tile, events[n].block))'
  BY <1>4 DEF output_bytes
<1>6. QED BY <1>1, <1>2, <1>3, <1>5 DEF ValidEvidence

\* A step before the reduction leaves the supersteps that are over alone.
LEMMA PastEvidenceKept ==
  ASSUME PastInv, PastEvidence, epoch \in Nat, events \in Seq(EventRecord),
         cell' = cell, epoch' = epoch, steps' = steps,
         events' = events \/ \E v \in EventRecord : v.epoch = epoch /\ events' = Append(events, v)
  PROVE  PastEvidence'
<1>1. ASSUME NEW n \in DOMAIN steps PROVE ValidEvidence(steps[n])'
  <2>1. PICK step : step = steps[n]
    OBVIOUS
  <2>2. step.epoch = n - 1 /\ ValidEvidence(step) /\ n \in 1..epoch
    BY <2>1 DEF PastInv, PastEvidence
  <2>3. step.epoch # epoch
    BY <2>2
  <2>4. SeedOf(step.epoch)' = SeedOf(step.epoch)
    BY DEF SeedOf
  <2>5. Doing(step.epoch, Outputs)' = Doing(step.epoch, Outputs)
    <3>1. Outputs' = Outputs
      BY DEF Outputs
    <3>2. CASE events' = events
      BY <3>1, <3>2, SameLog
    <3>3. CASE \E v \in EventRecord : v.epoch = epoch /\ events' = Append(events, v)
      BY <2>3, <3>1, <3>3, Appended
    <3>4. QED BY <3>2, <3>3
  <2>6. \A m \in Doing(step.epoch, Outputs) : events'[m] = events[m]
    <3>1. \A m \in Doing(step.epoch, Outputs) : m \in 1..Len(events)
      BY DEF Doing, Entries
    <3>2. QED BY <3>1
  <2>7. ValidEvidence(step)'
    BY <2>2, <2>4, <2>5, <2>6, EvidenceKept
  <2>8. steps'[n] = step
    BY <2>1
  <2>9. QED BY <2>7, <2>8
<1>2. QED BY <1>1 DEF PastEvidence

\* A raised error, and a step of the loops, from what it has to show.
LEMMA EvidenceFail ==
  ASSUME BspInv, CountInv, EvidenceInv, status' = "fail", cell' = cell, epoch' = epoch, steps' = steps,
         events' = events \/ \E v \in EventRecord : v.epoch = epoch /\ events' = Append(events, v)
  PROVE  EvidenceInv'
<1>1. epoch \in Nat /\ events \in Seq(EventRecord) /\ PastInv /\ PastEvidence
  BY BspAssumption DEF BspInv, TypeInv, CountInv, EvidenceInv
<1>2. PastEvidence'
  BY <1>1, PastEvidenceKept
<1>3. QED BY <1>2 DEF EvidenceInv

LEMMA EvidenceStep ==
  ASSUME BspInv, CountInv, EvidenceInv, status = "running", status' = "running",
         cell' = cell, epoch' = epoch, seed' = seed, steps' = steps, RetryInv',
         \/ events' = events
         \/ \E v \in EventRecord :
              /\ v.epoch = epoch /\ events' = Append(events, v)
              /\ v.action \in Outputs => v.payload = output_bytes(seed, epoch, v.tile, v.block)
  PROVE  EvidenceInv'
<1>1. epoch \in Nat /\ events \in Seq(EventRecord) /\ PastInv /\ PastEvidence /\ PayloadInv
  BY Counting DEF EvidenceInv
<1>2. PastEvidence'
  BY <1>1, PastEvidenceKept
<1>3. PayloadInv'
  <2>1. CASE events' = events
    BY <1>1, <2>1 DEF PayloadInv, Doing, Entries, Outputs, output_bytes
  <2>2. ASSUME NEW v \in EventRecord, v.epoch = epoch, events' = Append(events, v),
               v.action \in Outputs => v.payload = output_bytes(seed, epoch, v.tile, v.block)
        PROVE  PayloadInv'
    <3> DEFINE N == Len(events) + 1
    <3>1. Len(events) \in Nat /\ events'[N] = v /\ \A n \in 1..Len(events) : events'[n] = events[n]
      BY <1>1, <2>2
    <3>2. Doing(epoch, Outputs)' = IF v.action \in Outputs THEN Doing(epoch, Outputs) \cup {N}
                                   ELSE Doing(epoch, Outputs)
      <4>1. Outputs' = Outputs
        BY DEF Outputs
      <4>2. QED BY <1>1, <2>2, <4>1, Appended
    <3>3. \A n \in Doing(epoch, Outputs) : n \in 1..Len(events)
      BY <1>1 DEF Doing, Entries
    <3> HIDE DEF N
    <3>4. \A n \in Doing(epoch, Outputs)' :
            events'[n].payload = output_bytes(seed, epoch, events'[n].tile, events'[n].block)
      <4>1. TAKE n \in Doing(epoch, Outputs)'
      <4>2. CASE n \in Doing(epoch, Outputs)
        BY <1>1, <3>1, <3>3, <4>2 DEF PayloadInv
      <4>3. CASE n = N /\ v.action \in Outputs
        BY <2>2, <3>1, <4>3
      <4>4. QED BY <3>2, <4>2, <4>3
    <3>5. QED BY <3>4 DEF PayloadInv, output_bytes
  <2>3. QED BY <2>1, <2>2
<1>4. QED BY <1>2, <1>3 DEF EvidenceInv

\* The retry's evidence stays unless a barrier starts.
LEMMA RetryKept ==
  ASSUME RetryInv, cell' = cell, epoch' = epoch, attempt' = attempt, fault' = fault,
         retry_tiles' = retry_tiles, initial' = initial, preserved' = preserved,
         InBarrier' => InBarrier
  PROVE  RetryInv'
<1>1. Target' = Target /\ RetryFrom' = RetryFrom /\ All' = All
  BY SameCell, SameExpected
<1>2. QED BY <1>1 DEF RetryInv

LEMMA Retrying ==
  ASSUME BspInv, CountInv, EvidenceInv, status = "running"
  PROVE  RetryInv /\ PayloadInv
  BY DEF EvidenceInv

LEMMA SiblingEvidence ==
  ASSUME BspInv, CountInv, EvidenceInv, Sibling
  PROVE  EvidenceInv'
<1>0. status = "running" /\ at.op = "sibling" /\ cell' = cell /\ epoch' = epoch /\ seed' = seed
      /\ attempt' = attempt /\ fault' = fault /\ retry_tiles' = retry_tiles /\ initial' = initial
      /\ preserved' = preserved /\ steps' = steps /\ events' = events
  BY DEF Sibling, Ready, stepVars, retryVars
<1>1. status' = "fail" \/ (at' = After /\ status' = "running")
  BY <1>0 DEF Sibling, Abort, Advance
<1>2. CASE status' = "fail"
  BY <1>0, <1>2, EvidenceFail
<1>3. CASE at' = After /\ status' = "running"
  <2>1. at'.op \in {"sibling", "barrier"}
    <3>1. at' = Loop(RetryFrom - 1, cell.blocks, Do("barrier", 0, 0))
      BY <1>0, <1>3 DEF After
    <3>2. QED BY <1>0, <3>1, LoopGoes, DoFields
  <2>2. RetryInv'
    BY <1>0, <2>1, Retrying, RetryKept DEF InBarrier, Reading
  <2>3. QED BY <1>0, <1>3, <2>2, EvidenceStep
<1>4. QED BY <1>1, <1>2, <1>3

LEMMA CommandErrorEvidence ==
  ASSUME BspInv, CountInv, EvidenceInv, CommandError
  PROVE  EvidenceInv'
<1>1. status' = "fail" /\ cell' = cell /\ epoch' = epoch /\ steps' = steps /\ events' = events
  BY DEF CommandError, Abort, stepVars
<1>2. QED BY <1>1, EvidenceFail

LEMMA OutputEvidence ==
  ASSUME BspInv, CountInv, EvidenceInv, Output
  PROVE  EvidenceInv'
<1> DEFINE t == at.tile
           b == at.index
           data == output_bytes(seed, epoch, t, b)
<1>0. status = "running" /\ at.op = "output" /\ cell' = cell /\ epoch' = epoch /\ seed' = seed
      /\ attempt' = attempt /\ fault' = fault /\ retry_tiles' = retry_tiles /\ initial' = initial
      /\ preserved' = preserved /\ steps' = steps
  BY DEF Output, Ready, stepVars, retryVars
<1>1. \/ status' = "fail" /\ events' = events
      \/ /\ at' = After /\ status' = "running"
         /\ \E a \in Outputs : events' = Append(events, Event(a, t, b, data, TRUE))
  BY <1>0 DEF Output, Abort, Advance, Outputs, Log
<1>2. CASE status' = "fail" /\ events' = events
  BY <1>0, <1>2, EvidenceFail
<1>3. CASE /\ at' = After /\ status' = "running"
           /\ \E a \in Outputs : events' = Append(events, Event(a, t, b, data, TRUE))
  <2>1. /\ cell \in Cells /\ epoch \in Nat /\ AtInv /\ seed \in Nat
    BY <1>0, Running
  <2>2. t \in Tiles /\ b \in Blocks
    BY <1>0, <2>1, AtFacts
  <2>3. t \in Nat /\ b \in Nat /\ data \in Nat
    <3>1. t \in Nat /\ b \in Nat
      BY <2>1, <2>2, CellFacts
    <3>2. seed \in Int /\ epoch \in Int
      BY <2>1
    <3>3. \A x \in Tiles, y \in Blocks : output_bytes(seed, epoch, x, y) \in Nat
      BY <2>1, <3>2, OutcomeWords
    <3>4. QED BY <2>2, <3>1, <3>3
  <2>4. PICK a \in Outputs : events' = Append(events, Event(a, t, b, data, TRUE))
    BY <1>3
  <2>5. a \in Action
    BY DEF Action
  <2> HIDE DEF t, b, data
  <2>6. Event(a, t, b, data, TRUE) \in EventRecord
    BY <2>1, <2>3, <2>5, RightEvent
  <2>7. PICK v \in EventRecord : /\ v.epoch = epoch /\ events' = Append(events, v)
                                 /\ v.payload = data /\ v.tile = t /\ v.block = b
    BY <2>4, <2>6 DEF Event
  <2>8. at'.op \in {"output", "sibling", "barrier"}
    <3>1. PICK then \in {Do("sibling", 0, 0), Do("barrier", 0, 0)} : at' = Loop(Target, cell.blocks, then)
      BY <1>0, <1>3 DEF After
    <3>2. QED BY <1>0, <3>1, LoopGoes, DoFields
  <2>9. RetryInv'
    BY <1>0, <2>8, Retrying, RetryKept DEF InBarrier, Reading
  <2>10. v.payload = output_bytes(seed, epoch, v.tile, v.block)
    BY <2>7 DEF data
  <2>11. QED BY <1>0, <1>3, <2>7, <2>9, <2>10, EvidenceStep
<1>4. QED BY <1>1, <1>2, <1>3

\* Once the outputs are made, all of them have been received.
LEMMA AllReceived ==
  ASSUME cell \in Cells, DataInv, ~(at.op = "output" /\ attempt = 1), seed \in Nat, epoch \in Nat,
         NEW n \in Nat, n <= cell.devices
  PROVE  Received(0..n - 1) = (0..n - 1) \X Blocks /\ Cardinality(Received(0..n - 1)) = n * cell.blocks
<1>1. /\ cell.devices \in Nat \ {0} /\ cell.blocks \in Nat \ {0} /\ Tiles = 0..cell.devices - 1
      /\ Blocks = 0..cell.blocks - 1
  BY CellFacts DEF Tiles, Blocks
<1>2. 0..n - 1 \subseteq Tiles
  BY <1>1
<1>3. \A t \in Tiles, b \in Blocks : values[t][b] # NoWord
  <2>1. \A t \in Tiles, b \in Blocks : values[t][b] = output_bytes(seed, epoch, t, b)
    BY DEF DataInv
  <2>2. seed \in Int /\ epoch \in Int
    OBVIOUS
  <2>3. \A t \in Tiles, b \in Blocks : output_bytes(seed, epoch, t, b) \in Nat
    BY <2>2, OutcomeWords
  <2>4. QED BY <2>1, <2>3 DEF NoWord
<1>4. Received(0..n - 1) = (0..n - 1) \X Blocks
  BY <1>2, <1>3 DEF Received
<1>5. IsFiniteSet(0..n - 1) /\ Cardinality(0..n - 1) = n
  <2>1. 0 \in Int /\ n - 1 \in Int
    OBVIOUS
  <2>2. IsFiniteSet(0..n - 1) /\ Cardinality(0..n - 1) = IF 0 > n - 1 THEN 0 ELSE n - 1 - 0 + 1
    BY <2>1, FS_Interval
  <2>3. QED BY <2>2
<1>6. IsFiniteSet(Blocks) /\ Cardinality(Blocks) = cell.blocks
  <2>1. 0 \in Int /\ cell.blocks - 1 \in Int
    BY <1>1
  <2>2. /\ IsFiniteSet(0..cell.blocks - 1)
        /\ Cardinality(0..cell.blocks - 1) = IF 0 > cell.blocks - 1 THEN 0 ELSE cell.blocks - 1 - 0 + 1
    BY <2>1, FS_Interval
  <2>3. QED BY <1>1, <2>2
<1>7. Cardinality((0..n - 1) \X Blocks) = n * cell.blocks
  <2>1. PICK A, B : A = 0..n - 1 /\ B = Blocks
    OBVIOUS
  <2>2. IsFiniteSet(A) /\ IsFiniteSet(B) /\ Cardinality(A) = n /\ Cardinality(B) = cell.blocks
    BY <1>5, <1>6, <2>1
  <2>3. Cardinality(A \X B) = Cardinality(A) * Cardinality(B)
    BY <2>2, FS_Product
  <2>4. QED BY <2>1, <2>2, <2>3
<1>8. QED BY <1>4, <1>7

LEMMA StartBarrierEvidence ==
  ASSUME BspInv, CountInv, EvidenceInv, StartBarrier
  PROVE  EvidenceInv'
<1>0. status = "running" /\ at.op = "barrier" /\ at' = After /\ status' = status
      /\ cell' = cell /\ epoch' = epoch /\ seed' = seed /\ attempt' = attempt /\ fault' = fault
      /\ retry_tiles' = retry_tiles /\ steps' = steps /\ events' = events
      /\ IF attempt = 1 THEN initial' = data_writes
         ELSE preserved' = Cardinality(Received(Tiles \ retry_tiles)) /\ initial' = initial
  BY DEF StartBarrier, Ready, retryVars, Advance
<1>1. /\ cell \in Cells /\ epoch \in Nat /\ attempt \in {1, 2} /\ WritesInv /\ RetryFrom \in Nat
      /\ RetryFrom \in Tiles /\ cell.devices \in Nat \ {0} /\ Target = cell.devices - 1
      /\ Tiles = 0..Target /\ Target \in Nat /\ RetryInv /\ DataInv /\ seed \in Nat
  BY <1>0, Counting, Running, Retrying
<1>2. Target' = Target /\ RetryFrom' = RetryFrom /\ All' = All
  BY <1>0, SameCell, SameExpected
<1>3. CASE attempt = 1
  <2>1. data_writes = All
    BY <1>0, <1>1, <1>3 DEF WritesInv, OutputWrites
  <2>2. RetryInv'
    BY <1>0, <1>2, <1>3, <2>1 DEF RetryInv
  <2>3. QED BY <1>0, <2>2, EvidenceStep
<1>4. CASE attempt = 2
  <2>1. retry_tiles = RetryFrom..Target
    BY <1>1, <1>4 DEF RetryInv
  <2>2. Tiles \ retry_tiles = 0..RetryFrom - 1
    BY <1>1, <2>1
  <2>3. Cardinality(Received(0..RetryFrom - 1)) = RetryFrom * cell.blocks
    <3>1. RetryFrom <= cell.devices
      BY <1>1
    <3>2. QED BY <1>0, <1>1, <3>1, AllReceived
  <2>4. preserved' = RetryFrom * cell.blocks
    <3>1. preserved' = Cardinality(Received(Tiles \ retry_tiles))
      BY <1>0, <1>4
    <3>2. Received(Tiles \ retry_tiles) = Received(0..RetryFrom - 1)
      BY <2>2, Zenon
    <3>3. QED BY <2>3, <3>1, <3>2, Zenon
  <2>5. RetryInv'
    BY <1>0, <1>1, <1>2, <1>4, <2>4 DEF RetryInv
  <2>6. QED BY <1>0, <2>5, EvidenceStep
<1>5. QED BY <1>1, <1>3, <1>4

\* What a certificate written and a release leave alone.
LEMMA BarrierEvidence ==
  ASSUME BspInv, CountInv, EvidenceInv, PutLeaf \/ PutParent \/ Release
  PROVE  EvidenceInv'
<1>0. status = "running" /\ at.op \in {"put_leaf", "put_parent", "release"}
      /\ cell' = cell /\ epoch' = epoch /\ seed' = seed
      /\ attempt' = attempt /\ fault' = fault /\ retry_tiles' = retry_tiles /\ initial' = initial
      /\ preserved' = preserved /\ steps' = steps /\ (status' = "running" \/ status' = "fail")
  BY DEF PutLeaf, PutParent, Release, Ready, Advance, Abort, stepVars, retryVars
<1>1. cell \in Cells /\ epoch \in Nat /\ AtInv
  BY <1>0, Running
<1>2. PICK v \in EventRecord : v.epoch = epoch /\ v.action \notin Outputs /\ events' = Append(events, v)
  <2>1. PICK a \in {"certificate_write", "release"}, t \in Nat, i \in Nat :
          events' = Append(events, Event(a, t, i, 0, TRUE))
    <3>1. CASE PutLeaf
      <4>1. at.tile \in Tiles /\ at.index \in 0..Indices - 1 /\ at.tile \in Nat /\ at.index \in Nat
        BY <1>1, <3>1, AtFacts, CellFacts DEF PutLeaf, Ready
      <4>2. QED BY <3>1, <4>1 DEF PutLeaf, Log
    <3>2. CASE PutParent
      <4>1. Nested /\ at.tile \in Groups
        BY <1>1, <3>2, AtFacts DEF PutParent, Ready
      <4>2. Representative(at.tile) \in Nat
        BY <1>1, <4>1, Representatives, CellFacts
      <4>3. QED BY <3>2, <4>2 DEF PutParent, Log
    <3>3. CASE Release
      <4>1. epoch % cell.devices \in Nat
        BY <1>1, CellFacts
      <4>2. QED BY <3>3, <4>1 DEF Release, Log
    <3>4. QED BY <3>1, <3>2, <3>3
  <2>2. a \in Action /\ a \notin Outputs /\ 0 \in Nat
    BY DEF Action, Outputs
  <2>3. Event(a, t, i, 0, TRUE) \in EventRecord /\ Event(a, t, i, 0, TRUE).epoch = epoch
        /\ Event(a, t, i, 0, TRUE).action = a
    BY <1>1, <2>2, RightEvent
  <2>4. QED BY <2>1, <2>2, <2>3
<1>3. CASE status' = "fail"
  BY <1>0, <1>2, <1>3, EvidenceFail
<1>4. CASE status' = "running"
  <2>1. InBarrier
    BY <1>0 DEF InBarrier, Reading
  <2>2. RetryInv'
    BY <1>0, <2>1, Retrying, RetryKept
  <2>3. QED BY <1>0, <1>2, <1>4, <2>2, EvidenceStep
<1>5. QED BY <1>0, <1>3, <1>4

\* Barrier.get: what the except branch notes is the fault that was injected.
LEMMA GetEvidence ==
  ASSUME BspInv, CountInv, EvidenceInv, status = "running", at.op \in {"read_leaf", "read_parent"},
         NEW stored, NEW expected, NEW role \in {"read_group", "read_root"}, NEW owner \in Nat,
         Get(stored, expected, role, owner)
  PROVE  EvidenceInv'
<1>1. /\ cell \in Cells /\ epoch \in Nat /\ attempt \in {1, 2} /\ DataInv /\ seed \in Nat
      /\ cell.devices \in Nat \ {0} /\ cell.blocks \in Nat \ {0} /\ Tiles = 0..cell.devices - 1
  BY Running, CellFacts DEF Tiles
<1> DEFINE Answer(actual, seen) ==
             LET name == check_certificate(actual, expected)
             IN  /\ Log(Event(role, owner, 0, 0, actual = expected))
                 /\ IF name = None THEN Advance /\ UNCHANGED retryVars ELSE Recover(owner, name, seen)
                 /\ UNCHANGED <<cell, epoch, seed, initial, preserved, steps, values, data_writes,
                                deviceVars>>
<1>2. PICK actual, seen : Answer(actual, seen)
  BY DEF Get
<1> DEFINE name == check_certificate(actual, expected)
<1>3. cell' = cell /\ epoch' = epoch /\ seed' = seed /\ initial' = initial /\ preserved' = preserved
      /\ steps' = steps
  BY <1>2
<1>4. PICK v \in EventRecord : v.epoch = epoch /\ v.action \notin Outputs /\ events' = Append(events, v)
  <2>1. PICK ok \in BOOLEAN : ok = (actual = expected)
    OBVIOUS
  <2>2. role \in Action /\ role \notin Outputs /\ 0 \in Nat
    BY DEF Action, Outputs
  <2>3. Event(role, owner, 0, 0, ok) \in EventRecord /\ Event(role, owner, 0, 0, ok).epoch = epoch
        /\ Event(role, owner, 0, 0, ok).action = role
    BY <1>1, <2>2, EventIs
  <2>4. events' = Append(events, Event(role, owner, 0, 0, ok))
    BY <1>2, <2>1 DEF Log
  <2>5. QED BY <2>2, <2>3, <2>4
<1>5. InBarrier /\ RetryInv
  BY Retrying DEF InBarrier, Reading
<1>6. CASE name = None
  <2>1. status' = "running" /\ attempt' = attempt /\ fault' = fault /\ retry_tiles' = retry_tiles
    BY <1>2, <1>6 DEF Advance, retryVars
  <2>2. RetryInv'
    BY <1>3, <1>5, <2>1, RetryKept
  <2>3. QED BY <1>3, <1>4, <2>1, <2>2, EvidenceStep
<1>7. CASE name # None
  <2>1. Recover(owner, name, seen)
    BY <1>2, <1>7
  <2>2. \/ status' = "fail"
        \/ /\ status' = "running" /\ attempt' = 2 /\ name = Injected
           /\ fault'.fault = name /\ fault'.tile = Target /\ fault'.epoch = epoch
           /\ ~fault'.replay_barrier_released
           /\ fault'.completion_only_would_release =
                (Cardinality(Received(Tiles)) = cell.devices * cell.blocks)
           /\ retry_tiles' = RetryFrom..Target /\ at' = Retry
    <3> HIDE DEF name
    <3>1. QED BY <1>1, <2>1, RecoverIs
  <2> HIDE DEF name
  <2>3. CASE status' = "fail"
    BY <1>3, <1>4, <2>3, EvidenceFail
  <2>4. CASE /\ status' = "running" /\ attempt' = 2 /\ name = Injected
             /\ fault'.fault = name /\ fault'.tile = Target /\ fault'.epoch = epoch
             /\ ~fault'.replay_barrier_released
             /\ fault'.completion_only_would_release =
                  (Cardinality(Received(Tiles)) = cell.devices * cell.blocks)
             /\ retry_tiles' = RetryFrom..Target /\ at' = Retry
    <3>1. Cardinality(Received(Tiles)) = cell.devices * cell.blocks
      <4>1. Cardinality(Received(0..cell.devices - 1)) = cell.devices * cell.blocks
        BY <1>1, AllReceived
      <4>2. QED BY <1>1, <4>1
    <3>2. name = cell.fault
      BY <1>7, <2>4 DEF Injected
    <3>3. Target' = Target /\ RetryFrom' = RetryFrom /\ All' = All
      BY <1>3, SameCell, SameExpected
    <3>4. initial = All
      BY <1>5 DEF RetryInv
    <3>5. at'.op = "output"
      BY <2>4, DoFields DEF Retry
    <3>6. ~InBarrier'
      BY <3>5 DEF InBarrier, Reading
    <3>7. /\ fault'.fault = cell.fault /\ fault'.tile = Target /\ fault'.epoch = epoch
          /\ ~fault'.replay_barrier_released /\ fault'.completion_only_would_release
      BY <2>4, <3>1, <3>2
    <3>8. RetryInv'
      BY <1>3, <2>4, <3>3, <3>4, <3>6, <3>7 DEF RetryInv
    <3>9. QED BY <1>3, <1>4, <2>4, <3>8, EvidenceStep
  <2>5. QED BY <2>2, <2>3, <2>4
<1>8. QED BY <1>6, <1>7

LEMMA ReadEvidence ==
  ASSUME BspInv, CountInv, EvidenceInv, ReadLeaf \/ ReadParent
  PROVE  EvidenceInv'
<1>1. status = "running" /\ at.op \in {"read_leaf", "read_parent"} /\ cell \in Cells /\ AtInv
  BY Running DEF ReadLeaf, ReadParent, Ready
<1>2. CASE ReadLeaf
  <2>1. at.tile \in Nat
    BY <1>1, <1>2, AtFacts, CellFacts DEF ReadLeaf, Ready
  <2>2. PICK role \in {"read_group", "read_root"} :
          Get(leaf[at.tile][at.index], LeafCert(at.tile, at.index), role, at.tile)
    BY <1>2 DEF ReadLeaf
  <2>3. QED BY <1>1, <2>1, <2>2, GetEvidence
<1>3. CASE ReadParent
  <2>a. Nested /\ at.tile \in Groups /\ epoch \in Nat
    BY <1>1, <1>3, AtFacts, Running DEF ReadParent, Ready
  <2>1. Representative(at.tile) \in Nat
    BY <1>1, <2>a, Representatives, CellFacts
  <2>2. PICK role \in {"read_group", "read_root"} :
          Get(group[Representative(at.tile)], ParentCert(at.tile, Children(at.tile)), role,
              Representative(at.tile))
    BY <1>3 DEF ReadParent
  <2>3. QED BY <1>1, <2>1, <2>2, GetEvidence
<1>4. QED BY <1>2, <1>3

\* At the end of a superstep its entry is what validate expects.
LEMMA EntryIsValid ==
  ASSUME BspInv, CountInv, EvidenceInv, status = "running", at.op = "reduce",
         values = Outcome(serial_oracle[epoch], epoch), Reduce(values) = serial_oracle[epoch + 1]
  PROVE  ValidEvidence(Entry)
<1>1. /\ cell \in Cells /\ epoch \in Nat /\ attempt \in {1, 2} /\ RetryInv /\ PayloadInv /\ PastInv
      /\ FaultInv /\ seed = serial_oracle[epoch] /\ cell.devices \in Nat \ {0}
      /\ cell.blocks \in Nat \ {0} /\ RetryFrom \in Nat /\ Target \in Nat /\ Target = cell.devices - 1
  BY Counting, Running, Retrying
<1>2. InBarrier
  BY DEF InBarrier, Reading
<1>3. initial = All
  BY <1>1, <1>2 DEF RetryInv
<1>4. (cell.fault # None /\ epoch = 1) <=> attempt = 2
  <2>1. Injected = None
    BY Running DEF CaughtInv
  <2>2. QED BY <1>1, <2>1 DEF Injected, FaultInv
<1>5. SeedOf(epoch) = seed
  <2>1. CASE epoch = 0
    BY <1>1, <2>1, OracleSteps DEF SeedOf
  <2>2. CASE epoch # 0
    <3>1. epoch \in DOMAIN steps
      BY <1>1, <2>2 DEF PastInv
    <3>2. steps[epoch].epoch = epoch - 1 /\ ValidEvidence(steps[epoch])
      <4>1. \A n \in DOMAIN steps : steps[n].epoch = n - 1
        BY <1>1 DEF PastInv
      <4>2. \A n \in DOMAIN steps : ValidEvidence(steps[n])
        BY DEF EvidenceInv, PastEvidence
      <4>3. QED BY <3>1, <4>1, <4>2
    <3>3. steps[epoch].reduction = serial_oracle[(epoch - 1) + 1]
      BY <3>2 DEF ValidEvidence
    <3>4. QED BY <1>1, <2>2, <3>3 DEF SeedOf
  <2>3. QED BY <2>1, <2>2
<1>6. data_writes = All + Retries(epoch) /\ All \in Nat /\ Retries(epoch) \in Int
  <2>1. Entry.epoch = epoch /\ Entry.barrier = metrics /\ Entry.fault = fault
    BY DEF Entry
  <2>2. QED BY <2>1, StepIsValid
<1>7. data_writes - initial = Retries(epoch)
  BY <1>3, <1>6
<1>8. /\ SizeOf(GroupOf(Target)) = cell.devices - RetryFrom
      /\ Members(GroupOf(Target)) = RetryFrom..Target
      /\ cell.devices - SizeOf(GroupOf(Target)) = RetryFrom
  <2>1. SizeOf(GroupOf(Target)) = Target - RetryFrom + 1 /\ Members(GroupOf(Target)) = RetryFrom..Target
    BY DEF SizeOf, LastOf, RetryFrom, Members
  <2>2. QED BY <1>1, <2>1
<1>9. /\ Entry.epoch = epoch /\ Entry.initial_output_writes = initial /\ Entry.fault = fault
      /\ Entry.retry_tiles = retry_tiles /\ Entry.preserved_blocks_checked = preserved
      /\ Entry.output_sha256 = values /\ Entry.reduction = Reduce(values)
      /\ Entry.retry_output_writes = data_writes - initial
  BY DEF Entry
<1>10. cell.fault # None /\ epoch = 1 =>
         /\ fault.fault = cell.fault /\ fault.tile = Target /\ fault.epoch = epoch
         /\ ~fault.replay_barrier_released /\ fault.completion_only_would_release
         /\ retry_tiles = Members(GroupOf(Target))
         /\ preserved = (cell.devices - SizeOf(GroupOf(Target))) * cell.blocks
  BY <1>1, <1>2, <1>4, <1>8 DEF RetryInv
<1>11. \A n \in Doing(epoch, Outputs) :
         events[n].payload = output_bytes(SeedOf(epoch), epoch, events[n].tile, events[n].block)
  BY <1>1, <1>5 DEF PayloadInv
<1>12. initial = cell.devices * cell.blocks
  BY <1>3 DEF All
<1>13. QED BY <1>7, <1>9, <1>10, <1>11, <1>12 DEF ValidEvidence

LEMMA ReduceStepEvidence ==
  ASSUME BspInv, CountInv, EvidenceInv, ReduceStep
  PROVE  EvidenceInv'
<1>0. status = "running" /\ at.op = "reduce" /\ cell' = cell /\ events' = events
  BY DEF ReduceStep, Ready
<1>1. /\ PastInv /\ PastEvidence /\ cell \in Cells /\ epoch \in Nat /\ events \in Seq(EventRecord)
      /\ ReleaseInv
  BY <1>0, Counting, Running DEF EvidenceInv
<1>2. CASE values # Outcome(serial_oracle[epoch], epoch) \/ Reduce(values) # serial_oracle[epoch + 1]
  <2>1. status' = "fail" /\ epoch' = epoch /\ steps' = steps
    BY <1>2 DEF ReduceStep, Abort, stepVars
  <2>2. QED BY <1>0, <2>1, EvidenceFail
<1>3. CASE ~(values # Outcome(serial_oracle[epoch], epoch) \/ Reduce(values) # serial_oracle[epoch + 1])
  <2>1. /\ steps' = Append(steps, Entry) /\ epoch' = epoch + 1 /\ attempt' = 1
        /\ \/ status' = "pass"
           \/ at' = FirstAttempt /\ status' = "running"
    BY <1>0, <1>3 DEF ReduceStep, Entry
  <2>2. PICK S : S = Entry
    OBVIOUS
  <2>3. ValidEvidence(S) /\ S.epoch = epoch
    <3>1. Entry.epoch = epoch
      BY DEF Entry
    <3>2. QED BY <1>0, <1>3, <2>2, <3>1, EntryIsValid
  <2>4. PICK R : steps \in Seq(R) /\ Len(steps) = epoch
    BY <1>1 DEF PastInv
  <2>5. steps \in Seq(R \cup {S})
    BY <2>4, LargerSeq
  <2>6. steps' = Append(steps, S)
    BY <2>1, <2>2
  <2>7. /\ DOMAIN steps' = 1..epoch + 1 /\ DOMAIN steps = 1..epoch /\ steps'[epoch + 1] = S
        /\ \A n \in 1..epoch : steps'[n] = steps[n]
    BY <2>4, <2>5, <2>6
  <2>8. ASSUME NEW n \in DOMAIN steps'
        PROVE  steps'[n].epoch = n - 1 /\ ValidEvidence(steps'[n]) /\ n - 1 \in 0..epoch
    <3>1. CASE n \in 1..epoch
      BY <1>1, <2>7, <3>1 DEF PastInv, PastEvidence
    <3>2. CASE n = epoch + 1
      BY <1>1, <2>3, <2>7, <3>2
    <3>3. QED BY <1>1, <2>7, <3>1, <3>2
  <2>9. ASSUME NEW e \in 0..epoch PROVE SeedOf(e)' = SeedOf(e)
    <3>1. e # 0 => e \in 1..epoch
      BY <1>1
    <3>2. e # 0 => steps'[e] = steps[e]
      BY <2>7, <3>1
    <3>3. QED BY <3>2 DEF SeedOf
  <2>10. ASSUME NEW n \in DOMAIN steps' PROVE ValidEvidence(steps[n])'
    <3>1. PICK s : s = steps'[n]
      OBVIOUS
    <3>2. ValidEvidence(s) /\ s.epoch \in 0..epoch
      BY <2>8, <3>1
    <3>3. SeedOf(s.epoch)' = SeedOf(s.epoch)
      BY <2>9, <3>2
    <3>4. Doing(s.epoch, Outputs)' = Doing(s.epoch, Outputs)
      BY <1>0, SameLog DEF Outputs
    <3>5. ValidEvidence(s)'
      BY <1>0, <3>2, <3>3, <3>4, EvidenceKept
    <3>6. QED BY <3>1, <3>5
  <2>11. PastEvidence'
    BY <2>10 DEF PastEvidence
  <2>12. ASSUME status' = "running" PROVE PayloadInv' /\ RetryInv'
    <3>1. at'.op = "output"
      BY <2>1, <2>12, DoFields DEF FirstAttempt
    <3>2. RetryInv'
      BY <2>1, <3>1 DEF RetryInv, InBarrier, Reading
    <3>3. Entries(epoch)' = {}
      <4>1. ASSUME NEW n \in DOMAIN events PROVE events[n].epoch # epoch + 1
        <5>1. events[n] \in EventRecord /\ events[n].epoch <= epoch
          BY <1>1 DEF ReleaseInv
        <5>2. events[n].epoch \in Nat
          BY <5>1 DEF EventRecord
        <5>3. QED BY <1>1, <5>1, <5>2
      <4>2. QED BY <1>0, <2>1, <4>1 DEF Entries
    <3>4. PayloadInv'
      BY <3>3 DEF PayloadInv, Doing
    <3>5. QED BY <3>2, <3>4
  <2>13. QED BY <2>11, <2>12 DEF EvidenceInv
<1>4. QED BY <1>2, <1>3

LEMMA UnchangedEvidence ==
  ASSUME BspInv, CountInv, EvidenceInv, UNCHANGED vars
  PROVE  EvidenceInv'
<1>1. /\ cell' = cell /\ status' = status /\ at' = at /\ epoch' = epoch /\ seed' = seed
      /\ attempt' = attempt /\ fault' = fault /\ retry_tiles' = retry_tiles /\ initial' = initial
      /\ preserved' = preserved /\ steps' = steps /\ events' = events
  BY DEF vars, stepVars, retryVars
<1>2. CASE status = "running"
  <2>1. RetryInv'
    BY <1>1, <1>2, Retrying, RetryKept DEF InBarrier
  <2>2. QED BY <1>1, <1>2, <2>1, EvidenceStep
<1>3. CASE status # "running"
  <2>1. epoch \in Nat /\ events \in Seq(EventRecord) /\ PastInv /\ PastEvidence
    BY BspAssumption DEF BspInv, TypeInv, CountInv, EvidenceInv
  <2>2. PastEvidence'
    BY <1>1, <2>1, PastEvidenceKept
  <2>3. QED BY <1>1, <1>3, <2>2 DEF EvidenceInv
<1>4. QED BY <1>2, <1>3

LEMMA EvidenceInit ==
  ASSUME Init
  PROVE  EvidenceInv
<1>1. attempt = 1 /\ steps = <<>> /\ events = <<>> /\ at = Do("output", 0, 0)
  BY DEF Init, FirstAttempt
<1>2. PastEvidence /\ PayloadInv
  BY <1>1 DEF PastEvidence, PayloadInv, Doing, Entries
<1>3. RetryInv
  BY <1>1, DoFields DEF RetryInv, InBarrier, Reading
<1>4. QED BY <1>2, <1>3 DEF EvidenceInv

\* What run_cell writes into events.jsonl and result["steps"] about outputs, the
\* injected fault, the tiles redone and the blocks kept is true at every moment,
\* and every superstep that is over has the evidence that validate asks for.
THEOREM EvidenceSafe == Spec => []EvidenceInv
<1>1. Init => EvidenceInv
  BY EvidenceInit
<1>2. BspInv /\ CountInv /\ EvidenceInv /\ [Next]_vars => EvidenceInv'
  <2>1. SUFFICES ASSUME BspInv, CountInv, EvidenceInv, [Next]_vars PROVE EvidenceInv'
    OBVIOUS
  <2>2. QED BY <2>1, OutputEvidence, StartBarrierEvidence, BarrierEvidence, ReadEvidence, SiblingEvidence,
               ReduceStepEvidence, CommandErrorEvidence, UnchangedEvidence DEF Next
<1>3. QED BY <1>1, <1>2, BspSafe, CountSafe, PTL DEF Spec

\* Every cell that run_cell passes is one that validate accepts, whatever the
\* devices returned on the way: outputs, payloads and reduction of every superstep,
\* the counters and bytes of its barrier, the fault's attribution and its retry, the
\* log's reads, writes and mismatches, and that the release is its last event.
THEOREM ValidateSafe == Spec => []PassValidates
<1>1. CountInv /\ EvidenceInv => PassValidates
  <2>1. SUFFICES ASSUME CountInv, EvidenceInv, status = "pass" PROVE validate
    BY DEF PassValidates
  <2>2. PastInv /\ epoch = Steps /\ PastEvidence
    BY <2>1 DEF CountInv, EvidenceInv
  <2>3. QED BY <2>2 DEF validate, PastInv, PastEvidence, ValidStep
<1>2. QED BY <1>1, CountSafe, EvidenceSafe, PTL
=============================================================================
