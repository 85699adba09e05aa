------------------------- MODULE TokenFabricProofs -------------------------
(***************************************************************************)
(* Proofs about the fabric event loop, for every stream, every set of IPs  *)
(* and every cycle budget.                                                 *)
(***************************************************************************)
EXTENDS TokenFabric, FiniteSetTheorems, NaturalsInduction, TLAPS

(***************************************************************************)
(* The inductive invariant                                                 *)
(***************************************************************************)
\* The retired tokens are 0 and those of the commands that have retired.
RetiredTokens == retired = {0} \cup {stream[c].token_out : c \in done}

\* A scan that has launched nothing has found nothing ready so far.
ScanFoundNothing ==
  pc = "scan" /\ ~launched_any =>
    \A k \in DOMAIN pending : k < i => ~CanFire(pending[k])

\* The run is over exactly when its result says so; the clock runs only for
\* commands in flight.
LoopShape ==
  /\ pc # "idle" <=> result = "running"
  /\ pc = "tick" => FlightSet # {}

\* Retired commands are counted once.
Counted == completions = Cardinality(done)

\* What the budget of a run sets aside for n commands.
SetAside(n) == 4 * CycleBudget * n

\* Cycles are paid for by retired commands, but for those that one command
\* still in flight has been waiting.
CyclesPaid ==
  result = "running" =>
    /\ \A c \in FlightSet : in_flight[c] <= CycleBudget
    /\ \/ FlightSet = {} /\ total_cycles <= SetAside(completions)
       \/ \E c \in FlightSet :
            total_cycles <= SetAside(completions) + in_flight[c]

FabricInv ==
  /\ FabricTypeOK /\ ExactlyOnce /\ RetiredTokens /\ TokenWait
  /\ ScanFoundNothing /\ LoopShape /\ Counted /\ CyclesPaid
  /\ OkMeansAll /\ NeverStuck /\ GlobalCapLoose

(***************************************************************************)
(* Lemmas about the data                                                   *)
(***************************************************************************)
Elements(s) == {s[x] : x \in DOMAIN s}
NoRepeats(s) == \A x, y \in DOMAIN s : s[x] = s[y] => x = y

\* swap_remove drops exactly the chosen element of a Vec without repetitions.
LEMMA SwapRemoveDrops ==
  ASSUME NEW S, NEW s \in Seq(S), NEW k \in 1..Len(s), NoRepeats(s)
  PROVE  /\ SwapRemove(s, k) \in Seq(S)
         /\ NoRepeats(SwapRemove(s, k))
         /\ Elements(SwapRemove(s, k)) = Elements(s) \ {s[k]}
<1> DEFINE t == SwapRemove(s, k)
<1>1. /\ Len(s) \in Nat /\ DOMAIN s = 1..Len(s)
      /\ \A x \in 1..Len(s) : s[x] \in S
  OBVIOUS
<1>2. t \in Seq(S) /\ Len(t) = Len(s) - 1 /\ DOMAIN t = 1..(Len(s) - 1)
  BY <1>1 DEF SwapRemove
<1>3. \A x \in DOMAIN t : t[x] = IF x = k THEN s[Len(s)] ELSE s[x]
  BY <1>2 DEF SwapRemove
<1> HIDE DEF t
<1>4. NoRepeats(t)
  BY <1>1, <1>2, <1>3 DEF NoRepeats
<1>5. \A x \in DOMAIN t : t[x] \in Elements(s) \ {s[k]}
  BY <1>1, <1>2, <1>3 DEF NoRepeats, Elements
<1>6. ASSUME NEW y \in DOMAIN s, s[y] # s[k]
      PROVE  \E x \in DOMAIN t : t[x] = s[y]
  <2>1. CASE y = Len(s)
    BY <1>1, <1>2, <1>3, <1>6, <2>1
  <2>2. CASE y # Len(s)
    BY <1>1, <1>2, <1>3, <1>6, <2>2
  <2> QED
    BY <2>1, <2>2
<1>7. Elements(t) = Elements(s) \ {s[k]}
  BY <1>5, <1>6 DEF Elements
<1> QED
  BY <1>2, <1>4, <1>7 DEF t

\* A nonempty set of naturals has a least element.
LEMMA LeastElement ==
  ASSUME NEW S, S \subseteq Nat, S # {}
  PROVE  \E m \in S : \A x \in S : m <= x
<1>1. PICK m \in S : \A x \in S : <<x, m>> \notin OpToRel(<, Nat)
  BY NatLessThanWellFounded, WFMin, Zenon
<1>2. \A x \in S : ~(x < m)
  BY <1>1 DEF OpToRel
<1> QED
  BY <1>2

LEMMA IntervalSize ==
  ASSUME NEW n \in Nat
  PROVE  IsFiniteSet(1..n) /\ Cardinality(1..n) = n
BY FS_Interval

LEMMA DisjointUnion ==
  ASSUME NEW S, IsFiniteSet(S), NEW T, IsFiniteSet(T), S \cap T = {}
  PROVE  Cardinality(S \cup T) = Cardinality(S) + Cardinality(T)
<1>1. Cardinality(S \cup T) = Cardinality(S) + Cardinality(T) - Cardinality(S \cap T)
  BY FS_Union
<1>2. Cardinality(S \cap T) = 0
  BY FS_EmptySet
<1>3. Cardinality(S) \in Nat /\ Cardinality(T) \in Nat
  BY FS_CardinalityType
<1> QED
  BY <1>1, <1>2, <1>3

\* The retired commands are finitely many, no more than the stream has.
LEMMA DoneFinite ==
  ASSUME FabricTypeOK
  PROVE  /\ IsFiniteSet(done) /\ Cardinality(done) \in Nat
         /\ Cardinality(done) <= Len(stream)
         /\ done = Cmds => Cardinality(done) = Len(stream)
<1>1. Len(stream) \in Nat /\ done \subseteq 1..Len(stream)
  BY DEF FabricTypeOK, Cmds
<1>2. IsFiniteSet(1..Len(stream)) /\ Cardinality(1..Len(stream)) = Len(stream)
  BY <1>1, FS_Interval
<1> QED
  BY <1>1, <1>2, FS_Subset, FS_CardinalityType DEF Cmds

\* The budget of the whole run covers what the single commands may use.
LEMMA Budget ==
  ASSUME NEW n \in Nat, NEW m \in Nat, n <= m
  PROVE  /\ SetAside(n) \in Nat /\ SetAside(n) <= SetAside(m)
         /\ SetAside(n) + 4 <= SetAside(n + 1)
         /\ SetAside(n) + CycleBudget + 1 <= SetAside(n + 1)
         /\ SetAside(1 + m) = SetAside(m + 1)
         /\ SetAside(0) = 0
<1>1. CycleBudget \in Nat /\ CycleBudget >= 1
  BY FabricAssumption
<1>2. PICK K \in Nat : K = 4 * CycleBudget
  BY <1>1
<1>3. K >= CycleBudget + 1 /\ K >= 4
  BY <1>1, <1>2
<1>4. K * n \in Nat /\ K * (n + 1) = K * n + K /\ K * 0 = 0 /\ K * (1 + m) = K * (m + 1)
  BY <1>2
<1>5. K * n <= K * m
  <2>1. PICK d \in Nat : m = n + d
    BY n \in Nat, m \in Nat, n <= m
  <2>2. K * m = K * n + K * d /\ K * d \in Nat
    BY <1>2, <2>1
  <2> QED
    BY <1>4, <2>2
<1>6. \A x : SetAside(x) = K * x
  BY <1>2 DEF SetAside
<1> QED
  BY <1>1, <1>3, <1>4, <1>5, <1>6

LEMMA NoFlightTyped == DOMAIN NoFlight = {} /\ NoFlight \in [{} -> Nat]
BY DEF NoFlight

(***************************************************************************)
(* One lemma per action                                                    *)
(***************************************************************************)
LEMMA InitInv == FabricInit => FabricInv
<1> SUFFICES ASSUME FabricInit PROVE FabricInv
  OBVIOUS
<1> USE DEF FabricInit
<1>1. Cmds = {} /\ PendingSet = {} /\ FlightSet = {}
  BY DEF Cmds, PendingSet, FlightSet, NoFlight
<1>2. FabricTypeOK
  <2>1. IsStream(stream) /\ pending \in Seq(Cmds)
    BY DEF IsStream
  <2>2. in_flight \in [FlightSet -> Nat]
    BY <1>1, NoFlightTyped
  <2>3. i \in Nat \ {0} /\ retired \subseteq Nat /\ total_cycles \in Nat /\ completions \in Nat
    OBVIOUS
  <2>4. launched_any \in BOOLEAN
    OBVIOUS
  <2>5. pc \in {"idle", "scan", "tick"} /\ result \in Result
    BY DEF Result
  <2> QED
    BY <1>1, <2>1, <2>2, <2>3, <2>4, <2>5 DEF FabricTypeOK
<1>3. ExactlyOnce /\ RetiredTokens /\ TokenWait /\ ScanFoundNothing /\ LoopShape
  BY <1>1 DEF ExactlyOnce, RetiredTokens, TokenWait, ScanFoundNothing, LoopShape
<1>4. Counted /\ CyclesPaid
  BY FS_EmptySet DEF Counted, CyclesPaid
<1> QED
  BY <1>2, <1>3, <1>4 DEF FabricInv, OkMeansAll, NeverStuck, GlobalCapLoose

LEMMA RunInv ==
  ASSUME NEW s, IsStream(s), Run(s)
  PROVE  FabricInv'
<1> USE DEF Run
<1>1. IsStream(s) /\ Len(s) \in Nat
  BY DEF IsStream
<1>2. Cmds' = 1..Len(s) /\ PendingSet' = 1..Len(s) /\ FlightSet' = {}
  BY <1>1 DEF Cmds, PendingSet, FlightSet, NoFlight
<1>3. pending' \in Seq(Cmds') /\ Len(pending') = Len(s)
  BY <1>1, <1>2
<1>4. /\ i' = 1 /\ launched_any' = FALSE
      /\ \/ pc' = "idle" /\ result' = "ok" /\ Len(s) = 0
         \/ pc' = "scan" /\ result' = "running"
  BY <1>3 DEF LoopTop, AllDone
<1>5. FabricTypeOK'
  <2>1. IsStream(stream') /\ pending' \in Seq(Cmds')
    BY <1>1, <1>3
  <2>2. in_flight' \in [FlightSet' -> Nat]
    BY <1>2, NoFlightTyped
  <2>3. /\ i' \in Nat \ {0} /\ retired' \subseteq Nat
        /\ total_cycles' \in Nat /\ completions' \in Nat
    BY <1>4
  <2>4. launched_any' \in BOOLEAN
    BY <1>4
  <2>5. pc' \in {"idle", "scan", "tick"} /\ result' \in Result
    BY <1>4 DEF Result
  <2>6. FlightSet' \subseteq Cmds' /\ done' \subseteq Cmds'
    BY <1>2
  <2> QED
    BY <2>1, <2>2, <2>3, <2>4, <2>5, <2>6 DEF FabricTypeOK
<1>6. ExactlyOnce' /\ RetiredTokens' /\ TokenWait' /\ LoopShape'
  BY <1>1, <1>2, <1>3, <1>4 DEF ExactlyOnce, RetiredTokens, TokenWait, LoopShape
<1>7. ScanFoundNothing'
  BY <1>1, <1>4 DEF ScanFoundNothing
<1>8. Counted'
  BY FS_EmptySet DEF Counted
<1>9. CyclesPaid'
  <2>1. SetAside(0) = 0
    BY Budget
  <2> QED
    BY <1>2, <2>1 DEF CyclesPaid
<1>10. OkMeansAll' /\ NeverStuck' /\ GlobalCapLoose'
  BY <1>2, <1>4 DEF OkMeansAll, NeverStuck, GlobalCapLoose
<1> QED
  BY <1>5, <1>6, <1>7, <1>8, <1>9, <1>10 DEF FabricInv

\* Steps that move nothing between pending, in flight and retired.
StillLife == UNCHANGED <<stream, pending, in_flight, retired, total_cycles,
                         completions, done>>

LEMMA StillInv ==
  ASSUME FabricInv, StillLife
  PROVE  /\ ExactlyOnce' /\ RetiredTokens' /\ TokenWait' /\ Counted'
         /\ Cmds' = Cmds /\ FlightSet' = FlightSet
         /\ (pc' \in {"idle", "scan", "tick"} /\ i' \in Nat \ {0}
               /\ launched_any' \in BOOLEAN /\ result' \in Result) => FabricTypeOK'
         /\ (result' = "running" => result = "running") => CyclesPaid'
<1> USE DEF StillLife
<1>1. Cmds' = Cmds /\ FlightSet' = FlightSet /\ PendingSet' = PendingSet
  BY DEF Cmds, FlightSet, PendingSet
<1>2. ExactlyOnce' /\ RetiredTokens' /\ TokenWait' /\ Counted'
  BY <1>1 DEF FabricInv, ExactlyOnce, RetiredTokens, TokenWait, Counted
<1>3. (pc' \in {"idle", "scan", "tick"} /\ i' \in Nat \ {0}
               /\ launched_any' \in BOOLEAN /\ result' \in Result) => FabricTypeOK'
  BY <1>1 DEF FabricInv, FabricTypeOK
<1>4. (result' = "running" => result = "running") => CyclesPaid'
  BY <1>1 DEF FabricInv, CyclesPaid
<1> QED
  BY <1>1, <1>2, <1>3, <1>4

LEMMA SkipInv ==
  ASSUME FabricInv, Skip
  PROVE  FabricInv'
<1>1. StillLife /\ UNCHANGED <<pc, result, launched_any>>
  BY DEF Skip, StillLife
<1>2. i \in Nat \ {0} /\ i' = i + 1
  BY DEF Skip, FabricInv, FabricTypeOK
<1>3. FabricTypeOK'
  BY <1>1, <1>2, StillInv DEF FabricInv, FabricTypeOK
<1>4. ScanFoundNothing'
  <2>1. UNCHANGED <<pending, stream, retired>> /\ DOMAIN pending \subseteq Nat
    BY <1>1 DEF StillLife, FabricInv, FabricTypeOK
  <2>2. ~CanFire(pending[i]) /\ pc = "scan"
    BY DEF Skip
  <2> QED
    BY <1>1, <1>2, <2>1, <2>2 DEF FabricInv, ScanFoundNothing, CanFire
<1>5. LoopShape' /\ OkMeansAll' /\ NeverStuck' /\ GlobalCapLoose'
  BY <1>1, StillInv
     DEF FabricInv, LoopShape, OkMeansAll, NeverStuck, GlobalCapLoose, StillLife
<1> QED
  BY <1>1, <1>3, <1>4, <1>5, StillInv DEF FabricInv

LEMMA StartTickInv ==
  ASSUME FabricInv, StartTick
  PROVE  FabricInv'
<1>1. StillLife /\ UNCHANGED <<i, result, launched_any>> /\ pc' = "tick"
  BY DEF StartTick, StillLife
<1>2. pc = "scan" /\ FlightSet # {}
  BY DEF StartTick, ScanOver
<1>3. FabricTypeOK'
  BY <1>1, StillInv DEF FabricInv, FabricTypeOK
<1>4. LoopShape' /\ ScanFoundNothing'
  BY <1>1, <1>2, StillInv DEF FabricInv, LoopShape, ScanFoundNothing
<1>5. OkMeansAll' /\ NeverStuck' /\ GlobalCapLoose'
  BY <1>1, StillInv DEF FabricInv, OkMeansAll, NeverStuck, GlobalCapLoose, StillLife
<1> QED
  BY <1>1, <1>3, <1>4, <1>5, StillInv DEF FabricInv

\* A scan that launches nothing while nothing is in flight has met a command
\* that waits for a token no command before it yields: the pending command that
\* comes first in the stream could have been launched otherwise.
LEMMA StuckMeansIllTokened ==
  ASSUME FabricInv, ScanOver, FlightSet = {}, NoProgress
  PROVE  ~WellTokened(stream)
<1> SUFFICES ASSUME WellTokened(stream) PROVE FALSE
  OBVIOUS
<1>1. /\ pending \in Seq(Cmds) /\ pending # <<>> /\ Cmds = 1..Len(stream)
      /\ Len(stream) \in Nat /\ i \in Nat /\ Len(pending) \in Nat
      /\ i > Len(pending) /\ pc = "scan" /\ ~launched_any
  BY DEF FabricInv, FabricTypeOK, ScanOver, NoProgress, Cmds
<1>2. PendingSet \subseteq Nat /\ PendingSet # {} /\ PendingSet \subseteq Cmds
  <2>1. 1 \in DOMAIN pending
    BY <1>1
  <2>2. PendingSet \subseteq Cmds /\ pending[1] \in PendingSet
    BY <1>1, <2>1 DEF PendingSet
  <2> QED
    BY <1>1, <2>2
<1>3. PICK c \in PendingSet : \A x \in PendingSet : c <= x
  BY <1>2, LeastElement
<1>4. ~CanFire(c)
  BY <1>1, <1>3 DEF FabricInv, ScanFoundNothing, PendingSet
<1>5. stream[c].token_in # 0
  BY <1>4 DEF FabricInv, RetiredTokens, CanFire
<1>6. c \in 1..Len(stream)
  BY <1>1, <1>2, <1>3
<1>7. PICK b \in 1..(c - 1) : stream[b].token_out = stream[c].token_in
  BY <1>5, <1>6 DEF WellTokened
<1>8. b \in Cmds /\ b \notin PendingSet
  BY <1>1, <1>3, <1>6, <1>7
<1>9. b \in done
  BY <1>8 DEF FabricInv, ExactlyOnce
<1> QED
  BY <1>4, <1>7, <1>9 DEF FabricInv, RetiredTokens, CanFire

LEMMA ReportStuckInv ==
  ASSUME FabricInv, ReportStuck
  PROVE  FabricInv'
<1>1. /\ StillLife /\ UNCHANGED <<i, launched_any>>
      /\ pc' = "idle" /\ result' = "stuck"
  BY DEF ReportStuck, Return, StillLife
<1>2. FabricTypeOK'
  BY <1>1, StillInv DEF FabricInv, FabricTypeOK, Result
<1>3. LoopShape' /\ ScanFoundNothing' /\ OkMeansAll' /\ GlobalCapLoose'
  BY <1>1 DEF LoopShape, ScanFoundNothing, OkMeansAll, GlobalCapLoose
<1>4. NeverStuck'
  <2>1. ~WellTokened(stream)
    BY StuckMeansIllTokened DEF ReportStuck
  <2> QED
    BY <1>1, <2>1 DEF NeverStuck, StillLife
<1> QED
  BY <1>1, <1>2, <1>3, <1>4, StillInv DEF FabricInv

LEMMA RescanInv ==
  ASSUME FabricInv, Rescan
  PROVE  FabricInv'
<1>1. /\ StillLife /\ i' = 1 /\ launched_any' = FALSE /\ FlightSet = {}
      /\ pc = "scan"
      /\ \/ pc' = "idle" /\ result' = "ok" /\ pending = <<>>
         \/ pc' = "scan" /\ result' = "running"
  BY DEF Rescan, LoopTop, AllDone, StillLife, ScanOver
<1>2. FabricTypeOK'
  <2>1. pc' \in {"idle", "scan", "tick"} /\ result' \in Result /\ i' \in Nat \ {0}
    BY <1>1 DEF Result
  <2>2. launched_any' \in BOOLEAN
    BY <1>1
  <2> QED
    BY <1>1, <2>1, <2>2, StillInv
<1>3. result = "running"
  BY <1>1 DEF FabricInv, LoopShape
<1>4. LoopShape' /\ GlobalCapLoose' /\ NeverStuck'
  BY <1>1 DEF LoopShape, GlobalCapLoose, NeverStuck
<1>5. ScanFoundNothing'
  <2>1. DOMAIN pending' \subseteq Nat \ {0}
    BY <1>2 DEF FabricTypeOK
  <2> QED
    BY <1>1, <2>1 DEF ScanFoundNothing
<1>6. OkMeansAll'
  <2>1. CASE result' = "ok"
    <3>1. PendingSet = {}
      BY <1>1, <2>1 DEF PendingSet
    <3>2. done = Cmds
      BY <1>1, <3>1 DEF FabricInv, ExactlyOnce
    <3>3. completions = Len(stream)
      BY <3>2, DoneFinite DEF FabricInv, Counted
    <3> QED
      BY <1>1, <3>2, <3>3 DEF OkMeansAll, StillLife, Cmds
  <2> QED
    BY <2>1 DEF OkMeansAll
<1> QED
  BY <1>1, <1>2, <1>3, <1>4, <1>5, <1>6, StillInv DEF FabricInv

\* Taking a ready command out of pending.
LEMMA TakeReady ==
  ASSUME FabricInv, pc = "scan", i <= Len(pending), CanFire(pending[i]),
         pending' = SwapRemove(pending, i), UNCHANGED stream
  PROVE  /\ pending[i] \in Cmds /\ pending[i] \in PendingSet
         /\ pending' \in Seq(Cmds) /\ Cmds' = Cmds
         /\ PendingSet' = PendingSet \ {pending[i]}
         /\ \A j, k \in DOMAIN pending' : pending'[j] = pending'[k] => j = k
         /\ \/ stream[pending[i]].token_in = 0
            \/ \E b \in done : stream[b].token_out = stream[pending[i]].token_in
<1>1. pending \in Seq(Cmds) /\ i \in 1..Len(pending)
  BY DEF FabricInv, FabricTypeOK
<1>2. NoRepeats(pending)
  BY DEF FabricInv, ExactlyOnce, NoRepeats
<1>3. /\ pending' \in Seq(Cmds) /\ NoRepeats(pending')
      /\ Elements(pending') = Elements(pending) \ {pending[i]}
  BY <1>1, <1>2, SwapRemoveDrops
<1>4. pending[i] \in Cmds /\ pending[i] \in PendingSet
  BY <1>1 DEF PendingSet
<1>5. \/ stream[pending[i]].token_in = 0
      \/ \E b \in done : stream[b].token_out = stream[pending[i]].token_in
  BY DEF FabricInv, RetiredTokens, CanFire
<1> QED
  BY <1>3, <1>4, <1>5 DEF PendingSet, Cmds, Elements, NoRepeats

LEMMA LaunchCpuInv ==
  ASSUME FabricInv, LaunchCpu
  PROVE  FabricInv'
<1> DEFINE c == pending[i]
<1>1. /\ pc = "scan" /\ i <= Len(pending) /\ CanFire(c)
      /\ pending' = SwapRemove(pending, i)
      /\ total_cycles' = total_cycles + CycleCost(stream[c].opcode)
      /\ retired' = retired \cup {stream[c].token_out}
      /\ completions' = completions + 1
      /\ done' = done \cup {c}
      /\ launched_any' = TRUE
      /\ UNCHANGED <<pc, stream, i, in_flight, result>>
  BY DEF LaunchCpu
<1>2. /\ c \in Cmds /\ c \in PendingSet /\ pending' \in Seq(Cmds) /\ Cmds' = Cmds
      /\ PendingSet' = PendingSet \ {c}
      /\ \A j, k \in DOMAIN pending' : pending'[j] = pending'[k] => j = k
      /\ \/ stream[c].token_in = 0
         \/ \E b \in done : stream[b].token_out = stream[c].token_in
  BY <1>1, TakeReady
<1>3. FlightSet' = FlightSet
  BY <1>1 DEF FlightSet
<1>4. c \notin done /\ c \notin FlightSet
  BY <1>2 DEF FabricInv, ExactlyOnce
<1>5. DispatchCmd(stream[c])
  BY <1>2 DEF FabricInv, FabricTypeOK, Cmds, IsStream
<1>6. CycleCost(stream[c].opcode) \in 0..4
  BY <1>5 DEF CycleCost, DispatchCmd
<1> HIDE DEF c
<1>7. FabricTypeOK'
  <2>1. retired' \subseteq Nat
    BY <1>1, <1>5 DEF FabricInv, FabricTypeOK, DispatchCmd
  <2>2. total_cycles' \in Nat /\ completions' \in Nat
    BY <1>1, <1>6 DEF FabricInv, FabricTypeOK
  <2>3. launched_any' \in BOOLEAN
    BY <1>1
  <2> QED
    BY <1>1, <1>2, <1>3, <2>1, <2>2, <2>3 DEF FabricInv, FabricTypeOK
<1>8. ExactlyOnce'
  BY <1>1, <1>2, <1>3, <1>4 DEF FabricInv, ExactlyOnce
<1>9. RetiredTokens'
  BY <1>1 DEF FabricInv, RetiredTokens
<1>10. TokenWait'
  BY <1>1, <1>2 DEF FabricInv, TokenWait
<1>11. ScanFoundNothing' /\ LoopShape'
  BY <1>1, <1>3 DEF FabricInv, ScanFoundNothing, LoopShape
<1>12. Counted'
  BY <1>1, <1>4, DoneFinite, FS_AddElement DEF FabricInv, Counted
<1>13. CyclesPaid'
  <2>1. completions \in Nat /\ total_cycles \in Nat /\ \A b \in FlightSet : in_flight[b] \in Nat
    BY DEF FabricInv, FabricTypeOK
  <2>3. /\ SetAside(completions) + 4 <= SetAside(completions + 1)
        /\ SetAside(completions) \in Nat /\ SetAside(completions + 1) \in Nat
    BY <2>1, Budget
  <2>4. SUFFICES ASSUME result = "running" PROVE CyclesPaid'
    BY <1>1 DEF CyclesPaid
  <2>5. \A b \in FlightSet : in_flight[b] <= CycleBudget
    BY <2>4 DEF FabricInv, CyclesPaid
  <2>6. CASE FlightSet = {} /\ total_cycles <= SetAside(completions)
    BY <1>1, <1>3, <1>6, <2>1, <2>3, <2>6 DEF CyclesPaid
  <2>7. CASE \E b \in FlightSet : total_cycles <= SetAside(completions) + in_flight[b]
    BY <1>1, <1>3, <1>6, <2>1, <2>3, <2>5, <2>7 DEF CyclesPaid
  <2> QED
    BY <2>4, <2>6, <2>7 DEF FabricInv, CyclesPaid
<1>14. result = "running"
  BY <1>1 DEF FabricInv, LoopShape
<1>15. OkMeansAll' /\ NeverStuck' /\ GlobalCapLoose'
  BY <1>1, <1>14 DEF OkMeansAll, NeverStuck, GlobalCapLoose
<1> QED
  BY <1>7, <1>8, <1>9, <1>10, <1>11, <1>12, <1>13, <1>15 DEF FabricInv

LEMMA LaunchRtlInv ==
  ASSUME FabricInv, LaunchRtl
  PROVE  FabricInv'
<1> DEFINE c == pending[i]
<1>1. /\ pc = "scan" /\ i <= Len(pending) /\ CanFire(c)
      /\ pending' = SwapRemove(pending, i)
      /\ in_flight' = Launched(c)
      /\ launched_any' = TRUE
      /\ UNCHANGED <<pc, stream, i, retired, total_cycles, completions,
                     result, done>>
  BY DEF LaunchRtl
<1>2. /\ c \in Cmds /\ c \in PendingSet /\ pending' \in Seq(Cmds) /\ Cmds' = Cmds
      /\ PendingSet' = PendingSet \ {c}
      /\ \A j, k \in DOMAIN pending' : pending'[j] = pending'[k] => j = k
      /\ \/ stream[c].token_in = 0
         \/ \E b \in done : stream[b].token_out = stream[c].token_in
  BY <1>1, TakeReady
<1>3. c \notin done /\ c \notin FlightSet
  BY <1>2 DEF FabricInv, ExactlyOnce
<1> HIDE DEF c
<1>4. /\ FlightSet' = FlightSet \cup {c} /\ in_flight'[c] = 0
      /\ \A b \in FlightSet : in_flight'[b] = in_flight[b]
      /\ in_flight' \in [FlightSet' -> Nat]
  <2>1. in_flight \in [FlightSet -> Nat]
    BY DEF FabricInv, FabricTypeOK
  <2> QED
    BY <1>1, <1>3, <2>1 DEF Launched, FlightSet
<1>5. FabricTypeOK'
  <2>1. launched_any' \in BOOLEAN
    BY <1>1
  <2> QED
    BY <1>1, <1>2, <1>4, <2>1 DEF FabricInv, FabricTypeOK
<1>6. ExactlyOnce'
  BY <1>1, <1>2, <1>3, <1>4 DEF FabricInv, ExactlyOnce
<1>7. RetiredTokens' /\ TokenWait' /\ Counted'
  BY <1>1, <1>2 DEF FabricInv, RetiredTokens, TokenWait, Counted
<1>8. ScanFoundNothing' /\ LoopShape'
  BY <1>1, <1>4 DEF FabricInv, ScanFoundNothing, LoopShape
<1>9. CyclesPaid'
  <2>1. completions \in Nat /\ total_cycles \in Nat /\ 0 <= CycleBudget
    BY FabricAssumption DEF FabricInv, FabricTypeOK
  <2>2. SetAside(completions) \in Nat
    BY <2>1, Budget
  <2> QED
    BY <1>1, <1>4, <2>1, <2>2 DEF FabricInv, CyclesPaid
<1>10. result = "running"
  BY <1>1 DEF FabricInv, LoopShape
<1>11. OkMeansAll' /\ NeverStuck' /\ GlobalCapLoose'
  BY <1>1, <1>10 DEF OkMeansAll, NeverStuck, GlobalCapLoose
<1> QED
  BY <1>5, <1>6, <1>7, <1>8, <1>9, <1>11 DEF FabricInv

Gone(shows) == {c \in FlightSet : stream[c].ip \in shows}

\* What one clock does to the commands in flight, and what it costs.
LEMMA TickSplit ==
  ASSUME FabricInv, NEW shows, Tick(shows),
         NEW gone, gone = Gone(shows)
  PROVE  /\ gone \subseteq FlightSet /\ FlightSet' = FlightSet \ gone
         /\ \A c \in FlightSet' : in_flight'[c] = in_flight[c] + 1
         /\ in_flight' \in [FlightSet' -> Nat]
         /\ total_cycles' = total_cycles + 1
         /\ retired' = retired \cup {stream[c].token_out : c \in gone}
         /\ completions' = completions + Cardinality(gone)
         /\ done' = done \cup gone
         /\ UNCHANGED <<stream, pending>>
         /\ pc = "tick" /\ result = "running"
         /\ \/ pc' = "idle" /\ result' = "timeout" /\ UNCHANGED <<i, launched_any>>
            \/ /\ \A c \in FlightSet' : in_flight'[c] <= CycleBudget
               /\ \/ /\ total_cycles' > GlobalBudget
                     /\ pc' = "idle" /\ result' = "global_timeout"
                     /\ UNCHANGED <<i, launched_any>>
                  \/ /\ i' = 1 /\ launched_any' = FALSE
                     /\ \/ /\ pc' = "idle" /\ result' = "ok"
                           /\ pending = <<>> /\ FlightSet' = {}
                        \/ pc' = "scan" /\ result' = "running"
<1>1. /\ in_flight' = [c \in FlightSet \ gone |-> in_flight[c] + 1]
      /\ pc = "tick" /\ total_cycles' = total_cycles + 1
      /\ retired' = retired \cup {stream[c].token_out : c \in gone}
      /\ completions' = completions + Cardinality(gone)
      /\ done' = done \cup gone
      /\ UNCHANGED <<stream, pending>>
  BY DEF Tick, Aged, Gone
<1>2. in_flight \in [FlightSet -> Nat] /\ CycleBudget \in Nat
  BY FabricAssumption DEF FabricInv, FabricTypeOK
<1>3. /\ gone \subseteq FlightSet /\ FlightSet' = FlightSet \ gone
      /\ \A c \in FlightSet' : in_flight'[c] = in_flight[c] + 1
      /\ in_flight' \in [FlightSet' -> Nat]
  BY <1>1, <1>2 DEF FlightSet, Gone
<1>4. result = "running"
  BY <1>1 DEF FabricInv, LoopShape
<1>5. IF \E c \in FlightSet \ gone : in_flight'[c] > CycleBudget THEN Return("timeout")
      ELSE IF total_cycles' > GlobalBudget THEN Return("global_timeout")
      ELSE LoopTop(pending, FlightSet \ gone)
  BY <1>1 DEF Tick, Aged, Gone
<1>6. CASE \E c \in FlightSet \ gone : in_flight'[c] > CycleBudget
  BY <1>1, <1>3, <1>4, <1>5, <1>6 DEF Return
<1>7. CASE ~(\E c \in FlightSet \ gone : in_flight'[c] > CycleBudget)
  <2>1. \A c \in FlightSet' : in_flight'[c] <= CycleBudget
    BY <1>2, <1>3, <1>7
  <2>2. CASE total_cycles' > GlobalBudget
    BY <1>1, <1>3, <1>4, <1>5, <1>7, <2>1, <2>2 DEF Return
  <2>3. CASE ~(total_cycles' > GlobalBudget)
    BY <1>1, <1>3, <1>4, <1>5, <1>7, <2>1, <2>3 DEF LoopTop, AllDone
  <2> QED
    BY <2>2, <2>3
<1> QED
  BY <1>6, <1>7

LEMMA TickInv ==
  ASSUME FabricInv, NEW shows, Tick(shows)
  PROVE  FabricInv'
<1>1. PICK gone : gone = Gone(shows)
  OBVIOUS
<1>2. /\ gone \subseteq FlightSet /\ FlightSet' = FlightSet \ gone
      /\ \A c \in FlightSet' : in_flight'[c] = in_flight[c] + 1
      /\ in_flight' \in [FlightSet' -> Nat]
      /\ total_cycles' = total_cycles + 1
      /\ retired' = retired \cup {stream[c].token_out : c \in gone}
      /\ completions' = completions + Cardinality(gone)
      /\ done' = done \cup gone
      /\ UNCHANGED <<stream, pending>>
      /\ pc = "tick" /\ result = "running"
  BY <1>1, TickSplit
<1>3. \/ pc' = "idle" /\ result' = "timeout" /\ UNCHANGED <<i, launched_any>>
      \/ /\ \A c \in FlightSet' : in_flight'[c] <= CycleBudget
         /\ \/ /\ total_cycles' > GlobalBudget
               /\ pc' = "idle" /\ result' = "global_timeout"
               /\ UNCHANGED <<i, launched_any>>
            \/ /\ i' = 1 /\ launched_any' = FALSE
               /\ \/ pc' = "idle" /\ result' = "ok" /\ pending = <<>> /\ FlightSet' = {}
                  \/ pc' = "scan" /\ result' = "running"
  BY <1>1, TickSplit
<1>4. Cmds' = Cmds /\ PendingSet' = PendingSet
  BY <1>2 DEF Cmds, PendingSet
<1>5. /\ FlightSet \subseteq Cmds /\ done \subseteq Cmds /\ Cmds = 1..Len(stream)
      /\ Len(stream) \in Nat /\ completions \in Nat /\ total_cycles \in Nat
      /\ \A c \in FlightSet : in_flight[c] \in Nat
      /\ \A c \in Cmds : DispatchCmd(stream[c])
      /\ retired \subseteq Nat /\ i \in Nat \ {0} /\ pending \in Seq(Cmds)
      /\ CycleBudget \in Nat
  BY FabricAssumption DEF FabricInv, FabricTypeOK, Cmds, IsStream
<1>6. IsFiniteSet(gone) /\ Cardinality(gone) \in Nat
  <2>1. IsFiniteSet(1..Len(stream))
    BY <1>5, FS_Interval
  <2> QED
    BY <1>2, <1>5, <2>1, FS_Subset, FS_CardinalityType
<1>7. FabricTypeOK'
  <2>1. IsStream(stream') /\ pending' \in Seq(Cmds')
    BY <1>2, <1>4, <1>5 DEF FabricInv, FabricTypeOK
  <2>2. FlightSet' \subseteq Cmds' /\ done' \subseteq Cmds'
    BY <1>2, <1>4, <1>5
  <2>3. retired' \subseteq Nat
    BY <1>2, <1>5 DEF DispatchCmd
  <2>4. total_cycles' \in Nat /\ completions' \in Nat
    BY <1>2, <1>5, <1>6
  <2>5. pc' \in {"idle", "scan", "tick"} /\ result' \in Result
    BY <1>3 DEF Result
  <2>6. i' \in Nat \ {0}
    BY <1>3, <1>5
  <2>7. launched_any' \in BOOLEAN
    BY <1>3, Zenon DEF FabricInv, FabricTypeOK
  <2> QED
    BY <1>2, <2>1, <2>2, <2>3, <2>4, <2>5, <2>6, <2>7 DEF FabricTypeOK
<1>8. ExactlyOnce'
  BY <1>2, <1>4 DEF FabricInv, ExactlyOnce
<1>9. RetiredTokens' /\ TokenWait'
  BY <1>2, <1>4 DEF FabricInv, RetiredTokens, TokenWait
<1>10. ScanFoundNothing'
  BY <1>2, <1>3, <1>5 DEF ScanFoundNothing
<1>11. LoopShape'
  BY <1>3 DEF LoopShape
<1>12. Counted'
  <2>1. done \cap gone = {}
    BY <1>2 DEF FabricInv, ExactlyOnce
  <2>2. IsFiniteSet(done)
    BY DoneFinite DEF FabricInv
  <2>3. Cardinality(done \cup gone) = Cardinality(done) + Cardinality(gone)
    BY <1>6, <2>1, <2>2, DisjointUnion
  <2> QED
    BY <1>2, <2>3 DEF FabricInv, Counted
<1>13. ASSUME \A c \in FlightSet' : in_flight'[c] <= CycleBudget
       PROVE  \/ FlightSet' = {} /\ total_cycles' <= SetAside(completions')
              \/ \E c \in FlightSet' : total_cycles' <= SetAside(completions') + in_flight'[c]
  <2>1. FlightSet # {}
    BY <1>2 DEF FabricInv, LoopShape
  <2>2. PICK c \in FlightSet : /\ total_cycles <= SetAside(completions) + in_flight[c]
                               /\ in_flight[c] <= CycleBudget
    BY <1>2, <2>1 DEF FabricInv, CyclesPaid
  <2>3. completions' \in Nat /\ completions <= completions'
    BY <1>2, <1>5, <1>6
  <2>4. /\ SetAside(completions) \in Nat /\ SetAside(completions') \in Nat
        /\ SetAside(completions) <= SetAside(completions')
    <3>1. PICK n \in Nat, m \in Nat : n = completions /\ m = completions' /\ n <= m
      BY <1>5, <2>3
    <3> QED
      BY <3>1, Budget
  <2>5. CASE c \notin gone
    BY <1>2, <1>5, <2>2, <2>4, <2>5
  <2>6. CASE c \in gone
    <3>1. Cardinality(gone) # 0
      BY <1>6, <2>6, FS_EmptySet
    <3>2. completions + 1 <= completions'
      BY <1>2, <1>5, <1>6, <3>1
    <3>3. /\ SetAside(completions) + CycleBudget + 1 <= SetAside(completions + 1)
          /\ SetAside(completions + 1) <= SetAside(completions')
          /\ SetAside(completions + 1) \in Nat
      <4>1. PICK n \in Nat, m \in Nat : n = completions /\ m = completions' /\ n + 1 <= m
        BY <1>5, <2>3, <3>2
      <4>2. SetAside(n) + CycleBudget + 1 <= SetAside(n + 1)
        BY Budget
      <4>3. SetAside(n + 1) <= SetAside(m) /\ SetAside(n + 1) \in Nat
        BY <4>1, Budget
      <4> QED
        BY <4>1, <4>2, <4>3
    <3>4. total_cycles' <= SetAside(completions')
      BY <1>2, <1>5, <2>2, <2>4, <3>3
    <3>5. \A b \in FlightSet' : in_flight'[b] \in Nat
      BY <1>2
    <3> QED
      BY <1>2, <1>5, <2>4, <3>4, <3>5
  <2> QED
    BY <2>5, <2>6
<1>14. CyclesPaid'
  BY <1>3, <1>13 DEF CyclesPaid
<1>15. GlobalCapLoose'
  <2> SUFFICES ASSUME \A c \in FlightSet' : in_flight'[c] <= CycleBudget
               PROVE  ~(total_cycles' > GlobalBudget)
    BY <1>3 DEF GlobalCapLoose
  <2>1. completions' \in Nat /\ completions' <= Len(stream)
    <3>1. FabricTypeOK' /\ Counted' /\ stream' = stream
      BY <1>2, <1>7, <1>12
    <3>2. IsFiniteSet(1..Len(stream)) /\ Cardinality(1..Len(stream)) = Len(stream)
      BY <1>5, IntervalSize
    <3>3. done' \subseteq 1..Len(stream)
      BY <1>2, <1>5
    <3>4. Cardinality(done') <= Len(stream)
      BY <3>2, <3>3, FS_Subset
    <3> QED
      BY <3>1, <3>4 DEF Counted, FabricTypeOK
  <2>2. /\ SetAside(completions') <= SetAside(Len(stream))
        /\ SetAside(completions') \in Nat /\ SetAside(Len(stream)) \in Nat
        /\ SetAside(Len(stream) + 1) \in Nat
        /\ SetAside(Len(stream)) + CycleBudget + 1 <= SetAside(Len(stream) + 1)
        /\ SetAside(1 + Len(stream)) = SetAside(Len(stream) + 1)
    BY <1>5, <2>1, Budget
  <2>3. GlobalBudget = SetAside(1 + Len(stream))
    BY DEF GlobalBudget, SetAside
  <2>4. total_cycles' \in Nat /\ \A c \in FlightSet' : in_flight'[c] \in Nat
    BY <1>2, <1>5
  <2>5. total_cycles' <= SetAside(completions') + CycleBudget
    BY <1>5, <1>13, <2>2, <2>4
  <2> QED
    BY <1>5, <2>2, <2>3, <2>4, <2>5
<1>16. NeverStuck'
  BY <1>3 DEF NeverStuck
<1>17. OkMeansAll'
  <2> SUFFICES ASSUME result' = "ok" PROVE done' = Cmds' /\ completions' = Len(stream')
    BY DEF OkMeansAll
  <2>1. pending' = <<>> /\ FlightSet' = {}
    BY <1>2, <1>3
  <2>2. PendingSet' = {}
    BY <2>1 DEF PendingSet
  <2>3. done' = Cmds'
    BY <1>8, <2>1, <2>2 DEF ExactlyOnce
  <2>4. Cardinality(1..Len(stream)) = Len(stream)
    BY <1>5, IntervalSize
  <2> QED
    BY <1>2, <1>4, <1>5, <1>12, <2>3, <2>4 DEF Counted
<1> QED
  BY <1>7, <1>8, <1>9, <1>10, <1>11, <1>12, <1>14, <1>15, <1>16, <1>17 DEF FabricInv

(***************************************************************************)
(* The theorems                                                            *)
(***************************************************************************)
LEMMA StutterInv ==
  ASSUME FabricInv, UNCHANGED fabricVars
  PROVE  FabricInv'
<1>1. Cmds' = Cmds /\ FlightSet' = FlightSet /\ PendingSet' = PendingSet
  BY DEF Cmds, FlightSet, PendingSet, fabricVars
<1> QED
  BY <1>1 DEF fabricVars, FabricInv, FabricTypeOK, ExactlyOnce, RetiredTokens,
     TokenWait, ScanFoundNothing, CanFire, LoopShape, Counted, CyclesPaid,
     OkMeansAll, NeverStuck, GlobalCapLoose

LEMMA StepInv ==
  ASSUME FabricInv, FabricStep
  PROVE  FabricInv'
<1>1. CASE Skip
  BY <1>1, SkipInv
<1>2. CASE LaunchCpu
  BY <1>2, LaunchCpuInv
<1>3. CASE LaunchRtl
  BY <1>3, LaunchRtlInv
<1>4. CASE StartTick
  BY <1>4, StartTickInv
<1>5. CASE ReportStuck
  BY <1>5, ReportStuckInv
<1>6. CASE Rescan
  BY <1>6, RescanInv
<1>7. CASE \E shows \in SUBSET UniqueIps : Tick(shows)
  BY <1>7, TickInv
<1> QED
  BY <1>1, <1>2, <1>3, <1>4, <1>5, <1>6, <1>7 DEF FabricStep

\* Fabric::run keeps its books in every state of every run: the strengthened
\* invariant that the results below are read off from.
THEOREM FabricSafe == FabricSpec => []FabricInv
<1>1. FabricInit => FabricInv
  BY InitInv
<1>2. FabricInv /\ [FabricNext]_fabricVars => FabricInv'
  <2> SUFFICES ASSUME FabricInv, [FabricNext]_fabricVars PROVE FabricInv'
    OBVIOUS
  <2>1. CASE FabricStep
    BY <2>1, StepInv
  <2>2. CASE \E s \in Streams : Run(s)
    BY <2>2, RunInv, FabricAssumption
  <2>3. CASE UNCHANGED fabricVars
    BY <2>3, StutterInv
  <2> QED
    BY <2>1, <2>2, <2>3 DEF FabricNext
<1> QED
  BY <1>1, <1>2, PTL DEF FabricSpec

\* The variables of Fabric::run keep their types.
THEOREM FabricTyped == FabricSpec => []FabricTypeOK
<1>1. FabricInv => FabricTypeOK
  BY DEF FabricInv
<1> QED
  BY <1>1, FabricSafe, PTL

\* swap_remove, the drain of in_flight and the immediate retirement of CPU
\* commands lose and repeat no command of a stream.
THEOREM CommandsExactlyOnce == FabricSpec => []ExactlyOnce
<1>1. FabricInv => ExactlyOnce
  BY DEF FabricInv
<1> QED
  BY <1>1, FabricSafe, PTL

\* No command is launched before its token_in has retired.
THEOREM TokensRespected == FabricSpec => []TokenWait
<1>1. FabricInv => TokenWait
  BY DEF FabricInv
<1> QED
  BY <1>1, FabricSafe, PTL

\* Fabric::run returns Ok only after all commands have retired and been counted.
THEOREM OkIsComplete == FabricSpec => []OkMeansAll
<1>1. FabricInv => OkMeansAll
  BY DEF FabricInv
<1> QED
  BY <1>1, FabricSafe, PTL

\* Fabric::run never returns TokenResolutionStuck for a well-tokened stream.
THEOREM WellTokenedNeverStuck == FabricSpec => []NeverStuck
<1>1. FabricInv => NeverStuck
  BY DEF FabricInv
<1> QED
  BY <1>1, FabricSafe, PTL

\* The global cap of Fabric::run never fires: the budgets of the single commands
\* give out first, whatever the IPs do and however long the stream.
THEOREM GlobalCapNeverFires == FabricSpec => []GlobalCapLoose
<1>1. FabricInv => GlobalCapLoose
  BY DEF FabricInv
<1> QED
  BY <1>1, FabricSafe, PTL
============================================================================
