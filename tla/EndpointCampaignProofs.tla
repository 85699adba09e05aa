---------------------- MODULE EndpointCampaignProofs ----------------------
(***************************************************************************)
(* The rounds of EndpointCampaign: after each of them every endpoint holds *)
(* the evidence that the driver checks, or that of its injected fault.     *)
(***************************************************************************)
EXTENDS EndpointCampaign, DataLemmas

(***************************************************************************)
(* The inductive invariant                                                 *)
(***************************************************************************)
InRound == stage \in {"submit", "drain", "check", "raised"}
Queued == {queue[i] : i \in DOMAIN queue}

\* The fields of struct CXLSlugArchState.
StructFields ==
  {"state", "error", "epoch", "desc", "capacity", "log", "committed", "finished",
   "compute_start", "compute_end", "link_start", "link_end", "queue_wait", "rejected",
   "requests", "completions", "failures", "phase", "input", "output", "failure", "timer"}

IsStruct(s) == DOMAIN s = StructFields /\ s.epoch \in Nat

\* The record of this round's job.
RoundRecord(s, kind, time, committed, data) ==
  [kind |-> kind, epoch |-> s.epoch, sequence |-> kind,
   job |-> [job |-> JobNumber, src |-> SRC, dst |-> DST, words |-> words, scalar |-> scalar],
   time |-> time, committed |-> committed, digest |-> data]
RequestRecord(d, s) == RoundRecord(s, 1, s.desc["release"], 0, Input(d))

\* An endpoint whose job is still to come: acknowledged, with its input in place.
Waiting(d) ==
  /\ ep[d].state = IDLE /\ ep[d].timer = Disarmed /\ ep[d].log = <<>>
  /\ ep[d].capacity = Capacity(d, round)
  /\ \A i \in 1..words : ram[d][i - 1] = Inputs[d][i]
  /\ Area(d) = Untouched

\* Its job is under way; the only fault that lets it come so far is the one of
\* the completion.
RoundJob(d, s) ==
  /\ s.desc["job"] = JobNumber /\ s.desc["src"] = SRC /\ s.desc["dst"] = DST
  /\ s.desc["words"] = words /\ s.desc["scalar"] = scalar
  /\ s.desc["fault"] = IF FaultAt(d, round) THEN 2 ELSE 0
  /\ FaultAt(d, round) => case = "completion_failure"
Running(d) ==
  LET s == ep[d]
      landed == s.phase = "RECORD_END"
  IN  /\ s.state = BUSY /\ s.timer \in Nat /\ s.error = "E_NONE" /\ RoundJob(d, s)
      /\ s.input = Input(d)
      /\ s.log = IF Gate(d) THEN <<RequestRecord(d, s)>> ELSE <<>>
      /\ s.phase # "COMPUTE_END" => s.output = oracle(d)
      /\ s.committed = IF landed THEN 1 ELSE 0
      /\ Area(d) = IF landed THEN oracle(d) ELSE Untouched

\* Its job is over.
DoneEvidence(d) ==
  /\ ep[d].state = DONE /\ ep[d].committed = 1 /\ ep[d].error = "E_NONE"
  /\ Area(d) = oracle(d)
  /\ IF Gate(d) THEN validate_records(d) ELSE ep[d].log = <<>>
FailedEvidence(d) ==
  LET post == case = "completion_failure"
      commit == IF post THEN 1 ELSE 0
  IN  /\ ep[d].state = IF post THEN POSTFAIL ELSE PREFAIL
      /\ ep[d].error = FaultError
      /\ ep[d].committed = commit /\ ep[d].failure.committed = commit
      /\ Area(d) = IF post THEN oracle(d) ELSE Untouched
      /\ Len(ep[d].log) = commit
Ended(d) ==
  /\ ep[d].state # BUSY /\ ep[d].timer = Disarmed
  /\ IF FaultAt(d, round) THEN FailedEvidence(d) ELSE DoneEvidence(d)

EndpointOK(d) ==
  /\ IsStruct(ep[d]) /\ DOMAIN ram[d] = Word
  /\ stage = "start" => ep[d].state # BUSY /\ ep[d].timer = Disarmed
  /\ InRound => IF d \in Queued THEN Waiting(d) ELSE Running(d) \/ Ended(d)

CampaignType ==
  /\ present = Dev /\ ep = [d \in Dev |-> ep[d]] /\ ram = [d \in Dev |-> ram[d]]
  /\ words \in Sizes /\ case \in Cases /\ now \in Nat /\ link_free_ns \in Nat
  /\ stage \in {"start", "submit", "drain", "check", "raised"}
  /\ queue \in Seq(Dev) /\ \A i, j \in DOMAIN queue : queue[i] = queue[j] => i = j

\* A serial round has one job at a time.
DrainedInv ==
  /\ stage = "check" => queue = <<>> /\ Busy = {}
  /\ stage = "submit" /\ schedule = "serial" => Busy = {}

RoundInv == CampaignType /\ DrainedInv /\ \A d \in Dev : EndpointOK(d)

(***************************************************************************)
(* Sizes, memory and the descriptor                                        *)
(***************************************************************************)
LEMMA WordsFacts ==
  ASSUME CampaignType
  PROVE  /\ words \in Nat /\ 1 <= words /\ words <= MaxWords /\ MaxWords \in Nat
         /\ MemWords \in Nat /\ MaxWords + words <= MemWords
BY CampaignAssumption, SizeAssumption DEF CampaignType

LEMMA EightTimes ==
  ASSUME NEW n \in Nat
  PROVE  (8 * n) \div 8 = n /\ (8 * n) % 8 = 0
OBVIOUS

\* What the driver stores into the target area is what stands there.
LEMMA StoredArea ==
  ASSUME CampaignType, NEW mem, NEW out, DOMAIN out = 1..words, NEW i \in 1..words
  PROVE  Stored(mem, DST, out)[MaxWords + i - 1] = out[i]
<1>1. DST \div 8 = MaxWords
  BY WordsFacts, EightTimes DEF DST
<1>2. MaxWords + i - 1 \in Word /\ (MaxWords + i - 1) - MaxWords + 1 = i
  BY WordsFacts DEF Word
<1>3. QED BY <1>1, <1>2 DEF Stored

LEMMA FrozenInput ==
  ASSUME NEW mem, NEW d, \A i \in 1..words : mem[i - 1] = Inputs[d][i], words \in Nat
  PROVE  Snapshot(mem, SRC, words) = Input(d)
<1>1. SRC \div 8 = 0
  BY EightTimes DEF SRC
<1>2. \A i \in 1..words : (SRC \div 8) + i - 1 = i - 1
  BY <1>1
<1>3. QED BY <1>2 DEF Snapshot, Input

LEMMA JobDomain ==
  ASSUME NEW d
  PROVE  DOMAIN oracle(d) = 1..words
BY DEF oracle, VectorJob, Input

LEMMA SerializedNat ==
  ASSUME CampaignType
  PROVE  Serialization(words) \in Nat /\ words * ComputeNs \in Nat
<1>1. words \in Nat /\ ComputeNs \in Nat /\ Bandwidth \in Nat \ {0}
  BY WordsFacts, CostAssumption
<1>2. 8 * words + Bandwidth - 1 \in Nat
  BY <1>1
<1>3. \A a \in Nat, b \in Nat \ {0} : a \div b \in Nat
  OBVIOUS
<1>4. \A a, b \in Nat : a * b \in Nat
  OBVIOUS
<1>5. QED BY <1>1, <1>2, <1>3, <1>4 DEF Serialization

LEMMA CostNat ==
  ASSUME NEW d
  PROVE  RecordCost(d) \in Nat
BY CostAssumption DEF RecordCost

LEMMA JobRecord ==
  ASSUME NEW d, NEW s, RoundJob(d, s), NEW kind, NEW data, NEW t
  PROVE  Job(s) = [job |-> JobNumber, src |-> SRC, dst |-> DST, words |-> words, scalar |-> scalar]
BY DEF Job, JobField, RoundJob

(***************************************************************************)
(* What the device does to its structure                                   *)
(***************************************************************************)
\* The structure that submit() looks at.
Presented(d) == Cleared([ep[d] EXCEPT !.desc = Descriptor(d)])

LEMMA PresentedFacts ==
  ASSUME NEW d, IsStruct(ep[d])
  PROVE  LET s == Presented(d)
         IN  /\ IsStruct(s) /\ s.desc = Descriptor(d) /\ s.epoch = ep[d].epoch /\ s.log = ep[d].log
             /\ s.committed = 0 /\ s.error = "E_NONE" /\ s.capacity = ep[d].capacity
             /\ s.timer = ep[d].timer /\ s.state = ep[d].state
BY DEF Presented, Cleared, IsStruct, StructFields

LEMMA FailFacts ==
  ASSUME NEW s, IsStruct(s), NEW error, NEW t
  PROVE  LET n == Fail(s, error, t)
         IN  /\ IsStruct(n) /\ n.error = error /\ n.log = s.log /\ n.timer = s.timer
             /\ n.committed = s.committed
             /\ s.committed = 1 => n.state = POSTFAIL
             /\ s.committed # 1 => n.state = PREFAIL
             /\ n.failure.committed = s.committed
BY DEF Fail, IsStruct, StructFields, Record

LEMMA AcceptFacts ==
  ASSUME NEW s, IsStruct(s), NEW d, NEW mem, NEW t, NEW n, n = Accept(s, d, mem, t),
         NEW input, input = Snapshot(mem, s.desc["src"], s.desc["words"])
  PROVE  /\ IsStruct(n) /\ n.state = BUSY /\ n.error = s.error /\ n.desc = s.desc
         /\ n.epoch = s.epoch /\ n.input = input /\ n.phase = "COMPUTE_END"
         /\ n.committed = s.committed
         /\ n.timer = (s.desc["release"] + RecordCost(d)) + s.desc["words"] * ComputeNs
         /\ n.log = IF Gate(d) THEN Append(s.log, Record(s, Request, input, t)) ELSE s.log
BY DEF Accept, IsStruct, StructFields

LEMMA FinishedFacts ==
  ASSUME NEW s, IsStruct(s), NEW d, NEW t
  PROVE  LET n == Finished(s, d, t)
         IN  /\ IsStruct(n) /\ n.state = DONE /\ n.error = s.error /\ n.desc = s.desc
             /\ n.epoch = s.epoch /\ n.committed = s.committed /\ n.timer = Disarmed
             /\ n.finished = t
             /\ n.log = IF Gate(d) THEN Append(s.log, Record(s, Completion, s.output, t)) ELSE s.log
BY DEF Finished, IsStruct, StructFields

\* The descriptor of this round's job, and what submit() says to it.
LEMMA DescriptorFacts ==
  ASSUME NEW d
  PROVE  LET desc == Descriptor(d)
         IN  /\ desc["job"] = JobNumber /\ desc["src"] = SRC /\ desc["words"] = words
             /\ desc["scalar"] = scalar /\ desc["release"] = now
             /\ ~(FaultAt(d, round) /\ case = "stale_epoch") => desc["job_epoch"] = ep[d].epoch
             /\ FaultAt(d, round) /\ case = "stale_epoch" => desc["job_epoch"] = ep[d].epoch - 1
             /\ ~(FaultAt(d, round) /\ case = "invalid_range") => desc["dst"] = DST
             /\ FaultAt(d, round) /\ case = "invalid_range" => desc["dst"] = MaxReg - 7
             /\ ~FaultAt(d, round) => desc["fault"] = 0
             /\ FaultAt(d, round) =>
                  /\ case = "request_failure" => desc["fault"] = 1
                  /\ case = "completion_failure" => desc["fault"] = 2
                  /\ case \notin {"request_failure", "completion_failure"} => desc["fault"] = 0
<1> DEFINE desc == Descriptor(d)
<1>1. /\ desc["job"] = JobNumber /\ desc["src"] = SRC /\ desc["words"] = words
      /\ desc["scalar"] = scalar /\ desc["release"] = now
  BY DEF Descriptor
<1>2. /\ ~(FaultAt(d, round) /\ case = "stale_epoch") => desc["job_epoch"] = ep[d].epoch
      /\ FaultAt(d, round) /\ case = "stale_epoch" => desc["job_epoch"] = ep[d].epoch - 1
  BY DEF Descriptor
<1>3. /\ ~(FaultAt(d, round) /\ case = "invalid_range") => desc["dst"] = DST
      /\ FaultAt(d, round) /\ case = "invalid_range" => desc["dst"] = MaxReg - 7
  BY DEF Descriptor
<1>4. /\ ~FaultAt(d, round) => desc["fault"] = 0
      /\ FaultAt(d, round) =>
           /\ case = "request_failure" => desc["fault"] = 1
           /\ case = "completion_failure" => desc["fault"] = 2
           /\ case \notin {"request_failure", "completion_failure"} => desc["fault"] = 0
  BY DEF Descriptor
<1>5. QED BY <1>1, <1>2, <1>3, <1>4

LEMMA RangesValid ==
  ASSUME CampaignType
  PROVE  /\ RangeValid(SRC, 8 * words) /\ RangeValid(DST, 8 * words)
         /\ ~RangeValid(MaxReg - 7, 8 * words)
<1>1. /\ RangeValid(SRC, 8 * words)
  BY WordsFacts DEF RangeValid, SRC
<1>2. RangeValid(DST, 8 * words)
  BY WordsFacts, EightTimes DEF RangeValid, DST
<1>3. ~RangeValid(MaxReg - 7, 8 * words)
  BY WordsFacts, CampaignAssumption, SizeAssumption DEF RangeValid
<1>4. QED BY <1>1, <1>2, <1>3

\* A job without a fault, or with the fault of the completion, is accepted; every
\* other fault is found for what it is.
LEMMA Verdict ==
  ASSUME CampaignType, NEW d \in Dev, IsStruct(ep[d]), Waiting(d)
  PROVE  SubmitError(Presented(d), d, now) =
           IF FaultAt(d, round) /\ case # "completion_failure" THEN FaultError ELSE "E_NONE"
<1> DEFINE s == Presented(d)
           desc == s.desc
           refused == FaultAt(d, round) /\ case # "completion_failure"
<1>1. /\ desc = Descriptor(d) /\ s.epoch = ep[d].epoch /\ s.log = <<>> /\ s.capacity = Capacity(d, round)
      /\ s.epoch \in Nat
  BY PresentedFacts DEF Waiting, IsStruct
<1>2. DescriptorValid(desc, now)
  <2>1. /\ desc["words"] = words /\ desc["release"] = now /\ desc["fault"] \in 0..2
    BY <1>1, DescriptorFacts
  <2>2. now \in Nat /\ Horizon \in Nat
    BY SizeAssumption DEF CampaignType
  <2>3. QED BY <2>1, <2>2, WordsFacts DEF DescriptorValid
<1>3. desc["src"] = SRC /\ desc["words"] = words
  BY <1>1, DescriptorFacts
<1>4. FaultAt(d, round) => Gate(d) /\ case \in FaultCase
  BY CampaignAssumption DEF FaultAt, Gate, CampaignType
<1>5. RoomForPair(s) <=> ~(FaultAt(d, round) /\ case = "log_capacity")
  <2>1. Len(s.log) = 0
    BY <1>1
  <2>2. MaxRecords \in Nat /\ 2 <= MaxRecords
    BY CampaignAssumption, SizeAssumption DEF Reg
  <2>3. QED BY <1>1, <2>1, <2>2 DEF RoomForPair, Capacity
<1>6. CASE ~refused
  <2>1. desc["job_epoch"] = s.epoch /\ desc["dst"] = DST /\ desc["fault"] \notin {1, 3}
    BY <1>1, <1>6, DescriptorFacts
  <2>2. RoomForPair(s)
    BY <1>5, <1>6
  <2>3. QED BY <1>2, <1>3, <1>6, <2>1, <2>2, RangesValid DEF SubmitError
<1>7. CASE refused
  <2>1. Gate(d) /\ case \in FaultCase /\ FaultAt(d, round)
    BY <1>4, <1>7
  <2>2. CASE case = "stale_epoch"
    <3>1. desc["job_epoch"] # s.epoch
      BY <1>1, <2>1, <2>2, DescriptorFacts
    <3>2. QED BY <1>7, <2>2, <3>1 DEF SubmitError, FaultError
  <2>3. CASE case = "invalid_range"
    <3>1. desc["job_epoch"] = s.epoch /\ desc["dst"] = MaxReg - 7
      BY <1>1, <2>1, <2>3, DescriptorFacts
    <3>2. QED BY <1>2, <1>3, <1>7, <2>3, <3>1, RangesValid DEF SubmitError, FaultError
  <2>4. CASE case = "log_capacity"
    <3>1. desc["job_epoch"] = s.epoch /\ desc["dst"] = DST
      BY <1>1, <2>1, <2>4, DescriptorFacts
    <3>2. ~RoomForPair(s)
      BY <1>5, <2>1, <2>4
    <3>3. QED BY <1>2, <1>3, <1>7, <2>1, <2>4, <3>1, <3>2, RangesValid DEF SubmitError, FaultError
  <2>5. CASE case = "request_failure"
    <3>1. desc["job_epoch"] = s.epoch /\ desc["dst"] = DST /\ desc["fault"] = 1
      BY <1>1, <2>1, <2>5, DescriptorFacts
    <3>2. RoomForPair(s)
      BY <1>5, <2>5
    <3>3. QED BY <1>2, <1>3, <1>7, <2>1, <2>5, <3>1, <3>2, RangesValid DEF SubmitError, FaultError
  <2>6. QED BY <1>7, <2>1, <2>2, <2>3, <2>4, <2>5 DEF FaultCase
<1>8. QED BY <1>6, <1>7

(***************************************************************************)
(* The steps of a round                                                    *)
(***************************************************************************)
SameCell == UNCHANGED <<cellVars, round, scalar>>

\* An endpoint that a step leaves alone is where it was.
LEMMA Alone ==
  ASSUME NEW d, SameCell, ep'[d] = ep[d], ram'[d] = ram[d]
  PROVE  /\ Waiting(d)' <=> Waiting(d)
         /\ Running(d)' <=> Running(d)
         /\ Ended(d)' <=> Ended(d)
<1>1. /\ words' = words /\ case' = case /\ round' = round /\ scalar' = scalar
  BY DEF SameCell, cellVars
<1>2. /\ Area(d)' = Area(d) /\ Untouched' = Untouched /\ oracle(d)' = oracle(d) /\ Input(d)' = Input(d)
      /\ FaultAt(d, round)' = FaultAt(d, round) /\ JobNumber' = JobNumber /\ FaultError' = FaultError
  BY <1>1 DEF Area, Untouched, oracle, Input, FaultAt, JobNumber, FaultError
<1>3. Waiting(d)' <=> Waiting(d)
  BY <1>1, <1>2 DEF Waiting, Capacity, FaultAt
<1>4. Running(d)' <=> Running(d)
  BY <1>1, <1>2 DEF Running, RoundJob, RequestRecord, RoundRecord
<1>5. DoneEvidence(d)' <=> DoneEvidence(d)
  BY <1>1, <1>2 DEF DoneEvidence, validate_records
<1>6. FailedEvidence(d)' <=> FailedEvidence(d)
  BY <1>1, <1>2 DEF FailedEvidence
<1>7. QED BY <1>2, <1>3, <1>4, <1>5, <1>6 DEF Ended

LEMMA UpdatedType ==
  ASSUME CampaignType, NEW d \in Dev, NEW n, Update(d, n)
  PROVE  /\ ep' = [e \in Dev |-> ep'[e]] /\ ep'[d] = n
         /\ \A e \in Dev \ {d} : ep'[e] = ep[e]
BY DEF CampaignType, Update

LEMMA HeadTail ==
  ASSUME CampaignType, queue # <<>>
  PROVE  /\ Head(queue) \in Dev /\ Tail(queue) \in Seq(Dev)
         /\ \A i, j \in DOMAIN Tail(queue) : Tail(queue)[i] = Tail(queue)[j] => i = j
         /\ Head(queue) \in Queued
         /\ \A d \in Dev : d \in {Tail(queue)[i] : i \in DOMAIN Tail(queue)} <=>
                             d \in Queued /\ d # Head(queue)
<1> DEFINE tail == Tail(queue)
<1>1. /\ queue \in Seq(Dev) /\ Len(queue) \in Nat /\ 1 <= Len(queue) /\ DOMAIN queue = 1..Len(queue)
      /\ \A i, j \in DOMAIN queue : queue[i] = queue[j] => i = j
  BY DEF CampaignType
<1>2. /\ Head(queue) = queue[1] /\ tail \in Seq(Dev) /\ DOMAIN tail = 1..(Len(queue) - 1)
      /\ \A i \in 1..(Len(queue) - 1) : tail[i] = queue[i + 1]
  BY <1>1
<1>3. Head(queue) \in Dev /\ Head(queue) \in Queued
  BY <1>1, <1>2 DEF Queued
<1> HIDE DEF tail
<1>4. \A i, j \in DOMAIN tail : tail[i] = tail[j] => i = j
  BY <1>1, <1>2
<1>5. ASSUME NEW d \in Dev
      PROVE  d \in {tail[i] : i \in DOMAIN tail} <=> d \in Queued /\ d # Head(queue)
  <2>1. ASSUME NEW i \in DOMAIN tail, d = tail[i] PROVE d \in Queued /\ d # Head(queue)
    <3>1. i + 1 \in DOMAIN queue /\ d = queue[i + 1] /\ 1 \in DOMAIN queue /\ i + 1 # 1
      BY <1>1, <1>2, <2>1
    <3>2. QED BY <1>1, <1>2, <3>1 DEF Queued
  <2>2. ASSUME d \in Queued, d # Head(queue) PROVE d \in {tail[i] : i \in DOMAIN tail}
    <3>1. PICK j \in DOMAIN queue : d = queue[j]
      BY <2>2 DEF Queued
    <3>2. j # 1 /\ j - 1 \in DOMAIN tail /\ (j - 1) + 1 = j
      BY <1>1, <1>2, <2>2, <3>1
    <3>3. d = tail[j - 1]
      BY <1>2, <3>1, <3>2
    <3>4. QED BY <3>2, <3>3
  <2>3. QED BY <2>1, <2>2
<1>6. QED BY <1>2, <1>3, <1>4, <1>5 DEF tail

\* The endpoint whose turn it is, after Endpoint.submit.
LEMMA Submitted ==
  ASSUME RoundInv, SubmitJob, NEW d, d = Head(queue)
  PROVE  IsStruct(ep'[d]) /\ (Running(d)' \/ Ended(d)')
<1>a. PICK s : s = Presented(d)
  OBVIOUS
<1>b. PICK t : t = now
  OBVIOUS
<1>c. PICK n : n = Accept(s, d, ram[d], t)
  OBVIOUS
<1>d. PICK error : error = SubmitError(s, d, t)
  OBVIOUS
<1>1. /\ CampaignType /\ d \in Dev /\ IsStruct(ep[d]) /\ Waiting(d)
  BY HeadTail DEF RoundInv, SubmitJob, EndpointOK, InRound
<1>2. /\ words' = words /\ case' = case /\ round' = round /\ scalar' = scalar /\ ram' = ram
  BY DEF SubmitJob, cellVars
<1>3. /\ Area(d)' = Area(d) /\ Untouched' = Untouched /\ oracle(d)' = oracle(d) /\ Input(d)' = Input(d)
      /\ FaultAt(d, round)' = FaultAt(d, round) /\ JobNumber' = JobNumber /\ FaultError' = FaultError
  BY <1>2 DEF Area, Untouched, oracle, Input, FaultAt, JobNumber, FaultError
<1>4. error = IF FaultAt(d, round) /\ case # "completion_failure" THEN FaultError ELSE "E_NONE"
  BY <1>1, <1>a, <1>b, <1>d, Verdict
<1>5. /\ IsStruct(s) /\ s.desc = Descriptor(d) /\ s.epoch = ep[d].epoch /\ s.log = <<>> /\ s.committed = 0
      /\ s.error = "E_NONE" /\ s.timer = Disarmed
  BY <1>1, <1>a, PresentedFacts DEF Waiting
<1>6. FaultError # "E_NONE"
  BY DEF FaultError
<1>7. IF error = "E_NONE" THEN Update(d, n) ELSE Update(d, Fail(s, error, t))
  BY <1>a, <1>b, <1>c, <1>d DEF SubmitJob, Presented
<1>8. CASE FaultAt(d, round) /\ case # "completion_failure"
  <2>1. ep'[d] = Fail(s, FaultError, t)
    BY <1>1, <1>4, <1>6, <1>7, <1>8, UpdatedType
  <2>2. /\ IsStruct(ep'[d]) /\ ep'[d].error = FaultError /\ ep'[d].log = <<>> /\ ep'[d].timer = Disarmed
        /\ ep'[d].committed = 0 /\ ep'[d].state = PREFAIL /\ ep'[d].failure.committed = 0
    BY <1>5, <2>1, FailFacts
  <2>3. PREFAIL # BUSY /\ Len(<<>>) = 0
    BY DEF PREFAIL, BUSY
  <2>4. FailedEvidence(d)'
    BY <1>1, <1>2, <1>3, <1>8, <2>2, <2>3 DEF FailedEvidence, Waiting
  <2>5. QED BY <1>3, <1>8, <2>2, <2>3, <2>4 DEF Ended
<1>9. CASE ~(FaultAt(d, round) /\ case # "completion_failure")
  <2>1. ep'[d] = n
    BY <1>1, <1>4, <1>7, <1>9, UpdatedType
  <2>2. /\ s.desc["job"] = JobNumber /\ s.desc["src"] = SRC /\ s.desc["dst"] = DST /\ s.desc["words"] = words
        /\ s.desc["scalar"] = scalar /\ s.desc["release"] = now
        /\ s.desc["fault"] = IF FaultAt(d, round) THEN 2 ELSE 0
        /\ FaultAt(d, round) => case = "completion_failure"
    BY <1>5, <1>9, DescriptorFacts
  <2>3. Snapshot(ram[d], s.desc["src"], s.desc["words"]) = Input(d)
    BY <1>1, <2>2, FrozenInput, WordsFacts DEF Waiting
  <2>4. /\ IsStruct(n) /\ n.state = BUSY /\ n.error = "E_NONE" /\ n.desc = s.desc /\ n.epoch = s.epoch
        /\ n.input = Input(d) /\ n.phase = "COMPUTE_END" /\ n.committed = 0
        /\ n.timer = (now + RecordCost(d)) + words * ComputeNs
        /\ n.log = IF Gate(d) THEN Append(<<>>, Record(s, Request, Input(d), now)) ELSE <<>>
    <3>1. PICK input : input = Snapshot(ram[d], s.desc["src"], s.desc["words"])
      OBVIOUS
    <3>2. IsStruct(s)
      BY <1>5
    <3>3. /\ IsStruct(n) /\ n.state = BUSY /\ n.error = s.error /\ n.desc = s.desc /\ n.epoch = s.epoch
          /\ n.input = input /\ n.phase = "COMPUTE_END" /\ n.committed = s.committed
      BY <1>c, <3>1, <3>2, AcceptFacts
    <3>4. n.timer = (s.desc["release"] + RecordCost(d)) + s.desc["words"] * ComputeNs
      BY <1>c, <3>1, <3>2, AcceptFacts
    <3>5. n.log = IF Gate(d) THEN Append(s.log, Record(s, Request, input, t)) ELSE s.log
      BY <1>c, <3>1, <3>2, AcceptFacts
    <3>6. QED BY <1>5, <1>b, <2>2, <2>3, <3>1, <3>3, <3>4, <3>5
  <2>5. n.timer \in Nat
    BY <1>1, <2>4, CostNat, SerializedNat DEF CampaignType
  <2>6. RoundJob(d, n) /\ RoundJob(d, s)
    BY <2>2, <2>4 DEF RoundJob
  <2>7. Record(s, Request, Input(d), now) = RequestRecord(d, n)
    <3>1. Job(s) = [job |-> JobNumber, src |-> SRC, dst |-> DST, words |-> words, scalar |-> scalar]
      BY <2>6, JobRecord
    <3>2. Len(s.log) + 1 = 1
      BY <1>5
    <3>3. QED BY <1>5, <2>2, <2>4, <3>1, <3>2 DEF Record, RequestRecord, RoundRecord, Request
  <2>8. n.log = IF Gate(d) THEN <<RequestRecord(d, n)>> ELSE <<>>
    BY <2>4, <2>7
  <2>9. RoundJob(d, ep[d])' /\ RequestRecord(d, ep[d])' = RequestRecord(d, n)
    BY <1>2, <1>3, <2>1, <2>6 DEF RoundJob, RequestRecord, RoundRecord
  <2>10. Running(d)'
    BY <1>1, <1>2, <1>3, <2>1, <2>4, <2>5, <2>8, <2>9 DEF Running, RoundJob, Waiting
  <2>11. QED BY <2>1, <2>4, <2>10
<1>10. QED BY <1>8, <1>9

\* A timer that runs is the one of a job that is under way.
LEMMA FiresRunning ==
  ASSUME RoundInv, stage = "drain", NEW d \in Dev, Fires(d)
  PROVE  /\ CampaignType /\ IsStruct(ep[d]) /\ DOMAIN ram[d] = Word
         /\ d \notin Queued /\ Running(d)
<1>1. ep[d].timer # Disarmed
  BY DEF Fires, Armed
<1>2. EndpointOK(d) /\ CampaignType
  BY DEF RoundInv
<1>3. d \notin Queued /\ Running(d)
  BY <1>1, <1>2 DEF EndpointOK, InRound, Waiting, Ended
<1>4. QED BY <1>2, <1>3 DEF EndpointOK

CellSame(d) ==
  /\ words' = words /\ case' = case /\ round' = round /\ scalar' = scalar
  /\ Untouched' = Untouched /\ oracle(d)' = oracle(d) /\ Input(d)' = Input(d)
  /\ FaultAt(d, round)' = FaultAt(d, round) /\ JobNumber' = JobNumber /\ FaultError' = FaultError

LEMMA CellIsSame ==
  ASSUME NEW d, SameCell
  PROVE  CellSame(d)
BY DEF CellSame, SameCell, cellVars, Untouched, oracle, Input, FaultAt, JobNumber, FaultError

LEMMA ComputeEnds ==
  ASSUME RoundInv, stage = "drain", NEW d \in Dev, ComputeEnd(d), SameCell
  PROVE  /\ IsStruct(ep'[d]) /\ DOMAIN ram'[d] = Word /\ Running(d)'
         /\ link_free_ns' \in Nat
<1>1. /\ CampaignType /\ IsStruct(ep[d]) /\ DOMAIN ram[d] = Word /\ Running(d)
  BY FiresRunning DEF ComputeEnd
<1>a. PICK s : s = ep[d]
  OBVIOUS
<1>b. PICK sent : sent = MaxOf(now, link_free_ns) + Serialization(s.desc["words"])
  OBVIOUS
<1>2. sent \in Nat /\ LinkNs \in Nat
  <2>1. s.desc["words"] = words
    BY <1>1, <1>a DEF Running, RoundJob
  <2>2. now \in Nat /\ link_free_ns \in Nat
    BY <1>1 DEF CampaignType
  <2>3. MaxOf(now, link_free_ns) \in Nat
    BY <2>2 DEF MaxOf
  <2>4. QED BY <1>1, <1>b, <2>1, <2>3, SerializedNat, CostAssumption
<1>c. PICK n : n = ep'[d]
  OBVIOUS
<1>3. /\ n = [s EXCEPT !.output = VectorJob(s.input, s.desc["scalar"]),
                       !.link_start = MaxOf(now, link_free_ns), !.queue_wait = MaxOf(now, link_free_ns) - now,
                       !.link_end = sent + LinkNs,
                       !.phase = "LINK_END", !.timer = sent + LinkNs]
      /\ link_free_ns' = sent /\ ram' = ram
  BY <1>1, <1>a, <1>b, <1>c, UpdatedType DEF ComputeEnd
<1>4. /\ IsStruct(n) /\ n.output = VectorJob(s.input, s.desc["scalar"]) /\ n.phase = "LINK_END"
      /\ n.timer = sent + LinkNs /\ n.state = s.state /\ n.error = s.error /\ n.desc = s.desc
      /\ n.input = s.input /\ n.log = s.log /\ n.committed = s.committed /\ n.epoch = s.epoch
  BY <1>1, <1>a, <1>3 DEF IsStruct, StructFields
<1>5. CellSame(d) /\ Area(d)' = Area(d)
  <2>1. CellSame(d)
    BY CellIsSame
  <2>2. QED BY <1>3, <2>1 DEF CellSame, Area
<1>6. /\ s.state = BUSY /\ s.error = "E_NONE" /\ RoundJob(d, s) /\ s.input = Input(d)
      /\ s.log = IF Gate(d) THEN <<RequestRecord(d, s)>> ELSE <<>>
      /\ s.phase = "COMPUTE_END" /\ s.committed = 0 /\ Area(d) = Untouched
  BY <1>1, <1>a DEF Running, ComputeEnd
<1>7. n.output = oracle(d) /\ n.timer \in Nat
  BY <1>2, <1>4, <1>6 DEF oracle, RoundJob
<1>8. RoundJob(d, ep[d])' /\ RequestRecord(d, ep[d])' = RequestRecord(d, s)
  BY <1>c, <1>4, <1>5, <1>6 DEF RoundJob, RequestRecord, RoundRecord, CellSame
<1>9. Running(d)'
  BY <1>c, <1>4, <1>5, <1>6, <1>7, <1>8 DEF Running, CellSame
<1>10. QED BY <1>1, <1>2, <1>3, <1>4, <1>9, <1>c

LEMMA LinkEnds ==
  ASSUME RoundInv, stage = "drain", NEW d \in Dev, LinkEnd(d), SameCell
  PROVE  /\ IsStruct(ep'[d]) /\ DOMAIN ram'[d] = Word /\ Running(d)'
         /\ ram' = [e \in Dev |-> ram'[e]] /\ \A e \in Dev \ {d} : ram'[e] = ram[e]
<1>1. /\ CampaignType /\ IsStruct(ep[d]) /\ Running(d)
  BY FiresRunning DEF LinkEnd
<1>a. PICK s : s = ep[d]
  OBVIOUS
<1>c. PICK n : n = ep'[d]
  OBVIOUS
<1>2. n = Landed(s, d, now)
  BY <1>1, <1>a, <1>c, UpdatedType DEF LinkEnd
<1>3. /\ IsStruct(n) /\ n.committed = 1 /\ n.phase = "RECORD_END" /\ n.timer = now + RecordCost(d)
      /\ n.state = s.state /\ n.error = s.error /\ n.desc = s.desc /\ n.output = s.output
      /\ n.input = s.input /\ n.log = s.log /\ n.epoch = s.epoch
  BY <1>1, <1>a, <1>2 DEF Landed, IsStruct, StructFields
<1>4. n.timer \in Nat
  BY <1>1, <1>3, CostNat DEF CampaignType
<1>5. CellSame(d)
  BY CellIsSame
<1>6. /\ s.state = BUSY /\ s.error = "E_NONE" /\ RoundJob(d, s) /\ s.input = Input(d)
      /\ s.log = IF Gate(d) THEN <<RequestRecord(d, s)>> ELSE <<>>
      /\ s.output = oracle(d)
  BY <1>1, <1>a DEF Running, LinkEnd
<1>7. /\ ram'[d] = Stored(ram[d], DST, oracle(d))
      /\ ram' = [e \in Dev |-> ram'[e]] /\ \A e \in Dev \ {d} : ram'[e] = ram[e]
  BY <1>1, <1>6, <1>a DEF LinkEnd, CampaignType, RoundJob
<1>8. DOMAIN ram'[d] = Word
  BY <1>7 DEF Stored
<1>9. Area(d)' = oracle(d)
  <2>1. \A i \in 1..words : Stored(ram[d], DST, oracle(d))[MaxWords + i - 1] = oracle(d)[i]
    BY <1>1, JobDomain, StoredArea
  <2>2. oracle(d) = [i \in 1..words |-> oracle(d)[i]]
    BY DEF oracle, VectorJob, Input
  <2>3. Area(d)' = [i \in 1..words |-> ram'[d][MaxWords + i - 1]]
    BY <1>5 DEF Area, CellSame
  <2>4. QED BY <1>7, <2>1, <2>2, <2>3
<1>10. RoundJob(d, ep[d])' /\ RequestRecord(d, ep[d])' = RequestRecord(d, s)
  BY <1>c, <1>3, <1>5, <1>6 DEF RoundJob, RequestRecord, RoundRecord, CellSame
<1>11. Running(d)'
  BY <1>c, <1>3, <1>4, <1>5, <1>6, <1>9, <1>10 DEF Running, CellSame
<1>12. QED BY <1>3, <1>7, <1>8, <1>11, <1>c

LEMMA RecordEnds ==
  ASSUME RoundInv, stage = "drain", NEW d \in Dev, RecordEnd(d), SameCell
  PROVE  IsStruct(ep'[d]) /\ DOMAIN ram'[d] = Word /\ Ended(d)'
<1>1. /\ CampaignType /\ IsStruct(ep[d]) /\ DOMAIN ram[d] = Word /\ Running(d)
  BY FiresRunning DEF RecordEnd
<1>a. PICK s : s = ep[d]
  OBVIOUS
<1>b. PICK t : t = now
  OBVIOUS
<1>c. PICK n : n = ep'[d]
  OBVIOUS
<1>2. n = Finished(s, d, t) /\ ram' = ram /\ ~CompletionFault(s, d)
  BY <1>1, <1>a, <1>b, <1>c, UpdatedType DEF RecordEnd
<1>3. /\ s.state = BUSY /\ s.error = "E_NONE" /\ RoundJob(d, s) /\ s.input = Input(d)
      /\ s.log = IF Gate(d) THEN <<RequestRecord(d, s)>> ELSE <<>>
      /\ s.output = oracle(d) /\ s.committed = 1 /\ Area(d) = oracle(d)
  BY <1>1, <1>a DEF Running, RecordEnd
<1>4. IsStruct(s)
  BY <1>1, <1>a
<1>5. /\ IsStruct(n) /\ n.state = DONE /\ n.error = s.error /\ n.desc = s.desc
      /\ n.epoch = s.epoch /\ n.committed = s.committed /\ n.timer = Disarmed /\ n.finished = t
  BY <1>2, <1>4, FinishedFacts
<1>6. n.log = IF Gate(d) THEN Append(s.log, Record(s, Completion, s.output, t)) ELSE s.log
  BY <1>2, <1>4, FinishedFacts
<1>7. CellSame(d) /\ Area(d)' = Area(d)
  <2>1. CellSame(d)
    BY CellIsSame
  <2>2. QED BY <1>2, <2>1 DEF CellSame, Area
<1>8. ~FaultAt(d, round)
  <2>1. FaultAt(d, round) => Gate(d)
    BY <1>1, CampaignAssumption DEF FaultAt, Gate, CampaignType
  <2>2. QED BY <1>2, <1>3, <2>1 DEF CompletionFault, RoundJob
<1>9. ASSUME Gate(d) PROVE validate_records(d)'
  <2>a. PICK request : request = RequestRecord(d, s)
    OBVIOUS
  <2>b. PICK completion : completion = RoundRecord(s, 2, t, 1, oracle(d))
    OBVIOUS
  <2>1. s.log = <<request>>
    BY <1>3, <1>9, <2>a
  <2>2. Record(s, Completion, s.output, t) = completion
    <3>1. Job(s) = [job |-> JobNumber, src |-> SRC, dst |-> DST, words |-> words, scalar |-> scalar]
      BY <1>3, JobRecord
    <3>2. Len(s.log) + 1 = 2
      BY <2>1
    <3>3. QED BY <1>3, <2>b, <3>1, <3>2 DEF Record, RoundRecord, Completion
  <2>3. n.log = Append(<<request>>, completion)
    BY <1>6, <1>9, <2>1, <2>2
  <2>4. Len(n.log) = 2 /\ n.log[1] = request /\ n.log[2] = completion
    BY <2>3
  <2>5. ASSUME NEW i \in 1..2
        PROVE  LET r == n.log[i]
               IN  /\ r.kind = i /\ r.sequence = i /\ r.epoch = n.epoch
                   /\ r.job = [job |-> JobNumber, src |-> SRC, dst |-> DST, words |-> words, scalar |-> scalar]
                   /\ r.committed = i - 1
                   /\ r.time = IF i = 1 THEN n.desc["release"] ELSE n.finished
                   /\ r.digest = IF i = 1 THEN Input(d) ELSE oracle(d)
    <3>1. CASE i = 1
      <4>1. n.log[i] = RoundRecord(s, 1, s.desc["release"], 0, Input(d))
        BY <2>4, <2>a, <3>1 DEF RequestRecord
      <4>2. QED BY <1>5, <3>1, <4>1 DEF RoundRecord
    <3>2. CASE i = 2
      <4>1. n.log[i] = RoundRecord(s, 2, t, 1, oracle(d))
        BY <2>4, <2>b, <3>2
      <4>2. QED BY <1>5, <3>2, <4>1 DEF RoundRecord
    <3>3. QED BY <3>1, <3>2
  <2>6. QED BY <1>7, <1>c, <2>4, <2>5 DEF validate_records, CellSame
<1>10. ~Gate(d) => n.log = <<>>
  BY <1>3, <1>6
<1>11. DoneEvidence(d)'
  BY <1>3, <1>5, <1>7, <1>9, <1>10, <1>c DEF DoneEvidence, CellSame
<1>12. DONE # BUSY
  BY DEF DONE, BUSY
<1>13. Ended(d)'
  BY <1>5, <1>7, <1>8, <1>11, <1>12, <1>c DEF Ended, CellSame
<1>14. QED BY <1>1, <1>2, <1>5, <1>13, <1>c

LEMMA RecordFaults ==
  ASSUME RoundInv, stage = "drain", NEW d \in Dev, RecordFault(d), SameCell
  PROVE  IsStruct(ep'[d]) /\ DOMAIN ram'[d] = Word /\ Ended(d)'
<1>1. /\ CampaignType /\ IsStruct(ep[d]) /\ DOMAIN ram[d] = Word /\ Running(d)
  BY FiresRunning DEF RecordFault
<1>a. PICK s : s = ep[d]
  OBVIOUS
<1>b. PICK m : m = Fail(s, "E_COMPLETION", now)
  OBVIOUS
<1>c. PICK n : n = ep'[d]
  OBVIOUS
<1>2. n = [m EXCEPT !.timer = Disarmed] /\ ram' = ram /\ CompletionFault(s, d)
  BY <1>1, <1>a, <1>b, <1>c, UpdatedType DEF RecordFault
<1>3. /\ RoundJob(d, s) /\ s.log = IF Gate(d) THEN <<RequestRecord(d, s)>> ELSE <<>>
      /\ s.committed = 1 /\ Area(d) = oracle(d)
  BY <1>1, <1>a DEF Running, RecordFault
<1>4. IsStruct(s)
  BY <1>1, <1>a
<1>5. /\ IsStruct(m) /\ m.error = "E_COMPLETION" /\ m.log = s.log /\ m.committed = 1 /\ m.state = POSTFAIL
      /\ m.failure.committed = 1
  BY <1>b, <1>3, <1>4, FailFacts
<1>6. /\ IsStruct(n) /\ n.error = "E_COMPLETION" /\ n.log = s.log /\ n.committed = 1 /\ n.state = POSTFAIL
      /\ n.failure.committed = 1 /\ n.timer = Disarmed
  BY <1>2, <1>5 DEF IsStruct, StructFields
<1>7. CellSame(d) /\ Area(d)' = Area(d)
  <2>1. CellSame(d)
    BY CellIsSame
  <2>2. QED BY <1>2, <2>1 DEF CellSame, Area
<1>8. FaultAt(d, round) /\ case = "completion_failure" /\ Gate(d)
  BY <1>2, <1>3 DEF CompletionFault, RoundJob
<1>9. Len(n.log) = 1
  BY <1>3, <1>6, <1>8
<1>10. FaultError = "E_COMPLETION" /\ POSTFAIL # BUSY
  BY <1>8 DEF FaultError, POSTFAIL, BUSY
<1>11. FailedEvidence(d)'
  BY <1>3, <1>6, <1>7, <1>8, <1>9, <1>10, <1>c DEF FailedEvidence, CellSame
<1>12. Ended(d)'
  BY <1>6, <1>7, <1>8, <1>10, <1>11, <1>c DEF Ended, CellSame
<1>13. QED BY <1>1, <1>2, <1>6, <1>12, <1>c


LEMMA TimerRan ==
  ASSUME RoundInv, NEW d \in Dev, RunTimer(d)
  PROVE  RoundInv'
<1>1. stage = "drain" /\ TimerStep(d) /\ UNCHANGED campaignVars
  BY DEF RunTimer
<1>2. SameCell /\ stage' = "drain" /\ queue' = queue /\ words' = words /\ case' = case
  BY <1>1 DEF SameCell, campaignVars, cellVars
<1>3. CampaignType /\ d \notin Queued
  BY <1>1, FiresRunning DEF TimerStep, ComputeEnd, LinkEnd, RecordEnd, RecordFault
<1>4. PICK n : Update(d, n)
  BY <1>1 DEF TimerStep, ComputeEnd, LinkEnd, RecordEnd, RecordFault
<1>5. /\ ep' = [e \in Dev |-> ep'[e]] /\ \A e \in Dev \ {d} : ep'[e] = ep[e]
  BY <1>3, <1>4, UpdatedType
<1>6. /\ ram' = [e \in Dev |-> ram'[e]] /\ \A e \in Dev \ {d} : ram'[e] = ram[e]
      /\ link_free_ns' \in Nat /\ present' = present /\ now' = now
      /\ IsStruct(ep'[d]) /\ DOMAIN ram'[d] = Word /\ (Running(d)' \/ Ended(d)')
  <2>1. CASE ComputeEnd(d)
    BY <1>1, <1>2, <1>3, <2>1, ComputeEnds DEF ComputeEnd, CampaignType
  <2>2. CASE LinkEnd(d)
    BY <1>1, <1>2, <1>3, <2>2, LinkEnds DEF LinkEnd, CampaignType
  <2>3. CASE RecordEnd(d)
    BY <1>1, <1>2, <1>3, <2>3, RecordEnds DEF RecordEnd, CampaignType
  <2>4. CASE RecordFault(d)
    BY <1>1, <1>2, <1>3, <2>4, RecordFaults DEF RecordFault, CampaignType
  <2>5. QED BY <1>1, <2>1, <2>2, <2>3, <2>4 DEF TimerStep
<1>7. CampaignType'
  BY <1>2, <1>3, <1>5, <1>6 DEF CampaignType
<1>8. DrainedInv'
  BY <1>2 DEF DrainedInv
<1>9. ASSUME NEW e \in Dev PROVE EndpointOK(e)'
  <2>1. Queued' = Queued
    BY <1>2 DEF Queued
  <2>2. CASE e = d
    BY <1>2, <1>3, <1>6, <2>1, <2>2 DEF EndpointOK
  <2>3. CASE e # d
    <3>1. EndpointOK(e) /\ InRound
      BY <1>1 DEF RoundInv, InRound
    <3>2. (Waiting(e)' <=> Waiting(e)) /\ (Running(e)' <=> Running(e)) /\ (Ended(e)' <=> Ended(e))
      BY <1>2, <1>5, <1>6, <2>3, Alone
    <3>3. QED BY <1>2, <1>5, <1>6, <2>1, <2>3, <3>1, <3>2 DEF EndpointOK
  <2>4. QED BY <2>2, <2>3
<1>10. QED BY <1>7, <1>8, <1>9 DEF RoundInv

LEMMA JobSubmitted ==
  ASSUME RoundInv, SubmitJob
  PROVE  RoundInv'
<1>1. CampaignType /\ queue # <<>> /\ stage = "submit"
  BY DEF RoundInv, SubmitJob
<1>a. PICK d : d = Head(queue)
  OBVIOUS
<1>2. /\ d \in Dev /\ queue' = Tail(queue) /\ queue' \in Seq(Dev)
      /\ \A i, j \in DOMAIN queue' : queue'[i] = queue'[j] => i = j
  BY <1>1, <1>a, HeadTail DEF SubmitJob
<1>3. \A e \in Dev : e \in Queued' <=> e \in Queued /\ e # d
  BY <1>1, <1>2, <1>a, HeadTail DEF Queued
<1>4. /\ SameCell /\ ram' = ram /\ present' = present /\ now' = now /\ link_free_ns' = link_free_ns
      /\ words' = words /\ case' = case /\ schedule' = schedule
      /\ stage' = IF schedule = "serial" THEN "drain" ELSE stage
  BY DEF SubmitJob, SameCell, cellVars
<1>5. PICK n : Update(d, n)
  BY <1>a DEF SubmitJob
<1>6. /\ ep' = [e \in Dev |-> ep'[e]] /\ \A e \in Dev \ {d} : ep'[e] = ep[e]
  BY <1>1, <1>2, <1>5, UpdatedType
<1>7. IsStruct(ep'[d]) /\ (Running(d)' \/ Ended(d)')
  BY <1>a, Submitted
<1>8. CampaignType'
  BY <1>1, <1>2, <1>4, <1>6 DEF CampaignType
<1>9. DrainedInv'
  BY <1>1, <1>4 DEF DrainedInv
<1>10. ASSUME NEW e \in Dev PROVE EndpointOK(e)'
  <2>1. EndpointOK(e) /\ InRound /\ stage' \in {"submit", "drain"}
    BY <1>1, <1>4 DEF RoundInv, InRound
  <2>2. CASE e = d
    BY <1>3, <1>4, <1>7, <2>1, <2>2 DEF EndpointOK
  <2>3. CASE e # d
    <3>1. (Waiting(e)' <=> Waiting(e)) /\ (Running(e)' <=> Running(e)) /\ (Ended(e)' <=> Ended(e))
      BY <1>4, <1>6, <2>3, Alone
    <3>2. QED BY <1>3, <1>4, <1>6, <2>1, <2>3, <3>1 DEF EndpointOK
  <2>4. QED BY <2>2, <2>3
<1>11. QED BY <1>8, <1>9, <1>10 DEF RoundInv


\* A round starts: every endpoint is acknowledged and gets its input.
LEMMA RoundStarted ==
  ASSUME RoundInv, StartRound
  PROVE  RoundInv'
<1>1. CampaignType /\ stage = "start" /\ stage' = "submit"
  BY DEF RoundInv, StartRound
<1>2. /\ words' = words /\ case' = case /\ round' = round + 1 /\ scalar' = scalar /\ present' = present
      /\ now' = now /\ link_free_ns' = link_free_ns /\ queue' \in Orders
      /\ ep' = [d \in Dev |-> Fresh(d, round + 1)] /\ ram' = [d \in Dev |-> Published(d)]
  BY DEF StartRound, cellVars
<1>3. /\ queue' \in Seq(Dev) /\ \A i, j \in DOMAIN queue' : queue'[i] = queue'[j] => i = j
      /\ \A d \in Dev : d \in Queued'
  <2>1. PICK o \in Orders : o = queue'
    BY <1>2
  <2>2. PICK k : k = Len(Tiles)
    OBVIOUS
  <2>3. /\ o \in [1..k -> Dev] /\ \A i, j \in 1..k : o[i] = o[j] => i = j
        /\ \A d \in Dev : \E i \in 1..k : o[i] = d
    BY <2>1, <2>2 DEF Orders
  <2>4. k \in Nat
    BY <2>2, CampaignAssumption
  <2>5. o \in Seq(Dev) /\ DOMAIN o = 1..k
    BY <2>3, <2>4
  <2>6. QED BY <2>1, <2>3, <2>5 DEF Queued
<1>4. CampaignType'
  BY <1>1, <1>2, <1>3 DEF CampaignType
<1>5. ASSUME NEW d \in Dev
      PROVE  EndpointOK(d)' /\ ep'[d].state # BUSY
  <2>a. PICK s : s = ep[d]
    OBVIOUS
  <2>b. PICK n : n = ep'[d]
    OBVIOUS
  <2>1. IsStruct(s) /\ s.state # BUSY /\ s.timer = Disarmed
    BY <1>1, <2>a DEF RoundInv, EndpointOK
  <2>2. n = [NewEpoch(s, s.epoch + 1) EXCEPT !.capacity = Capacity(d, round + 1)]
    BY <1>2, <2>a, <2>b, <2>1 DEF Fresh, Writable
  <2>3. /\ IsStruct(n) /\ n.state = IDLE /\ n.log = <<>> /\ n.timer = Disarmed
        /\ n.capacity = Capacity(d, round + 1)
    BY <2>1, <2>2 DEF NewEpoch, IsStruct, StructFields
  <2>4. Capacity(d, round)' = Capacity(d, round + 1)
    BY <1>2 DEF Capacity, FaultAt
  <2>5. ram'[d] = Published(d) /\ DOMAIN ram'[d] = Word
    BY <1>2 DEF Published
  <2>6. \A i \in 1..words : ram'[d][i - 1] = Inputs[d][i]
    <3>1. \A i \in 1..words : i - 1 \in Word /\ (i - 1) + 1 = i
      BY <1>1, WordsFacts DEF Word
    <3>2. QED BY <2>5, <3>1 DEF Published
  <2>7. Area(d)' = Untouched'
    <3>1. ASSUME NEW i \in 1..words PROVE ram'[d][MaxWords + i - 1] = Fill
      <4>1. /\ MaxWords + i - 1 \in Word /\ (MaxWords + i - 1) - MaxWords + 1 = i
            /\ (MaxWords + i - 1) + 1 \notin 1..words
        BY <1>1, WordsFacts DEF Word
      <4>2. QED BY <2>5, <4>1 DEF Published
    <3>2. QED BY <1>2, <3>1 DEF Area, Untouched
  <2>8. Waiting(d)'
    BY <1>2, <2>b, <2>3, <2>4, <2>6, <2>7 DEF Waiting
  <2>9. IDLE # BUSY
    BY DEF IDLE, BUSY
  <2>10. QED BY <1>1, <1>3, <2>b, <2>3, <2>5, <2>8, <2>9 DEF EndpointOK
<1>6. DrainedInv'
  BY <1>1, <1>5 DEF DrainedInv, Busy
<1>7. QED BY <1>4, <1>5, <1>6 DEF RoundInv

\* Steps that leave the endpoints and the cell alone.
LEMMA OnlyStage ==
  ASSUME RoundInv, InRound, stage' \in {"submit", "drain", "check", "raised"}, SameCell,
         ep' = ep, ram' = ram, queue' = queue, now' \in Nat, UNCHANGED <<present, link_free_ns>>
  PROVE  CampaignType' /\ (\A d \in Dev : EndpointOK(d)') /\ Busy' = Busy
<1>1. CampaignType'
  BY DEF RoundInv, CampaignType, SameCell, cellVars
<1>2. ASSUME NEW d \in Dev PROVE EndpointOK(d)'
  <2>1. EndpointOK(d)
    BY DEF RoundInv
  <2>2. (Waiting(d)' <=> Waiting(d)) /\ (Running(d)' <=> Running(d)) /\ (Ended(d)' <=> Ended(d))
    BY Alone
  <2>3. QED BY <2>1, <2>2 DEF EndpointOK, InRound, Queued
<1>3. QED BY <1>1, <1>2 DEF Busy

LEMMA SubmissionsOver ==
  ASSUME RoundInv, AllSubmitted
  PROVE  RoundInv'
<1>1. /\ InRound /\ SameCell /\ ep' = ep /\ ram' = ram /\ queue' = queue /\ now' \in Nat
      /\ UNCHANGED <<present, link_free_ns, schedule>> /\ stage' \in {"submit", "drain", "check"}
  BY DEF AllSubmitted, InRound, SameCell, vars, cellVars, RoundInv, CampaignType
<1>2. CampaignType' /\ (\A d \in Dev : EndpointOK(d)') /\ Busy' = Busy
  BY <1>1, OnlyStage
<1>3. DrainedInv'
  BY <1>1, <1>2 DEF RoundInv, DrainedInv, AllSubmitted
<1>4. QED BY <1>2, <1>3 DEF RoundInv

LEMMA RoundDrained ==
  ASSUME RoundInv, Drained
  PROVE  RoundInv'
<1>1. /\ InRound /\ SameCell /\ ep' = ep /\ ram' = ram /\ queue' = queue /\ now' \in Nat
      /\ UNCHANGED <<present, link_free_ns, schedule>> /\ stage' \in {"submit", "drain", "check"}
  BY DEF Drained, InRound, SameCell, vars, cellVars, RoundInv, CampaignType
<1>2. CampaignType' /\ (\A d \in Dev : EndpointOK(d)') /\ Busy' = Busy
  BY <1>1, OnlyStage
<1>3. DrainedInv'
  BY <1>1, <1>2 DEF DrainedInv, Drained
<1>4. QED BY <1>2, <1>3 DEF RoundInv

\* The least of the deadlines is one of them.
LEMMA LeastDeadline ==
  ASSUME NEW S \in SUBSET Nat, S # {}
  PROVE  Min(S) \in Nat
<1> DEFINE Below == OpToRel(<, Nat)
<1>1. IsWellFoundedOn(Below, Nat)
  BY NatLessThanWellFounded
<1>2. \A i, j \in Nat : i < j => <<i, j>> \in Below
  BY DEF OpToRel
<1> HIDE DEF Below
<1>3. PICK x \in S : \A y \in S : ~(<<y, x>> \in Below)
  BY <1>1, WFMin
<1>4. ASSUME NEW y \in S PROVE x <= y
  <2>1. x \in Nat /\ y \in Nat /\ ~(y < x)
    BY <1>2, <1>3
  <2>2. QED BY <2>1
<1>5. QED BY <1>3, <1>4 DEF Min

LEMMA ClockStepped ==
  ASSUME RoundInv, ClockStep
  PROVE  RoundInv'
<1> DEFINE deadlines == {ep[d].timer : d \in {e \in Dev : Armed(e)}}
<1>1. stage = "drain" /\ InRound
  BY DEF ClockStep, InRound
<1>2. \A d \in Dev : /\ Armed(d) => ep[d].timer \in Nat
                     /\ ep[d].state = BUSY => Armed(d)
  <2>1. ASSUME NEW d \in Dev
        PROVE  /\ Armed(d) => ep[d].timer \in Nat
               /\ ep[d].state = BUSY => Armed(d)
    <3>1. (Waiting(d) \/ Running(d) \/ Ended(d)) /\ d \in present
      BY <1>1 DEF RoundInv, EndpointOK, CampaignType
    <3>2. Disarmed \notin Nat /\ IDLE # BUSY
      BY DEF Disarmed, IDLE, BUSY
    <3>3. QED BY <3>1, <3>2 DEF Armed, Waiting, Running, Ended
  <2>2. QED BY <2>1
<1>3. deadlines \in SUBSET Nat /\ deadlines # {}
  <2> DEFINE armed == {e \in Dev : Armed(e)}
  <2>1. PICK d \in Dev : ep[d].state = BUSY
    BY DEF ClockStep, Busy
  <2>2. Armed(d)
    BY <1>2, <2>1, Zenon
  <2>3. d \in armed
    BY <2>2, Zenon
  <2>4. \A e \in armed : ep[e].timer \in Nat
    <3>1. ASSUME NEW e \in armed PROVE ep[e].timer \in Nat
      <4>1. e \in Dev /\ Armed(e)
        BY <3>1, Zenon
      <4>2. QED BY <1>2, <4>1, Zenon
    <3>2. QED BY <3>1, Zenon
  <2>5. deadlines = {ep[e].timer : e \in armed}
    OBVIOUS
  <2> HIDE DEF deadlines, armed
  <2>6. QED BY <2>3, <2>4, <2>5
<1>4. now' = Min(deadlines)
  BY DEF ClockStep
<1>5. now' \in Nat
  <2> HIDE DEF deadlines
  <2>1. QED BY <1>3, <1>4, LeastDeadline
<1>6. /\ SameCell /\ ep' = ep /\ ram' = ram /\ queue' = queue
      /\ UNCHANGED <<present, link_free_ns, schedule>> /\ stage' \in {"drain", "raised"}
  BY <1>1 DEF ClockStep, SameCell, cellVars
<1>7. CampaignType' /\ (\A d \in Dev : EndpointOK(d)') /\ Busy' = Busy
  BY <1>1, <1>5, <1>6, OnlyStage
<1>8. DrainedInv'
  BY <1>6 DEF DrainedInv
<1>9. QED BY <1>7, <1>8 DEF RoundInv

\* The driver has looked at the round: no endpoint is busy.
LEMMA RoundOver ==
  ASSUME RoundInv, EndRound \/ EndFault \/ EndRecovery
  PROVE  RoundInv'
<1>1. CampaignType /\ stage = "check" /\ stage' = "start" /\ Busy = {} /\ queue = <<>>
  BY DEF RoundInv, DrainedInv, EndRound, EndFault, EndRecovery
<1>2. /\ words' = words /\ queue' = queue /\ ram' = ram /\ present' = present /\ now' = now
      /\ link_free_ns' = link_free_ns
  BY DEF EndRound, EndFault, EndRecovery, cellVars, vars
<1>3. case' \in Cases
  BY <1>1 DEF EndRound, EndFault, EndRecovery, cellVars, CampaignType
<1>4. \A d \in Dev : IsStruct(ep[d]) /\ ep[d].state # BUSY /\ ep[d].timer = Disarmed /\ DOMAIN ram[d] = Word
  <2>1. ASSUME NEW d \in Dev
        PROVE  IsStruct(ep[d]) /\ ep[d].state # BUSY /\ ep[d].timer = Disarmed /\ DOMAIN ram[d] = Word
    <3>1. EndpointOK(d) /\ InRound /\ d \notin Queued /\ ep[d].state # BUSY
      BY <1>1 DEF RoundInv, InRound, Queued, Busy
    <3>2. QED BY <3>1 DEF EndpointOK, Running, Ended
  <2>2. QED BY <2>1
<1>5. /\ ep' = [d \in Dev |-> ep'[d]]
      /\ \A d \in Dev : IsStruct(ep'[d]) /\ ep'[d].state # BUSY /\ ep'[d].timer = Disarmed
  <2>1. CASE ep' = ep
    BY <1>1, <1>4, <2>1 DEF CampaignType
  <2>2. CASE EndFault
    <3>1. ep' = [ep EXCEPT ![Target] = [ep[Target] EXCEPT !.rejected = @ + 1]]
      BY <2>2 DEF EndFault, Update
    <3>2. ep' = [d \in Dev |-> ep'[d]]
      BY <1>1, <3>1 DEF CampaignType
    <3>3. ASSUME NEW d \in Dev PROVE IsStruct(ep'[d]) /\ ep'[d].state # BUSY /\ ep'[d].timer = Disarmed
      <4>1. CASE d = Target
        <5>1. ep'[d] = [ep[d] EXCEPT !.rejected = @ + 1]
          BY <1>1, <3>1, <4>1 DEF CampaignType
        <5>2. QED BY <1>4, <5>1 DEF IsStruct, StructFields
      <4>2. CASE d # Target
        BY <1>1, <1>4, <3>1, <4>2 DEF CampaignType
      <4>3. QED BY <4>1, <4>2
    <3>4. QED BY <3>2, <3>3
  <2>3. QED BY <2>1, <2>2 DEF EndRound, EndRecovery, vars
<1>6. CampaignType'
  BY <1>1, <1>2, <1>3, <1>5 DEF CampaignType
<1>7. DrainedInv'
  BY <1>1 DEF DrainedInv
<1>8. \A d \in Dev : EndpointOK(d)'
  BY <1>1, <1>2, <1>4, <1>5 DEF EndpointOK, InRound
<1>9. QED BY <1>6, <1>7, <1>8 DEF RoundInv

LEMMA CampaignStarts == CampaignInit => RoundInv
<1> SUFFICES ASSUME CampaignInit PROVE RoundInv
  OBVIOUS
<1>1. /\ present = Dev /\ ep = [d \in Dev |-> NewEndpoint] /\ ram = [d \in Dev |-> ZeroMemory]
      /\ link_free_ns = 0 /\ now = 0 /\ stage = "start" /\ queue = <<>> /\ words \in Sizes /\ case \in Cases
  BY CampaignAssumption DEF CampaignInit, Init
<1>2. IsStruct(NewEndpoint) /\ NewEndpoint.state # BUSY /\ NewEndpoint.timer = Disarmed
  BY DEF NewEndpoint, IsStruct, StructFields, IDLE, BUSY
<1>3. CampaignType
  BY <1>1 DEF CampaignType
<1>4. DrainedInv
  BY <1>1 DEF DrainedInv
<1>5. ASSUME NEW d \in Dev PROVE EndpointOK(d)
  <2>1. ep[d] = NewEndpoint /\ ram[d] = ZeroMemory
    BY <1>1
  <2>2. DOMAIN ram[d] = Word
    BY <2>1 DEF ZeroMemory
  <2>3. QED BY <1>1, <1>2, <2>1, <2>2 DEF EndpointOK, InRound
<1>6. QED BY <1>3, <1>4, <1>5 DEF RoundInv

LEMMA CampaignStutters ==
  ASSUME RoundInv, UNCHANGED allVars
  PROVE  RoundInv'
<1>1. /\ UNCHANGED <<words, case, schedule, round, scalar, stage, queue, ep, ram, present, link_free_ns, now>>
      /\ SameCell
  BY DEF allVars, vars, campaignVars, cellVars, SameCell
<1>2. CampaignType' /\ DrainedInv'
  BY <1>1 DEF RoundInv, CampaignType, DrainedInv, Busy
<1>3. ASSUME NEW d \in Dev PROVE EndpointOK(d)'
  <2>1. EndpointOK(d)
    BY DEF RoundInv
  <2>2. (Waiting(d)' <=> Waiting(d)) /\ (Running(d)' <=> Running(d)) /\ (Ended(d)' <=> Ended(d))
    BY <1>1, Alone
  <2>3. QED BY <1>1, <2>1, <2>2 DEF EndpointOK, InRound, Queued
<1>4. QED BY <1>2, <1>3 DEF RoundInv

(***************************************************************************)
(* Theorems                                                                *)
(***************************************************************************)
\* At every moment of a round each endpoint waits with its input in place, is at
\* work on this round's job and no other, or has ended it as the driver expects
\* (driver.py's rounds on the submit() and complete() of cxl_slugarch.c).
THEOREM RoundSafe == CampaignSpec => []RoundInv
<1>1. CampaignInit => RoundInv
  BY CampaignStarts
<1>2. RoundInv /\ [CampaignNext]_allVars => RoundInv'
  <2>1. SUFFICES ASSUME RoundInv, [CampaignNext]_allVars PROVE RoundInv'
    OBVIOUS
  <2>2. QED BY <2>1, RoundStarted, JobSubmitted, SubmissionsOver, ClockStepped, TimerRan, RoundDrained,
               RoundOver, CampaignStutters DEF CampaignNext
<1>3. QED BY <1>1, <1>2, PTL DEF CampaignSpec

\* At the end of a round no endpoint waits or is at work.
LEMMA AllEnded ==
  ASSUME RoundInv, stage = "check"
  PROVE  \A d \in Dev : Ended(d)
<1>1. ASSUME NEW d \in Dev PROVE Ended(d)
  <2>1. queue = <<>> /\ ep[d].state # BUSY /\ EndpointOK(d)
    BY DEF RoundInv, DrainedInv, Busy
  <2>2. QED BY <2>1 DEF EndpointOK, InRound, Queued, Running
<1>2. QED BY <1>1

\* The checks that experiment.py and correctness.py make of endpoints without a
\* fault never fail: done, the right output in place, and the two records of this
\* job and no other, for any number of endpoints, in any order and any schedule.
THEOREM RoundEvidenceSafe == CampaignSpec => []RoundEvidence
<1>1. RoundInv => RoundEvidence
  BY AllEnded DEF RoundEvidence, Ended, DoneEvidence
<1>2. QED BY <1>1, RoundSafe, PTL

\* Each fault that correctness.py injects is reported by its endpoint under its
\* own name, and the output is stored only if the completion record is what failed.
THEOREM FaultEvidenceSafe == CampaignSpec => []FaultEvidence
<1>1. RoundInv => FaultEvidence
  BY AllEnded DEF FaultEvidence, Ended, FailedEvidence
<1>2. QED BY <1>1, RoundSafe, PTL
=============================================================================
