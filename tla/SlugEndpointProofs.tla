------------------------- MODULE SlugEndpointProofs -------------------------
(***************************************************************************)
(* The gate: type correctness, the invariant its evidence properties rest  *)
(* on, what that evidence says about what happened over time, and the      *)
(* contract it implements.                                                 *)
(***************************************************************************)
EXTENDS SlugEndpointRefinement, TLAPS


(***************************************************************************)
(* Type correctness of SlugEndpoint: one lemma per operator that builds a  *)
(* record, a vector or a device structure, one per action.                 *)
(***************************************************************************)

LEMMA AppendTyped ==
  ASSUME NEW S, NEW log \in Seq(S), NEW r \in S
  PROVE  Append(log, r) \in Seq(S)
OBVIOUS

LEMMA RecordTyped ==
  ASSUME NEW s \in EndpointType, NEW kind \in 0..4, NEW data \in Vector, NEW t \in Nat
  PROVE  Record(s, kind, data, t) \in RecordType
<1>1. Job(s) \in [JobField -> Reg]
  BY DEF Job, EndpointType, Field, JobField
<1>2. Len(s.log) + 1 \in Nat /\ s.epoch \in Reg /\ s.committed \in Bit
  BY DEF EndpointType
<1>3. QED BY <1>1, <1>2 DEF Record, RecordType

LEMMA NoVectorTyped == NoVector \in Vector
<1>1. <<>> \in [1..0 -> Reg]
  OBVIOUS
<1>2. 0 \in 0..MaxWords
  BY SizeAssumption
<1>3. QED BY <1>1, <1>2 DEF NoVector, Vector

LEMMA FailTyped ==
  ASSUME NEW s \in EndpointType, NEW error \in Error, NEW t \in Nat
  PROVE  Fail(s, error, t) \in EndpointType
<1>1. Record(s, PostFailure, s.output, t) \in RecordType
  BY RecordTyped DEF EndpointType, PostFailure
<1>2. Record(s, PreFailure, NoVector, t) \in RecordType
  BY RecordTyped, NoVectorTyped DEF PreFailure
<1>3. PICK r \in RecordType : r = IF s.committed = 1
                                  THEN Record(s, PostFailure, s.output, t)
                                  ELSE Record(s, PreFailure, NoVector, t)
  BY <1>1, <1>2
<1>4. PICK st \in State : st = IF s.committed = 1 THEN POSTFAIL ELSE PREFAIL
  BY DEF State
<1>5. PICK n \in Nat : n = s.failures + 1
  BY DEF EndpointType
<1>6. [s EXCEPT !.error = error, !.state = st, !.finished = t,
                !.failures = n, !.failure = r] \in EndpointType
  BY DEF EndpointType
<1>7. QED BY <1>3, <1>4, <1>5, <1>6 DEF Fail

LEMMA ZeroRecordTyped == ZeroRecord \in RecordType
BY NoVectorTyped, SizeAssumption DEF ZeroRecord, RecordType, Reg, Bit

LEMMA NewEndpointTyped == NewEndpoint \in EndpointType
BY NoVectorTyped, ZeroRecordTyped, SizeAssumption
   DEF NewEndpoint, EndpointType, Reg, Bit, State, IDLE, Error, Phase

LEMMA ClearedTyped ==
  ASSUME NEW s \in EndpointType
  PROVE  Cleared(s) \in EndpointType
<1>1. PICK z \in Nat : z = 0
  OBVIOUS
<1>2. PICK b \in Bit : b = 0
  BY DEF Bit
<1>3. PICK e \in Error : e = "E_NONE"
  BY DEF Error
<1>4. PICK r \in RecordType : r = ZeroRecord
  BY ZeroRecordTyped
<1>5. QED BY <1>1, <1>2, <1>3, <1>4 DEF Cleared, EndpointType

LEMMA SnapshotTyped ==
  ASSUME NEW mem \in [Word -> Reg], NEW src \in Reg, NEW words \in Reg,
         words <= MaxWords, RangeValid(src, 8 * words)
  PROVE  Snapshot(mem, src, words) \in Vector
<1>1. words \in 0..MaxWords
  BY SizeAssumption DEF Reg
<1>2. ASSUME NEW i \in 1..words PROVE (src \div 8) + i - 1 \in Word
  BY <1>2, SizeAssumption DEF RangeValid, Word, Reg
<1>3. Snapshot(mem, src, words) \in [1..words -> Reg]
  BY <1>2 DEF Snapshot
<1>4. QED BY <1>1, <1>3 DEF Vector

LEMMA VectorJobTyped ==
  ASSUME NEW input \in Vector, NEW scalar \in Reg
  PROVE  VectorJob(input, scalar) \in Vector
<1>1. PICK n \in 0..MaxWords : input \in [1..n -> Reg]
  BY DEF Vector
<1>2. ASSUME NEW i \in 1..n
      PROVE (3 * input[i] + scalar + i - 1) % (MaxReg + 1) \in Reg
  <2>1. 3 * input[i] + scalar + i - 1 \in Int /\ MaxReg + 1 \in Nat \ {0}
    BY <1>1, SizeAssumption DEF Reg
  <2>2. QED BY <2>1, SizeAssumption DEF Reg
<1>3. VectorJob(input, scalar) \in [1..n -> Reg]
  BY <1>1, <1>2 DEF VectorJob
<1>4. QED BY <1>3 DEF Vector

LEMMA StoredTyped ==
  ASSUME NEW mem \in [Word -> Reg], NEW dst, NEW output \in Vector
  PROVE  Stored(mem, dst, output) \in [Word -> Reg]
BY DEF Stored, Vector

LEMMA SerializationTyped ==
  ASSUME NEW words \in Nat
  PROVE  Serialization(words) \in Nat
<1>1. 8 * words + Bandwidth - 1 \in Nat /\ Bandwidth \in Nat \ {0}
  BY CostAssumption
<1>2. ASSUME NEW a \in Nat, NEW b \in Nat \ {0} PROVE a \div b \in Nat
  OBVIOUS
<1>3. QED BY <1>1, <1>2 DEF Serialization

\* The checks of submit(), read off for the accepted descriptor.
LEMMA AcceptedDescriptor ==
  ASSUME NEW s, NEW d, NEW t, SubmitError(s, d, t) = "E_NONE"
  PROVE  /\ s.desc["job_epoch"] = s.epoch
         /\ DescriptorValid(s.desc, t)
         /\ RangeValid(s.desc["src"], 8 * s.desc["words"])
         /\ RangeValid(s.desc["dst"], 8 * s.desc["words"])
         /\ Gate(d) => Len(s.log) + 2 <= s.capacity
BY DEF SubmitError, RoomForPair

LEMMA SubmitErrorTyped ==
  ASSUME NEW s, NEW d, NEW t
  PROVE  SubmitError(s, d, t) \in Error
BY DEF SubmitError, Error

LEMMA AcceptTyped ==
  ASSUME NEW s \in EndpointType, NEW d \in Dev, NEW mem \in [Word -> Reg],
         NEW t \in Nat, SubmitError(s, d, t) = "E_NONE"
  PROVE  /\ Accept(s, d, mem, t) \in EndpointType
         /\ Accept(s, d, mem, t).timer \in Nat
<1>0. s.desc \in [Field -> Reg] /\ s.log \in Seq(RecordType)
  BY DEF EndpointType
<1>1. /\ s.desc["words"] \in Reg /\ s.desc["src"] \in Reg
      /\ s.desc["release"] \in Nat /\ s.desc["words"] \in Nat
  BY <1>0, SizeAssumption DEF Field, Reg
<1>2. Snapshot(mem, s.desc["src"], s.desc["words"]) \in Vector
  BY <1>1, AcceptedDescriptor, SnapshotTyped DEF DescriptorValid
<1>3. PICK in \in Vector : in = Snapshot(mem, s.desc["src"], s.desc["words"])
  BY <1>2
<1>4. PICK start \in Nat : start = s.desc["release"] + RecordCost(d)
  BY <1>1, CostAssumption DEF RecordCost
<1>5. s.desc["words"] * ComputeNs \in Nat
  BY <1>1, CostAssumption
<1>6. PICK finish \in Nat : finish = start + s.desc["words"] * ComputeNs
  BY <1>5
<1>7. PICK log \in Seq(RecordType) :
        log = IF Gate(d) THEN Append(s.log, Record(s, Request, in, t)) ELSE s.log
  <2>1. Record(s, Request, in, t) \in RecordType
    BY RecordTyped DEF Request
  <2>2. Append(s.log, Record(s, Request, in, t)) \in Seq(RecordType)
    BY <2>1, <1>0, AppendTyped
  <2>3. QED BY <2>2, <1>0, Zenon
<1>8. PICK n \in Nat : n = IF Gate(d) THEN s.requests + 1 ELSE s.requests
  BY DEF EndpointType
<1>9. PICK none \in Vector : none = NoVector
  BY NoVectorTyped
<1>10. PICK st \in State : st = BUSY
  BY DEF State
<1>11. PICK ph \in Phase : ph = "COMPUTE_END"
  BY DEF Phase
<1>12. Accept(s, d, mem, t) =
         [s EXCEPT !.input = in, !.output = none, !.log = log, !.requests = n,
                   !.compute_start = start, !.compute_end = finish,
                   !.phase = ph, !.state = st, !.timer = finish]
  BY <1>3, <1>4, <1>6, <1>7, <1>8, <1>9, <1>10, <1>11, Zenon DEF Accept
<1>13. PICK at \in Nat \cup {Disarmed} : at = finish
  OBVIOUS
<1>14. [s EXCEPT !.input = in, !.output = none, !.log = log, !.requests = n,
                 !.compute_start = start, !.compute_end = finish,
                 !.phase = ph, !.state = st, !.timer = at] \in EndpointType
  BY DEF EndpointType
<1>15. Accept(s, d, mem, t).timer = finish
  BY <1>12 DEF EndpointType
<1>16. QED BY <1>12, <1>13, <1>14, <1>15

LEMMA FinishedTyped ==
  ASSUME NEW s \in EndpointType, NEW d, NEW t \in Nat
  PROVE  Finished(s, d, t) \in EndpointType
<1>1. PICK log \in Seq(RecordType) :
        log = IF Gate(d) THEN Append(s.log, Record(s, Completion, s.output, t))
              ELSE s.log
  <2>1. s.log \in Seq(RecordType) /\ s.output \in Vector
    BY DEF EndpointType
  <2>2. Record(s, Completion, s.output, t) \in RecordType
    BY <2>1, RecordTyped DEF Completion
  <2>3. Append(s.log, Record(s, Completion, s.output, t)) \in Seq(RecordType)
    BY <2>1, <2>2, AppendTyped
  <2>4. QED BY <2>1, <2>3, Zenon
<1>2. PICK n \in Nat : n = IF Gate(d) THEN s.completions + 1 ELSE s.completions
  BY DEF EndpointType
<1>3. PICK st \in State : st = DONE
  BY DEF State
<1>4. PICK off \in Nat \cup {Disarmed} : off = Disarmed
  OBVIOUS
<1>5. QED BY <1>1, <1>2, <1>3, <1>4 DEF Finished, EndpointType

LEMMA ForgetTyped ==
  ASSUME TypeOK, NEW d \in Dev
  PROVE  /\ Forget(d) \subseteq Dev \X Dev
         /\ \A at : Arm(d, at) => ahead' \subseteq Dev \X Dev
BY DEF TypeOK, Forget, Arm

LEMMA UpdateTyped ==
  ASSUME TypeOK, NEW d \in Dev, NEW s \in EndpointType, Update(d, s)
  PROVE  ep' \in [Dev -> EndpointType]
BY DEF TypeOK, Update

LEMMA TypeInit == Init => TypeOK
<1>1. ZeroMemory \in [Word -> Reg]
  BY SizeAssumption DEF ZeroMemory, Reg
<1>2. QED BY <1>1, NewEndpointTyped, DevAssumption DEF Init, TypeOK

LEMMA WriteFieldType ==
  ASSUME TypeOK, NEW d \in Dev, NEW f \in Field, NEW v \in FieldValues[f],
         WriteField(d, f, v)
  PROVE  TypeOK'
<1>1. ep[d] \in EndpointType /\ v \in Reg
  BY InputAssumption DEF TypeOK
<1>2. PICK new \in [Field -> Reg] : new = [ep[d].desc EXCEPT ![f] = v]
  BY <1>1 DEF EndpointType
<1>3. [ep[d] EXCEPT !.desc = new] \in EndpointType
  BY <1>1 DEF EndpointType
<1>4. ep' \in [Dev -> EndpointType]
  BY <1>2, <1>3, UpdateTyped DEF WriteField
<1>5. QED BY <1>4 DEF WriteField, TypeOK

LEMMA WriteEpochType ==
  ASSUME TypeOK, NEW d \in Dev, NEW v \in EpochValues, WriteEpoch(d, v)
  PROVE  TypeOK'
<1>1. ep[d] \in EndpointType /\ v \in Reg
  BY InputAssumption DEF TypeOK
<1>2. PICK log \in Seq(RecordType) : log = <<>>
  <2>1. <<>> \in Seq(RecordType)
    OBVIOUS
  <2>2. QED BY <2>1, Zenon
<1>3. IDLE \in State /\ "E_NONE" \in Error /\ 0 \in Bit /\ ZeroRecord \in RecordType
  BY ZeroRecordTyped DEF State, Error, Bit
<1>4. [ep[d] EXCEPT !.epoch = v, !.log = log, !.state = IDLE, !.error = "E_NONE",
                    !.committed = 0, !.failure = ZeroRecord] \in EndpointType
  BY <1>1, <1>3 DEF EndpointType
<1>5. ep' \in [Dev -> EndpointType]
  BY <1>2, <1>4, UpdateTyped DEF WriteEpoch, NewEpoch
<1>6. QED BY <1>5 DEF WriteEpoch, TypeOK

LEMMA WriteCapacityType ==
  ASSUME TypeOK, NEW d \in Dev, NEW v \in CapacityValues, WriteCapacity(d, v)
  PROVE  TypeOK'
<1>1. ep[d] \in EndpointType /\ v \in Reg
  BY InputAssumption DEF TypeOK
<1>2. [ep[d] EXCEPT !.capacity = v] \in EndpointType
  BY <1>1 DEF EndpointType
<1>3. ep' \in [Dev -> EndpointType]
  BY <1>2, UpdateTyped DEF WriteCapacity
<1>4. QED BY <1>3 DEF WriteCapacity, TypeOK

LEMMA RefuseType ==
  ASSUME TypeOK, NEW d \in Dev, Refuse(d)
  PROVE  TypeOK'
<1>1. ep[d] \in EndpointType /\ now \in Nat
  BY DEF TypeOK
<1>2. Fail(Cleared(ep[d]), SubmitError(Cleared(ep[d]), d, now), now) \in EndpointType
  BY <1>1, ClearedTyped, SubmitErrorTyped, FailTyped
<1>3. ep' \in [Dev -> EndpointType]
  BY <1>2, UpdateTyped DEF Refuse
<1>4. QED BY <1>3 DEF Refuse, Doorbell, TypeOK

LEMMA SubmitType ==
  ASSUME TypeOK, NEW d \in Dev, Submit(d)
  PROVE  TypeOK'
<1>1. ep[d] \in EndpointType /\ now \in Nat /\ ram[d] \in [Word -> Reg]
  BY DEF TypeOK
<1>2. Accept(Cleared(ep[d]), d, ram[d], now) \in EndpointType
  BY <1>1, ClearedTyped, AcceptTyped DEF Submit
<1>3. ep' \in [Dev -> EndpointType]
  BY <1>2, UpdateTyped DEF Submit
<1>4. ahead' \subseteq Dev \X Dev
  BY ForgetTyped DEF Submit
<1>5. QED BY <1>3, <1>4 DEF Submit, Doorbell, TypeOK

LEMMA RejectWriteType ==
  ASSUME TypeOK, NEW d \in Dev, RejectWrite(d)
  PROVE  TypeOK'
<1>1. ep[d] \in EndpointType
  BY DEF TypeOK
<1>2. PICK n \in Nat : n = ep[d].rejected + 1
  BY <1>1 DEF EndpointType
<1>3. [ep[d] EXCEPT !.rejected = n] \in EndpointType
  BY <1>1 DEF EndpointType
<1>4. ep' \in [Dev -> EndpointType]
  BY <1>2, <1>3, UpdateTyped DEF RejectWrite
<1>5. QED BY <1>4 DEF RejectWrite, TypeOK

LEMMA ComputeEndType ==
  ASSUME TypeOK, NEW d \in Dev, ComputeEnd(d)
  PROVE  TypeOK'
<1>1. ep[d] \in EndpointType /\ now \in Nat /\ link_free_ns \in Nat
  BY DEF TypeOK
<1>2. ep[d].desc \in [Field -> Reg] /\ ep[d].input \in Vector
  BY <1>1 DEF EndpointType
<1>3. ep[d].desc["scalar"] \in Reg /\ ep[d].desc["words"] \in Nat
  BY <1>2, SizeAssumption DEF Field, Reg
<1>4. PICK out \in Vector : out = VectorJob(ep[d].input, ep[d].desc["scalar"])
  BY <1>2, <1>3, VectorJobTyped
<1>5. PICK start \in Nat : start = MaxOf(now, link_free_ns)
  BY <1>1 DEF MaxOf
<1>6. PICK wait \in Nat : wait = start - now
  BY <1>1, <1>5 DEF MaxOf
<1>7. PICK sent \in Nat : sent = start + Serialization(ep[d].desc["words"])
  BY <1>3, SerializationTyped
<1>8. PICK end \in Nat : end = sent + LinkNs
  BY CostAssumption
<1>9. "LINK_END" \in Phase /\ end \in Nat \cup {Disarmed}
  BY DEF Phase
<1>10. [ep[d] EXCEPT !.output = out, !.link_start = start, !.queue_wait = wait,
                     !.link_end = end, !.phase = "LINK_END", !.timer = end]
         \in EndpointType
  BY <1>1, <1>9 DEF EndpointType
<1>11. Update(d, [ep[d] EXCEPT !.output = out, !.link_start = start,
                               !.queue_wait = wait, !.link_end = end,
                               !.phase = "LINK_END", !.timer = end])
  BY <1>4, <1>5, <1>6, <1>7, <1>8, Zenon DEF ComputeEnd
<1>12. ep' \in [Dev -> EndpointType]
  BY <1>10, <1>11, UpdateTyped
<1>13. ahead' \subseteq Dev \X Dev /\ link_free_ns' \in Nat
  BY <1>5, <1>7, ForgetTyped DEF ComputeEnd
<1>14. QED BY <1>12, <1>13 DEF ComputeEnd, TypeOK

LEMMA LinkEndType ==
  ASSUME TypeOK, NEW d \in Dev, LinkEnd(d)
  PROVE  TypeOK'
<1>1. ep[d] \in EndpointType /\ now \in Nat /\ ram[d] \in [Word -> Reg]
  BY DEF TypeOK
<1>2. Stored(ram[d], ep[d].desc["dst"], ep[d].output) \in [Word -> Reg]
  BY <1>1, StoredTyped DEF EndpointType
<1>3. PICK at \in Nat \cup {Disarmed} : at = now + RecordCost(d)
  BY <1>1, CostAssumption DEF RecordCost
<1>4. "RECORD_END" \in Phase /\ 1 \in Bit
  BY DEF Phase, Bit
<1>5. [ep[d] EXCEPT !.committed = 1, !.phase = "RECORD_END", !.timer = at]
        \in EndpointType
  BY <1>1, <1>4 DEF EndpointType
<1>6. ep' \in [Dev -> EndpointType]
  BY <1>3, <1>5, UpdateTyped DEF LinkEnd, Landed
<1>7. ram' \in [Dev -> [Word -> Reg]]
  BY <1>2 DEF LinkEnd, TypeOK
<1>8. ahead' \subseteq Dev \X Dev
  BY ForgetTyped DEF LinkEnd
<1>9. QED BY <1>6, <1>7, <1>8 DEF LinkEnd, TypeOK

LEMMA RecordEndType ==
  ASSUME TypeOK, NEW d \in Dev, RecordEnd(d)
  PROVE  TypeOK'
<1>1. Finished(ep[d], d, now) \in EndpointType
  BY FinishedTyped DEF TypeOK
<1>2. ep' \in [Dev -> EndpointType] /\ ahead' \subseteq Dev \X Dev
  BY <1>1, UpdateTyped, ForgetTyped DEF RecordEnd
<1>3. QED BY <1>2 DEF RecordEnd, TypeOK

LEMMA RecordFaultType ==
  ASSUME TypeOK, NEW d \in Dev, RecordFault(d)
  PROVE  TypeOK'
<1>1. ep[d] \in EndpointType /\ now \in Nat /\ "E_COMPLETION" \in Error
  BY DEF TypeOK, Error
<1>2. PICK s \in EndpointType : s = Fail(ep[d], "E_COMPLETION", now)
  BY <1>1, FailTyped
<1>3. [s EXCEPT !.timer = Disarmed] \in EndpointType
  BY DEF EndpointType
<1>4. ep' \in [Dev -> EndpointType] /\ ahead' \subseteq Dev \X Dev
  BY <1>2, <1>3, UpdateTyped, ForgetTyped DEF RecordFault
<1>5. QED BY <1>4 DEF RecordFault, TypeOK

LEMMA HostStoreType ==
  ASSUME TypeOK, NEW d \in Dev, NEW w \in Word, NEW v \in StoreValues,
         HostStore(d, w, v)
  PROVE  TypeOK'
<1>1. v \in Reg
  BY InputAssumption
<1>2. ram' \in [Dev -> [Word -> Reg]] /\ base' \in [Dev -> [Word -> Reg]]
  BY <1>1 DEF HostStore, TypeOK
<1>3. touched' \in [Dev -> SUBSET Word]
  BY DEF HostStore, TypeOK
<1>4. QED BY <1>2, <1>3 DEF HostStore, TypeOK

LEMMA PlugType ==
  ASSUME TypeOK, NEW d \in Dev, Realize(d) \/ Unplug(d)
  PROVE  TypeOK'
<1>1. ZeroMemory \in [Word -> Reg]
  BY SizeAssumption DEF ZeroMemory, Reg
<1>2. ahead' \subseteq Dev \X Dev
  BY ForgetTyped DEF Realize, Unplug, TypeOK
<1>3. /\ present' \subseteq Dev /\ link_free_ns' \in Nat /\ now' \in Nat
      /\ ep' \in [Dev -> EndpointType]
  BY NewEndpointTyped DEF Realize, Unplug, LinkAfter, TypeOK
<1>4. /\ ram' = [ram EXCEPT ![d] = ZeroMemory]
      /\ base' = [base EXCEPT ![d] = ZeroMemory]
      /\ touched' = [touched EXCEPT ![d] = {}]
  BY DEF Realize, Unplug
<1>5. ram' \in [Dev -> [Word -> Reg]] /\ base' \in [Dev -> [Word -> Reg]]
  BY <1>1, <1>4 DEF TypeOK
<1>6. touched' \in [Dev -> SUBSET Word]
  BY <1>4 DEF TypeOK
<1>7. QED BY <1>2, <1>3, <1>5, <1>6 DEF TypeOK

\* Every register, record, memory word and timer of every endpoint keeps its
\* type: no callback or register write leaves the device structure malformed.
THEOREM TypeCorrect == Spec => []TypeOK
<1>1. TypeOK /\ [Next]_vars => TypeOK'
  <2> SUFFICES ASSUME TypeOK, [Next]_vars PROVE TypeOK'
    OBVIOUS
  <2>1. CASE UNCHANGED vars
    BY <2>1 DEF vars, TypeOK
  <2>2. CASE Tick
    BY <2>2 DEF Tick, TypeOK
  <2>3. ASSUME NEW d \in Dev, NEW f \in Field, NEW v \in FieldValues[f],
               WriteField(d, f, v)
        PROVE TypeOK'
    BY <2>3, WriteFieldType
  <2>4. ASSUME NEW d \in Dev, NEW v \in EpochValues, WriteEpoch(d, v)
        PROVE TypeOK'
    BY <2>4, WriteEpochType
  <2>5. ASSUME NEW d \in Dev, NEW v \in CapacityValues, WriteCapacity(d, v)
        PROVE TypeOK'
    BY <2>5, WriteCapacityType
  <2>6. ASSUME NEW d \in Dev, NEW w \in Word, NEW v \in StoreValues,
               HostStore(d, w, v)
        PROVE TypeOK'
    BY <2>6, HostStoreType
  <2>7. ASSUME NEW d \in Dev, \/ Refuse(d) \/ Submit(d) \/ RejectWrite(d)
        PROVE TypeOK'
    BY <2>7, RefuseType, SubmitType, RejectWriteType
  <2>8. ASSUME NEW d \in Dev,
               \/ ComputeEnd(d) \/ LinkEnd(d) \/ RecordEnd(d) \/ RecordFault(d)
        PROVE TypeOK'
    BY <2>8, ComputeEndType, LinkEndType, RecordEndType, RecordFaultType
  <2>9. ASSUME NEW d \in Dev, Realize(d) \/ Unplug(d)
        PROVE TypeOK'
    BY <2>9, PlugType
  <2>10. QED BY <2>1, <2>2, <2>3, <2>4, <2>5, <2>6, <2>7, <2>8, <2>9 DEF Next
<1>2. QED BY <1>1, TypeInit, PTL DEF Spec

(***************************************************************************)
(* The evidence properties of the gate, for every set of devices, register *)
(* width, memory size, log size and cost: EndpointInv is inductive.  Each  *)
(* device structure changes by one of the operators of SlugEndpoint, so    *)
(* the argument is one lemma per operator and one step per part of         *)
(* DeviceInv it can disturb.                                               *)
(***************************************************************************)

LEMMA LogFacts ==
  ASSUME NEW s \in EndpointType
  PROVE  /\ s.log \in Seq(RecordType) /\ Len(s.log) \in Nat
         /\ s.desc \in [Field -> Reg]
         /\ s.timer \in Nat \cup {Disarmed}
         /\ s.committed \in {0, 1}
         /\ s.state \in State /\ s.capacity \in Nat
BY SizeAssumption DEF EndpointType, Bit, Reg

LEMMA AppendFacts ==
  ASSUME NEW S, NEW log \in Seq(S), NEW r \in S
  PROVE  /\ Len(Append(log, r)) = Len(log) + 1
         /\ Append(log, r)[Len(log) + 1] = r
         /\ \A i \in 1..Len(log) : Append(log, r)[i] = log[i]
OBVIOUS

LEMMA EvenStep ==
  /\ \A n \in Nat : Even(n + 1) <=> ~Even(n)
  /\ Even(0)
BY DEF Even

\* A step that leaves the log, its epoch and the frozen input alone, and does
\* not start or end a job, keeps the trail.
LEMMA TrailSame ==
  ASSUME NEW s \in EndpointType, NEW n \in EndpointType, TrailOK(s),
         n.log = s.log, n.epoch = s.epoch, n.input = s.input,
         n.state \in {BUSY, POSTFAIL} <=> s.state \in {BUSY, POSTFAIL},
         n.state = BUSY => s.state = BUSY /\ n.desc = s.desc
  PROVE  TrailOK(n)
BY DEF TrailOK, InPlace, Job

\* The request record, appended to a complete trail, starts a new pair.
LEMMA TrailRequest ==
  ASSUME NEW s \in EndpointType, NEW n \in EndpointType, NEW in \in Vector,
         NEW t \in Nat, TrailOK(s),
         s.state \notin {BUSY, POSTFAIL}, s.committed = 0,
         n.log = Append(s.log, Record(s, Request, in, t)),
         n.epoch = s.epoch, n.input = in, n.desc = s.desc, n.state = BUSY
  PROVE  TrailOK(n)
<1> DEFINE len == Len(s.log)
           r == Record(s, Request, in, t)
<1>1. s.log \in Seq(RecordType) /\ len \in Nat /\ r \in RecordType
  BY LogFacts, RecordTyped DEF Request
<1>2. /\ Len(n.log) = len + 1 /\ n.log[len + 1] = r
      /\ \A i \in 1..len : n.log[i] = s.log[i]
  BY <1>1, AppendFacts
<1>3. Even(len) /\ ~Even(len + 1)
  <2>1. Even(len)
    BY DEF TrailOK
  <2>2. QED BY <2>1, <1>1, EvenStep
<1>4. /\ r.sequence = len + 1 /\ r.epoch = n.epoch /\ r.kind = Request
      /\ r.committed = 0 /\ r.job = Job(s) /\ r.digest = in
  BY DEF Record
<1>5. ASSUME NEW i \in 1..Len(n.log) PROVE InPlace(n, i)
  <2>1. CASE i = len + 1
    BY <2>1, <1>2, <1>3, <1>4 DEF InPlace
  <2>2. CASE i \in 1..len
    BY <2>2, <1>2 DEF InPlace, TrailOK
  <2>3. QED BY <2>1, <2>2, <1>1, <1>2
<1>6. ASSUME NEW i \in 2..Len(n.log), Even(i)
      PROVE Answers(n.log[i], n.log[i - 1])
  <2>1. i # len + 1
    BY <1>3, <1>6
  <2>2. i \in 2..len /\ i \in 1..len /\ i - 1 \in 1..len
    BY <2>1, <1>1, <1>2
  <2>3. QED BY <2>2, <1>2, <1>6 DEF TrailOK
<1>7. Job(n) = Job(s)
  BY DEF Job
<1>8. QED BY <1>2, <1>3, <1>4, <1>5, <1>6, <1>7 DEF TrailOK, BUSY, POSTFAIL

\* The completion record, appended while the job's request is last, closes the
\* pair with the output computed from the frozen input.
LEMMA TrailCompletion ==
  ASSUME NEW s \in EndpointType, NEW n \in EndpointType, NEW t \in Nat,
         TrailOK(s), s.state = BUSY, s.committed = 1,
         s.output = VectorJob(s.input, s.desc["scalar"]),
         n.log = Append(s.log, Record(s, Completion, s.output, t)),
         n.epoch = s.epoch, n.state = DONE
  PROVE  TrailOK(n)
<1> DEFINE len == Len(s.log)
           r == Record(s, Completion, s.output, t)
<1>1. s.log \in Seq(RecordType) /\ len \in Nat /\ r \in RecordType
  <2>1. s.output \in Vector
    BY DEF EndpointType
  <2>2. QED BY <2>1, LogFacts, RecordTyped DEF Completion
<1>2. /\ Len(n.log) = len + 1 /\ n.log[len + 1] = r
      /\ \A i \in 1..len : n.log[i] = s.log[i]
  BY <1>1, AppendFacts
<1>3. ~Even(len) /\ Even(len + 1) /\ len # 0
  <2>1. ~Even(len)
    BY DEF TrailOK
  <2>2. QED BY <2>1, <1>1, EvenStep
<1>4. /\ r.sequence = len + 1 /\ r.epoch = n.epoch /\ r.kind = Completion
      /\ r.committed = 1 /\ r.job = Job(s) /\ r.digest = s.output
  BY DEF Record
<1>5. ASSUME NEW i \in 1..Len(n.log) PROVE InPlace(n, i)
  <2>1. CASE i = len + 1
    BY <2>1, <1>2, <1>3, <1>4 DEF InPlace
  <2>2. CASE i \in 1..len
    BY <2>2, <1>2 DEF InPlace, TrailOK
  <2>3. QED BY <2>1, <2>2, <1>1, <1>2
<1>6. ASSUME NEW i \in 2..Len(n.log), Even(i)
      PROVE Answers(n.log[i], n.log[i - 1])
  <2>1. CASE i = len + 1
    <3>1. n.log[i] = r /\ n.log[i - 1] = s.log[len]
      BY <2>1, <1>1, <1>2, <1>3
    <3>2. s.log[len].digest = s.input /\ s.log[len].job = Job(s)
      BY <1>3 DEF TrailOK
    <3>3. Job(s)["scalar"] = s.desc["scalar"]
      BY DEF Job, JobField
    <3>4. QED BY <3>1, <3>2, <3>3, <1>4 DEF Answers
  <2>2. CASE i # len + 1
    <3>1. i \in 2..len /\ i \in 1..len /\ i - 1 \in 1..len
      BY <2>2, <1>1, <1>2
    <3>2. QED BY <3>1, <1>2, <1>6 DEF TrailOK
  <2>3. QED BY <2>1, <2>2
<1>7. QED BY <1>2, <1>3, <1>5, <1>6 DEF TrailOK, BUSY, POSTFAIL, DONE

LEMMA NewEndpointInv ==
  ASSUME NEW d \in Dev
  PROVE  DeviceInv(d, NewEndpoint)
<1> DEFINE n == NewEndpoint
<1>1. /\ n.state = IDLE /\ n.error = "E_NONE" /\ n.log = <<>> /\ n.committed = 0
      /\ n.timer = Disarmed /\ n.failure = ZeroRecord /\ n.capacity = MaxRecords
  BY DEF NewEndpoint
<1>2. Len(n.log) = 0 /\ Even(0)
  BY <1>1, EvenStep
<1>3. TrailOK(n)
  BY <1>1, <1>2 DEF TrailOK, IDLE, BUSY, POSTFAIL
<1>4. TimerOK(n) /\ OutputOK(n) /\ FailureOK(n) /\ SuccessOK(d, n)
  BY <1>1 DEF TimerOK, OutputOK, FailureOK, SuccessOK,
              IDLE, BUSY, DONE, PREFAIL, POSTFAIL
<1>5. RoomOK(d, n)
  BY <1>1, <1>2, SizeAssumption DEF RoomOK, Reg, IDLE, BUSY
<1>6. QED BY <1>1, <1>3, <1>4, <1>5 DEF DeviceInv, IDLE, POSTFAIL

\* A register write outside BUSY touches none of the evidence.
LEMMA RegisterInv ==
  ASSUME NEW d \in Dev, NEW s \in EndpointType, NEW n \in EndpointType,
         DeviceInv(d, s),
         n.state = s.state, n.error = s.error, n.epoch = s.epoch,
         n.log = s.log, n.committed = s.committed, n.finished = s.finished,
         n.compute_end = s.compute_end, n.link_end = s.link_end,
         n.phase = s.phase, n.input = s.input, n.output = s.output,
         n.failure = s.failure, n.timer = s.timer,
         s.state = BUSY => n.desc = s.desc /\ n.capacity = s.capacity,
         Len(s.log) <= n.capacity, n.capacity <= MaxRecords
  PROVE  DeviceInv(d, n)
<1>1. Gate(d) => TrailOK(n)
  BY TrailSame DEF DeviceInv
<1>2. TimerOK(n) /\ OutputOK(n) /\ FailureOK(n) /\ SuccessOK(d, n)
  BY DEF DeviceInv, TimerOK, OutputOK, FailureOK, SuccessOK
<1>3. RoomOK(d, n)
  BY DEF DeviceInv, RoomOK
<1>4. QED BY <1>1, <1>2, <1>3 DEF DeviceInv

LEMMA EpochInv ==
  ASSUME NEW d \in Dev, NEW s \in EndpointType, NEW n \in EndpointType,
         DeviceInv(d, s), Writable(s),
         n.state = IDLE, n.error = "E_NONE", n.log = <<>>, n.committed = 0,
         n.failure = ZeroRecord, n.timer = s.timer, n.capacity = s.capacity
  PROVE  DeviceInv(d, n)
<1>1. Len(n.log) = 0 /\ Even(0)
  BY EvenStep
<1>2. TrailOK(n)
  BY <1>1 DEF TrailOK, IDLE, BUSY, POSTFAIL
<1>3. TimerOK(n) /\ OutputOK(n) /\ FailureOK(n) /\ SuccessOK(d, n)
  BY DEF DeviceInv, Writable, TimerOK, OutputOK, FailureOK, SuccessOK,
         IDLE, BUSY, DONE, PREFAIL, POSTFAIL
<1>4. RoomOK(d, n)
  BY <1>1, LogFacts DEF DeviceInv, RoomOK, IDLE, BUSY
<1>5. QED BY <1>2, <1>3, <1>4 DEF DeviceInv, IDLE, POSTFAIL

\* What submit() has cleared when it looks at the descriptor.
LEMMA ClearedFacts ==
  ASSUME NEW d \in Dev, NEW s \in EndpointType, DeviceInv(d, s), Writable(s),
         s.state \notin {PREFAIL, POSTFAIL}
  PROVE  /\ Cleared(s) \in EndpointType
         /\ Cleared(s).state = s.state /\ Cleared(s).epoch = s.epoch
         /\ Cleared(s).log = s.log /\ Cleared(s).committed = 0
         /\ Cleared(s).desc = s.desc /\ Cleared(s).input = s.input
         /\ Cleared(s).timer = Disarmed /\ Cleared(s).capacity = s.capacity
         /\ Cleared(s).failure = ZeroRecord /\ Cleared(s).error = "E_NONE"
         /\ s.state \in {IDLE, DONE}
         /\ Gate(d) => TrailOK(Cleared(s))
<1>1. /\ Cleared(s).state = s.state /\ Cleared(s).epoch = s.epoch
      /\ Cleared(s).log = s.log /\ Cleared(s).committed = 0
      /\ Cleared(s).desc = s.desc /\ Cleared(s).input = s.input
      /\ Cleared(s).timer = s.timer /\ Cleared(s).capacity = s.capacity
      /\ Cleared(s).failure = ZeroRecord /\ Cleared(s).error = "E_NONE"
  BY DEF Cleared, EndpointType
<1>2. Cleared(s) \in EndpointType
  BY ClearedTyped
<1>3. s.timer = Disarmed /\ s.state \in {IDLE, DONE}
  BY LogFacts DEF DeviceInv, TimerOK, Writable, State
<1>4. Gate(d) => TrailOK(Cleared(s))
  BY <1>1, <1>2, TrailSame DEF DeviceInv
<1>5. QED BY <1>1, <1>2, <1>3, <1>4

LEMMA RefuseInv ==
  ASSUME NEW d \in Dev, NEW s \in EndpointType, DeviceInv(d, s), Writable(s),
         s.state \notin {PREFAIL, POSTFAIL}, NEW t \in Nat,
         NEW error \in Error, error # "E_NONE"
  PROVE  DeviceInv(d, Fail(Cleared(s), error, t))
<1> DEFINE c == Cleared(s)
           n == Fail(c, error, t)
           r == Record(c, PreFailure, NoVector, t)
<1>1. /\ c \in EndpointType /\ c.state = s.state /\ c.epoch = s.epoch
      /\ c.log = s.log /\ c.committed = 0 /\ c.timer = Disarmed
      /\ c.capacity = s.capacity /\ s.state \in {IDLE, DONE}
      /\ Gate(d) => TrailOK(c)
  BY ClearedFacts
<1>2. n \in EndpointType
  BY <1>1, FailTyped
<1> HIDE DEF c
<1>3. /\ n.state = PREFAIL /\ n.error = error /\ n.failure = r
      /\ n.log = c.log /\ n.epoch = c.epoch /\ n.committed = 0
      /\ n.timer = Disarmed /\ n.capacity = c.capacity /\ n.input = c.input
  BY <1>1 DEF Fail, EndpointType
<1>4. r.kind = PreFailure /\ r.committed = 0
  BY <1>1 DEF Record
<1> HIDE DEF n, r
<1>5. Gate(d) => TrailOK(n)
  BY <1>1, <1>2, <1>3, TrailSame DEF IDLE, DONE, PREFAIL, BUSY, POSTFAIL
<1>6. TimerOK(n) /\ OutputOK(n) /\ FailureOK(n) /\ SuccessOK(d, n)
  BY <1>3, <1>4 DEF TimerOK, OutputOK, FailureOK, SuccessOK,
                    IDLE, BUSY, DONE, PREFAIL, POSTFAIL
<1>7. RoomOK(d, n)
  BY <1>1, <1>3 DEF DeviceInv, RoomOK, PREFAIL, BUSY
<1>8. DeviceInv(d, n)
  BY <1>3, <1>5, <1>6, <1>7 DEF DeviceInv, PREFAIL, POSTFAIL, IDLE
<1>9. QED BY <1>8 DEF n, c

LEMMA AcceptInv ==
  ASSUME NEW d \in Dev, NEW s \in EndpointType, DeviceInv(d, s), Writable(s),
         s.state \notin {PREFAIL, POSTFAIL}, NEW t \in Nat,
         NEW mem \in [Word -> Reg], SubmitError(Cleared(s), d, t) = "E_NONE"
  PROVE  DeviceInv(d, Accept(Cleared(s), d, mem, t))
<1> DEFINE c == Cleared(s)
           n == Accept(c, d, mem, t)
           in == Snapshot(mem, c.desc["src"], c.desc["words"])
           r == Record(c, Request, in, t)
<1>1. /\ c \in EndpointType /\ c.state = s.state /\ c.epoch = s.epoch
      /\ c.log = s.log /\ c.committed = 0 /\ c.timer = Disarmed
      /\ c.capacity = s.capacity /\ s.state \in {IDLE, DONE}
      /\ c.failure = ZeroRecord /\ c.error = "E_NONE"
      /\ Gate(d) => TrailOK(c)
  BY ClearedFacts
<1> HIDE DEF c
<1>2. n \in EndpointType /\ n.timer \in Nat
  BY <1>1, AcceptTyped DEF c
<1>3. in \in Vector
  <2>1. c.desc["src"] \in Reg /\ c.desc["words"] \in Reg
    BY <1>1, LogFacts DEF Field
  <2>2. QED BY <2>1, AcceptedDescriptor, SnapshotTyped DEF DescriptorValid, c
<1>4. /\ n.state = BUSY /\ n.phase = "COMPUTE_END" /\ n.timer = n.compute_end
      /\ n.error = c.error /\ n.epoch = c.epoch /\ n.desc = c.desc
      /\ n.capacity = c.capacity /\ n.committed = 0 /\ n.failure = c.failure
      /\ n.input = in
      /\ n.log = IF Gate(d) THEN Append(c.log, r) ELSE c.log
  BY <1>1 DEF Accept, EndpointType
<1>5. Gate(d) => Len(c.log) + 2 <= c.capacity
  BY AcceptedDescriptor DEF c
<1>6. r \in RecordType /\ c.log \in Seq(RecordType) /\ Len(c.log) \in Nat
      /\ c.capacity \in Nat
  BY <1>1, <1>3, RecordTyped, LogFacts DEF Request
<1>7. Gate(d) => TrailOK(n)
  BY <1>1, <1>2, <1>3, <1>4, TrailRequest DEF IDLE, DONE, BUSY, POSTFAIL
<1> HIDE DEF n, r, in
<1>8. TimerOK(n) /\ OutputOK(n) /\ FailureOK(n) /\ SuccessOK(d, n)
  BY <1>1, <1>2, <1>4 DEF TimerOK, OutputOK, FailureOK, SuccessOK, Disarmed,
                    IDLE, BUSY, DONE, PREFAIL, POSTFAIL
<1>9. RoomOK(d, n)
  <2>1. CASE Gate(d)
    <3>1. Len(n.log) = Len(c.log) + 1
      BY <2>1, <1>4, <1>6, AppendFacts
    <3>2. QED BY <2>1, <3>1, <1>1, <1>4, <1>5, <1>6 DEF DeviceInv, RoomOK
  <2>2. CASE ~Gate(d)
    BY <2>2, <1>1, <1>4 DEF DeviceInv, RoomOK
  <2>3. QED BY <2>1, <2>2
<1>10. DeviceInv(d, n)
  BY <1>4, <1>7, <1>8, <1>9 DEF DeviceInv, BUSY, POSTFAIL, IDLE
<1>11. QED BY <1>10 DEF n, c

\* The compute and link callbacks of a running job.
LEMMA RunningInv ==
  ASSUME NEW d \in Dev, NEW s \in EndpointType, NEW n \in EndpointType,
         DeviceInv(d, s), s.state = BUSY,
         n.state = BUSY, n.error = s.error, n.epoch = s.epoch,
         n.desc = s.desc, n.capacity = s.capacity, n.log = s.log,
         n.input = s.input, n.failure = s.failure,
         n.timer # Disarmed, n.phase # "COMPUTE_END",
         n.phase = "LINK_END" => n.timer = n.link_end,
         n.committed = 1 <=> n.phase = "RECORD_END",
         n.output = VectorJob(s.input, s.desc["scalar"])
  PROVE  DeviceInv(d, n)
<1>1. Gate(d) => TrailOK(n)
  BY TrailSame DEF DeviceInv
<1>2. TimerOK(n) /\ OutputOK(n) /\ FailureOK(n) /\ SuccessOK(d, n)
  BY DEF DeviceInv, TimerOK, OutputOK, FailureOK, SuccessOK,
         BUSY, DONE, PREFAIL, POSTFAIL
<1>3. RoomOK(d, n)
  BY DEF DeviceInv, RoomOK
<1>4. QED BY <1>1, <1>2, <1>3 DEF DeviceInv, BUSY, IDLE, POSTFAIL

LEMMA FinishedInv ==
  ASSUME NEW d \in Dev, NEW s \in EndpointType, DeviceInv(d, s),
         s.state = BUSY, s.phase = "RECORD_END", NEW t \in Nat
  PROVE  DeviceInv(d, Finished(s, d, t))
<1> DEFINE n == Finished(s, d, t)
           r == Record(s, Completion, s.output, t)
<1>1. n \in EndpointType
  BY FinishedTyped
<1>2. /\ n.state = DONE /\ n.timer = Disarmed /\ n.finished = t
      /\ n.error = s.error /\ n.epoch = s.epoch /\ n.capacity = s.capacity
      /\ n.committed = s.committed /\ n.failure = s.failure
      /\ n.output = s.output
      /\ n.log = IF Gate(d) THEN Append(s.log, r) ELSE s.log
  BY DEF Finished, EndpointType
<1>3. s.committed = 1 /\ s.output = VectorJob(s.input, s.desc["scalar"])
  BY DEF DeviceInv, TimerOK, OutputOK
<1>4. s.output \in Vector /\ s.log \in Seq(RecordType) /\ Len(s.log) \in Nat
      /\ s.capacity \in Nat
  BY LogFacts DEF EndpointType
<1>5. r \in RecordType
  BY <1>4, RecordTyped DEF Completion
<1>6. Gate(d) => TrailOK(n)
  BY <1>1, <1>2, <1>3, TrailCompletion DEF DeviceInv
<1>7. r.kind = Completion /\ r.digest = s.output /\ r.time = t
  BY DEF Record
<1> HIDE DEF n, r
<1>8. Gate(d) => Len(n.log) = Len(s.log) + 1 /\ n.log[Len(s.log) + 1] = r
  BY <1>2, <1>4, <1>5, AppendFacts
<1>9. SuccessOK(d, n)
  BY <1>2, <1>3, <1>4, <1>7, <1>8 DEF SuccessOK
<1>10. TimerOK(n) /\ OutputOK(n) /\ FailureOK(n)
  BY <1>2 DEF DeviceInv, TimerOK, OutputOK, FailureOK,
              BUSY, DONE, PREFAIL, POSTFAIL
<1>11. RoomOK(d, n)
  BY <1>2, <1>4, <1>8 DEF DeviceInv, RoomOK, DONE, BUSY
<1>12. DeviceInv(d, n)
  BY <1>2, <1>6, <1>9, <1>10, <1>11 DEF DeviceInv, DONE, POSTFAIL, IDLE
<1>13. QED BY <1>12 DEF n

LEMMA FaultInv ==
  ASSUME NEW d \in Dev, NEW s \in EndpointType, DeviceInv(d, s), Gate(d),
         s.state = BUSY, s.phase = "RECORD_END", NEW t \in Nat
  PROVE  DeviceInv(d, [Fail(s, "E_COMPLETION", t) EXCEPT !.timer = Disarmed])
<1> DEFINE n == [Fail(s, "E_COMPLETION", t) EXCEPT !.timer = Disarmed]
           r == Record(s, PostFailure, s.output, t)
<1>1. s.committed = 1 /\ s.output = VectorJob(s.input, s.desc["scalar"])
  BY DEF DeviceInv, TimerOK, OutputOK
<1>2. /\ n.state = POSTFAIL /\ n.timer = Disarmed /\ n.error = "E_COMPLETION"
      /\ n.epoch = s.epoch /\ n.capacity = s.capacity /\ n.committed = 1
      /\ n.failure = r /\ n.log = s.log /\ n.input = s.input
  BY <1>1 DEF Fail, EndpointType
<1>3. n \in EndpointType
  <2>1. Fail(s, "E_COMPLETION", t) \in EndpointType
    BY FailTyped DEF Error
  <2>2. QED BY <2>1 DEF EndpointType
<1>4. /\ r.kind = PostFailure /\ r.committed = 1 /\ r.digest = s.output
      /\ r.sequence = Len(s.log) + 1 /\ r.job = Job(s)
  BY <1>1 DEF Record
<1> HIDE DEF n, r
<1>5. TrailOK(n)
  BY <1>2, <1>3, TrailSame DEF DeviceInv, BUSY, POSTFAIL
<1>6. Answers(r, s.log[Len(s.log)])
  <2>1. s.log[Len(s.log)].digest = s.input /\ s.log[Len(s.log)].job = Job(s)
    BY DEF DeviceInv, TrailOK
  <2>2. Job(s)["scalar"] = s.desc["scalar"]
    BY DEF Job, JobField
  <2>3. QED BY <2>1, <2>2, <1>1, <1>4 DEF Answers
<1>7. FailureOK(n)
  BY <1>2, <1>4, <1>6 DEF FailureOK, PREFAIL, POSTFAIL
<1>8. TimerOK(n) /\ OutputOK(n) /\ SuccessOK(d, n)
  BY <1>2 DEF TimerOK, OutputOK, SuccessOK, BUSY, DONE, POSTFAIL
<1>9. RoomOK(d, n)
  BY <1>2 DEF DeviceInv, RoomOK, BUSY, POSTFAIL
<1>10. DeviceInv(d, n)
  BY <1>2, <1>5, <1>7, <1>8, <1>9 DEF DeviceInv, POSTFAIL, IDLE
<1>11. QED BY <1>10 DEF n

LEMMA UpdateInv ==
  ASSUME TypeOK, EndpointInv, NEW d \in Dev, NEW n, Update(d, n), DeviceInv(d, n)
  PROVE  EndpointInv'
<1> SUFFICES ASSUME NEW e \in Dev PROVE DeviceInv(e, ep'[e])
  BY DEF EndpointInv
<1>1. ep'[e] = IF e = d THEN n ELSE ep[e]
  BY DEF TypeOK, Update
<1>2. QED BY <1>1 DEF EndpointInv

LEMMA WriteInv ==
  ASSUME TypeOK, EndpointInv, NEW d \in Dev, NEW v,
         \/ \E f \in Field : v \in FieldValues[f] /\ WriteField(d, f, v)
         \/ v \in EpochValues /\ WriteEpoch(d, v)
         \/ v \in CapacityValues /\ WriteCapacity(d, v)
         \/ RejectWrite(d)
  PROVE  EndpointInv'
<1> DEFINE s == ep[d]
           n == ep'[d]
<1>1. s \in EndpointType /\ DeviceInv(d, s)
  BY DEF TypeOK, EndpointInv
<1>2. n \in EndpointType
  <2>1. TypeOK'
    BY WriteFieldType, WriteEpochType, WriteCapacityType, RejectWriteType
  <2>2. QED BY <2>1 DEF TypeOK
<1>3. Len(s.log) <= s.capacity /\ s.capacity <= MaxRecords
  BY <1>1 DEF DeviceInv, RoomOK
<1>4. DeviceInv(d, n)
  <2>1. CASE \E f \in Field : v \in FieldValues[f] /\ WriteField(d, f, v)
    <3>1. PICK f \in Field : WriteField(d, f, v)
      BY <2>1
    <3>2. n = [s EXCEPT !.desc = [@ EXCEPT ![f] = v]] /\ s.state # BUSY
      BY <3>1 DEF WriteField, Update, TypeOK, Writable
    <3>3. /\ n.state = s.state /\ n.error = s.error /\ n.epoch = s.epoch
          /\ n.log = s.log /\ n.committed = s.committed
          /\ n.finished = s.finished /\ n.compute_end = s.compute_end
          /\ n.link_end = s.link_end /\ n.phase = s.phase
          /\ n.input = s.input /\ n.output = s.output
          /\ n.failure = s.failure /\ n.timer = s.timer
          /\ n.capacity = s.capacity
      BY <3>2, <1>1 DEF EndpointType
    <3> HIDE DEF s, n
    <3>4. QED BY <3>2, <3>3, <1>1, <1>2, <1>3, RegisterInv
  <2>2. CASE v \in EpochValues /\ WriteEpoch(d, v)
    <3>1. n = [s EXCEPT !.epoch = v, !.log = <<>>, !.state = IDLE,
                        !.error = "E_NONE", !.committed = 0,
                        !.failure = ZeroRecord]
      BY <2>2 DEF WriteEpoch, NewEpoch, Update, TypeOK
    <3>2. /\ n.state = IDLE /\ n.error = "E_NONE" /\ n.log = <<>>
          /\ n.committed = 0 /\ n.failure = ZeroRecord /\ n.timer = s.timer
          /\ n.capacity = s.capacity
      BY <3>1, <1>1 DEF EndpointType
    <3>3. QED BY <3>2, <2>2, <1>1, <1>2, EpochInv DEF WriteEpoch
  <2>3. CASE v \in CapacityValues /\ WriteCapacity(d, v)
    <3>1. n = [s EXCEPT !.capacity = v] /\ s.state # BUSY
      BY <2>3 DEF WriteCapacity, Update, TypeOK, Writable
    <3>2. /\ n.state = s.state /\ n.error = s.error /\ n.epoch = s.epoch
          /\ n.log = s.log /\ n.committed = s.committed
          /\ n.finished = s.finished /\ n.compute_end = s.compute_end
          /\ n.link_end = s.link_end /\ n.phase = s.phase
          /\ n.input = s.input /\ n.output = s.output
          /\ n.failure = s.failure /\ n.timer = s.timer /\ n.capacity = v
      BY <3>1, <1>1 DEF EndpointType
    <3>3. Len(s.log) <= v /\ v <= MaxRecords
      <4>1. Len(s.log) \in Nat /\ v \in Nat
        BY <2>3, <1>1, LogFacts, InputAssumption, SizeAssumption DEF Reg
      <4>2. QED BY <4>1, <2>3 DEF WriteCapacity
    <3> HIDE DEF s, n
    <3>4. QED BY <3>1, <3>2, <3>3, <1>1, <1>2, RegisterInv
  <2>4. CASE RejectWrite(d)
    <3>1. n = [s EXCEPT !.rejected = @ + 1]
      BY <2>4 DEF RejectWrite, Update, TypeOK
    <3>2. /\ n.state = s.state /\ n.error = s.error /\ n.epoch = s.epoch
          /\ n.log = s.log /\ n.committed = s.committed
          /\ n.finished = s.finished /\ n.compute_end = s.compute_end
          /\ n.link_end = s.link_end /\ n.phase = s.phase
          /\ n.input = s.input /\ n.output = s.output
          /\ n.failure = s.failure /\ n.timer = s.timer
          /\ n.capacity = s.capacity /\ n.desc = s.desc
      BY <3>1, <1>1 DEF EndpointType
    <3> HIDE DEF s, n
    <3>3. QED BY <3>2, <1>1, <1>2, <1>3, RegisterInv
  <2>5. QED BY <2>1, <2>2, <2>3, <2>4
<1>5. Update(d, n)
  BY DEF WriteField, WriteEpoch, WriteCapacity, RejectWrite, Update, TypeOK
<1>6. QED BY <1>4, <1>5, UpdateInv

LEMMA DoorbellInv ==
  ASSUME TypeOK, EndpointInv, NEW d \in Dev, Refuse(d) \/ Submit(d)
  PROVE  EndpointInv'
<1>1. /\ ep[d] \in EndpointType /\ DeviceInv(d, ep[d])
      /\ now \in Nat /\ ram[d] \in [Word -> Reg]
  BY DEF TypeOK, EndpointInv
<1>2. Writable(ep[d]) /\ ep[d].state \notin {PREFAIL, POSTFAIL}
  BY DEF Refuse, Submit, Doorbell
<1>3. CASE Refuse(d)
  <2>1. DeviceInv(d, Fail(Cleared(ep[d]), SubmitError(Cleared(ep[d]), d, now), now))
    BY <1>1, <1>2, <1>3, RefuseInv, SubmitErrorTyped DEF Refuse
  <2>2. QED BY <2>1, <1>3, UpdateInv DEF Refuse
<1>4. CASE Submit(d)
  <2>1. DeviceInv(d, Accept(Cleared(ep[d]), d, ram[d], now))
    BY <1>1, <1>2, <1>4, AcceptInv DEF Submit
  <2>2. QED BY <2>1, <1>4, UpdateInv DEF Submit
<1>5. QED BY <1>3, <1>4

LEMMA CallbackInv ==
  ASSUME TypeOK, EndpointInv, NEW d \in Dev,
         \/ ComputeEnd(d) \/ LinkEnd(d) \/ RecordEnd(d) \/ RecordFault(d)
  PROVE  EndpointInv'
<1> DEFINE s == ep[d]
           n == ep'[d]
<1>1. s \in EndpointType /\ DeviceInv(d, s) /\ now \in Nat /\ link_free_ns \in Nat
  BY DEF TypeOK, EndpointInv
<1>2. n \in EndpointType
  <2>1. TypeOK'
    BY ComputeEndType, LinkEndType, RecordEndType, RecordFaultType
  <2>2. QED BY <2>1 DEF TypeOK
<1>3. s.state = BUSY
  <2>1. Armed(d)
    BY DEF ComputeEnd, LinkEnd, RecordEnd, RecordFault, Fires
  <2>2. QED BY <2>1, <1>1 DEF Armed, DeviceInv, TimerOK
<1>4. Update(d, n)
  BY DEF ComputeEnd, LinkEnd, RecordEnd, RecordFault, Update, TypeOK
<1>5. CASE ComputeEnd(d)
  <2> DEFINE sent == MaxOf(now, link_free_ns) + Serialization(s.desc["words"])
  <2>1. sent + LinkNs \in Nat
    <3>1. s.desc["words"] \in Nat
      BY <1>1, LogFacts, SizeAssumption DEF Field, Reg
    <3>2. Serialization(s.desc["words"]) \in Nat /\ MaxOf(now, link_free_ns) \in Nat
      BY <3>1, <1>1, SerializationTyped DEF MaxOf
    <3>3. QED BY <3>2, CostAssumption
  <2>2. n = [s EXCEPT !.output = VectorJob(s.input, s.desc["scalar"]),
                      !.link_start = MaxOf(now, link_free_ns),
                      !.queue_wait = MaxOf(now, link_free_ns) - now,
                      !.link_end = sent + LinkNs,
                      !.phase = "LINK_END", !.timer = sent + LinkNs]
    BY <1>5 DEF ComputeEnd, Update, TypeOK
  <2>3. s.phase = "COMPUTE_END" /\ s.committed # 1
    BY <1>5, <1>1, <1>3 DEF ComputeEnd, DeviceInv, TimerOK
  <2> HIDE DEF sent
  <2>4. /\ n.state = BUSY /\ n.error = s.error /\ n.epoch = s.epoch
        /\ n.desc = s.desc /\ n.capacity = s.capacity /\ n.log = s.log
        /\ n.input = s.input /\ n.failure = s.failure
        /\ n.phase = "LINK_END" /\ n.timer = sent + LinkNs
        /\ n.link_end = sent + LinkNs /\ n.committed = s.committed
        /\ n.output = VectorJob(s.input, s.desc["scalar"])
    BY <2>2, <1>1, <1>3 DEF EndpointType
  <2>5. n.timer # Disarmed
    BY <2>1, <2>4 DEF Disarmed
  <2> HIDE DEF s, n
  <2>6. DeviceInv(d, n)
    BY <2>3, <2>4, <2>5, <1>1, <1>2, <1>3, RunningInv
  <2>7. QED BY <2>6, <1>4, UpdateInv
<1>6. CASE LinkEnd(d)
  <2>1. now + RecordCost(d) \in Nat
    BY <1>1, CostAssumption DEF RecordCost
  <2>2. n = [s EXCEPT !.committed = 1, !.phase = "RECORD_END",
                      !.timer = now + RecordCost(d)]
    BY <1>6 DEF LinkEnd, Landed, Update, TypeOK
  <2>3. s.output = VectorJob(s.input, s.desc["scalar"])
    BY <1>6, <1>1, <1>3 DEF LinkEnd, DeviceInv, OutputOK
  <2>4. /\ n.state = BUSY /\ n.error = s.error /\ n.epoch = s.epoch
        /\ n.desc = s.desc /\ n.capacity = s.capacity /\ n.log = s.log
        /\ n.input = s.input /\ n.failure = s.failure /\ n.output = s.output
        /\ n.phase = "RECORD_END" /\ n.timer = now + RecordCost(d)
        /\ n.committed = 1
    BY <2>2, <1>1, <1>3 DEF EndpointType
  <2>5. n.timer # Disarmed
    BY <2>1, <2>4 DEF Disarmed
  <2> HIDE DEF s, n
  <2>6. DeviceInv(d, n)
    BY <2>3, <2>4, <2>5, <1>1, <1>2, <1>3, RunningInv
  <2>7. QED BY <2>6, <1>4, UpdateInv
<1>7. CASE RecordEnd(d)
  <2>1. DeviceInv(d, Finished(s, d, now))
    BY <1>7, <1>1, <1>3, FinishedInv DEF RecordEnd
  <2>2. QED BY <2>1, <1>7, UpdateInv DEF RecordEnd
<1>8. CASE RecordFault(d)
  <2>1. DeviceInv(d, [Fail(s, "E_COMPLETION", now) EXCEPT !.timer = Disarmed])
    BY <1>8, <1>1, <1>3, FaultInv DEF RecordFault, CompletionFault
  <2>2. QED BY <2>1, <1>8, UpdateInv DEF RecordFault
<1>9. QED BY <1>5, <1>6, <1>7, <1>8

LEMMA PlugInv ==
  ASSUME TypeOK, EndpointInv, NEW d \in Dev, Realize(d) \/ Unplug(d)
  PROVE  EndpointInv'
<1>1. Update(d, NewEndpoint)
  BY DEF Realize, Unplug, Update
<1>2. QED BY <1>1, NewEndpointInv, UpdateInv

\* The device invariant holds of every endpoint in every reachable state, for
\* every interleaving of register writes, timer callbacks, host stores and
\* hot-plug (cxl_slugarch_write, complete, init and cleanup).
THEOREM EndpointSafe == Spec => []EndpointInv
<1>1. Init => EndpointInv
  BY NewEndpointInv DEF Init, EndpointInv
<1>2. TypeOK /\ EndpointInv /\ [Next]_vars => EndpointInv'
  <2> SUFFICES ASSUME TypeOK, EndpointInv, [Next]_vars PROVE EndpointInv'
    OBVIOUS
  <2>1. CASE ep' = ep
    BY <2>1 DEF EndpointInv
  <2>2. CASE UNCHANGED vars \/ Tick
    BY <2>1, <2>2 DEF vars, Tick
  <2>3. ASSUME NEW d \in Dev, NEW w \in Word, NEW v \in StoreValues,
               HostStore(d, w, v)
        PROVE EndpointInv'
    BY <2>1, <2>3 DEF HostStore
  <2>4. ASSUME NEW d \in Dev, NEW f \in Field, NEW v \in FieldValues[f],
               WriteField(d, f, v)
        PROVE EndpointInv'
    BY <2>4, WriteInv
  <2>5. ASSUME NEW d \in Dev, NEW v \in EpochValues, WriteEpoch(d, v)
        PROVE EndpointInv'
    BY <2>5, WriteInv
  <2>6. ASSUME NEW d \in Dev, NEW v \in CapacityValues, WriteCapacity(d, v)
        PROVE EndpointInv'
    BY <2>6, WriteInv
  <2>7. ASSUME NEW d \in Dev, RejectWrite(d) PROVE EndpointInv'
    BY <2>7, WriteInv
  <2>8. ASSUME NEW d \in Dev, Refuse(d) \/ Submit(d) PROVE EndpointInv'
    BY <2>8, DoorbellInv
  <2>9. ASSUME NEW d \in Dev,
               \/ ComputeEnd(d) \/ LinkEnd(d) \/ RecordEnd(d) \/ RecordFault(d)
        PROVE EndpointInv'
    BY <2>9, CallbackInv
  <2>10. ASSUME NEW d \in Dev, Realize(d) \/ Unplug(d) PROVE EndpointInv'
    BY <2>10, PlugInv
  <2>11. QED BY <2>2, <2>3, <2>4, <2>5, <2>6, <2>7, <2>8, <2>9, <2>10 DEF Next
<1>3. QED BY <1>1, <1>2, TypeCorrect, PTL DEF Spec

LEMMA SafetyParts ==
  ASSUME TypeOK, EndpointInv
  PROVE  /\ EvidenceTrail /\ SuccessHasEvidence /\ RoomForCompletion
         /\ FailureTruth /\ TimerRuns
<1>1. \A d \in present : d \in Dev
  BY DEF TypeOK
<1>2. QED BY <1>1 DEF EndpointInv, DeviceInv, EvidenceTrail, SuccessHasEvidence,
                      RoomForCompletion, FailureTruth, TimerRuns, Gate

\* The log of a gated endpoint is always a trail of matching request/completion
\* pairs, with an open request only for a running or lost job.
THEOREM TrailSafe == Spec => []EvidenceTrail
BY TypeCorrect, EndpointSafe, SafetyParts, PTL

\* DONE is never visible without a committed output and its completion record.
THEOREM SuccessSafe == Spec => []SuccessHasEvidence
BY TypeCorrect, EndpointSafe, SafetyParts, PTL

\* The completion record of an accepted job always fits in the log.
THEOREM RoomSafe == Spec => []RoomForCompletion
BY TypeCorrect, EndpointSafe, SafetyParts, PTL

\* A failure record exists exactly in the failure states and tells whether, and
\* what, the failed job stored.
THEOREM FailureSafe == Spec => []FailureTruth
BY TypeCorrect, EndpointSafe, SafetyParts, PTL

\* Exactly the running endpoints have an armed timer.
THEOREM TimerSafe == Spec => []TimerRuns
BY TypeCorrect, EndpointSafe, SafetyParts, PTL

(***************************************************************************)
(* What the gate's evidence says about memory, time and the link, for      *)
(* every set of devices, memory and cost: HistoryInv is inductive with     *)
(* EndpointInv, and no step rewrites a log or drops a failure.             *)
(***************************************************************************)

(***************************************************************************)
(* What each action does to the device it is about, read off once          *)
(***************************************************************************)
\* A change of a device structure that touches neither evidence nor job.
Quiet(s, n) ==
  /\ n.state = s.state /\ n.epoch = s.epoch /\ n.log = s.log
  /\ n.committed = s.committed /\ n.output = s.output /\ n.failure = s.failure
  /\ n.timer = s.timer /\ n.phase = s.phase /\ n.link_start = s.link_start
  /\ s.state = BUSY => n.desc = s.desc

\* All but d keep what they have.
OnlyAt(d) ==
  \A e \in Dev \ {d} : /\ ep'[e] = ep[e] /\ ram'[e] = ram[e]
                       /\ base'[e] = base[e] /\ touched'[e] = touched[e]

LEMMA UpdateAt ==
  ASSUME TypeOK, NEW d \in Dev, NEW n, Update(d, n)
  PROVE  ep'[d] = n /\ \A e \in Dev \ {d} : ep'[e] = ep[e]
BY DEF TypeOK, Update

LEMMA RegisterStep ==
  ASSUME TypeOK, NEW d \in Dev, NEW v,
         \/ \E f \in Field : WriteField(d, f, v)
         \/ WriteCapacity(d, v)
         \/ RejectWrite(d)
  PROVE  /\ Quiet(ep[d], ep'[d]) /\ OnlyAt(d)
         /\ UNCHANGED <<present, ram, link_free_ns, now, base, touched>>
<1> DEFINE s == ep[d]
           n == ep'[d]
<1>1. s \in EndpointType
  BY DEF TypeOK
<1>2. UNCHANGED <<present, ram, link_free_ns, now, base, touched>>
  BY DEF WriteField, WriteCapacity, RejectWrite
<1>3. CASE \E f \in Field : WriteField(d, f, v)
  <2>1. PICK f \in Field : WriteField(d, f, v)
    BY <1>3
  <2>2. /\ n = [s EXCEPT !.desc = [@ EXCEPT ![f] = v]] /\ s.state # BUSY
        /\ \A e \in Dev \ {d} : ep'[e] = ep[e]
    BY <2>1, UpdateAt DEF WriteField, Writable
  <2>3. QED BY <2>2, <1>1, <1>2 DEF Quiet, OnlyAt, EndpointType
<1>4. CASE WriteCapacity(d, v)
  <2>1. /\ n = [s EXCEPT !.capacity = v]
        /\ \A e \in Dev \ {d} : ep'[e] = ep[e]
    BY <1>4, UpdateAt DEF WriteCapacity
  <2>2. QED BY <2>1, <1>1, <1>2 DEF Quiet, OnlyAt, EndpointType
<1>5. CASE RejectWrite(d)
  <2>1. /\ n = [s EXCEPT !.rejected = @ + 1]
        /\ \A e \in Dev \ {d} : ep'[e] = ep[e]
    BY <1>5, UpdateAt DEF RejectWrite
  <2>2. QED BY <2>1, <1>1, <1>2 DEF Quiet, OnlyAt, EndpointType
<1>6. QED BY <1>3, <1>4, <1>5

LEMMA EpochStep ==
  ASSUME TypeOK, NEW d \in Dev, NEW v, WriteEpoch(d, v)
  PROVE  /\ ep[d].state # BUSY /\ ep'[d].state = IDLE /\ ep'[d].committed = 0
         /\ ep'[d].epoch = v /\ v > ep[d].epoch /\ ep'[d].log = <<>>
         /\ base'[d] = ram[d] /\ OnlyAt(d)
         /\ UNCHANGED <<present, ram, link_free_ns, now>>
<1>1. /\ ep'[d] = NewEpoch(ep[d], v) /\ \A e \in Dev \ {d} : ep'[e] = ep[e]
      /\ ep[d].state # BUSY /\ v > ep[d].epoch
  BY UpdateAt DEF WriteEpoch, Writable
<1>2. ep[d] \in EndpointType
  BY DEF TypeOK
<1>3. /\ base'[d] = ram[d]
      /\ \A e \in Dev \ {d} : base'[e] = base[e] /\ touched'[e] = touched[e]
      /\ UNCHANGED <<present, ram, link_free_ns, now>>
  BY DEF WriteEpoch, TypeOK
<1>4. QED BY <1>1, <1>2, <1>3 DEF NewEpoch, EndpointType, OnlyAt

\* What a doorbell does to memory and its history.
LEMMA DoorbellStep ==
  ASSUME TypeOK, EndpointInv, NEW d \in Dev, Doorbell(d)
  PROVE  /\ ep[d].state \in {IDLE, DONE} /\ Writable(ep[d])
         /\ base'[d] = ram[d]
         /\ \A e \in Dev \ {d} : base'[e] = base[e] /\ touched'[e] = touched[e]
         /\ UNCHANGED <<present, ram, link_free_ns, now>>
<1>1. ep[d].state \in State
  BY DEF TypeOK, EndpointType
<1>2. QED BY <1>1 DEF Doorbell, TypeOK, Writable, State

LEMMA RefuseStep ==
  ASSUME TypeOK, EndpointInv, NEW d \in Dev, Refuse(d)
  PROVE  /\ ep[d].state \in {IDLE, DONE} /\ ep'[d].state = PREFAIL
         /\ ep'[d].committed = 0
         /\ ep'[d].epoch = ep[d].epoch /\ ep'[d].log = ep[d].log
         /\ base'[d] = ram[d] /\ OnlyAt(d)
         /\ UNCHANGED <<present, ram, link_free_ns, now>>
<1> DEFINE c == Cleared(ep[d])
<1>1. /\ ep'[d] = Fail(c, SubmitError(c, d, now), now)
      /\ \A e \in Dev \ {d} : ep'[e] = ep[e]
  BY UpdateAt DEF Refuse
<1>2. /\ ep[d].state \in {IDLE, DONE} /\ Writable(ep[d]) /\ base'[d] = ram[d]
      /\ \A e \in Dev \ {d} : base'[e] = base[e] /\ touched'[e] = touched[e]
      /\ UNCHANGED <<present, ram, link_free_ns, now>>
  BY DoorbellStep DEF Refuse
<1>3. c \in EndpointType /\ c.epoch = ep[d].epoch /\ c.log = ep[d].log /\ c.committed = 0
  <2>1. ep[d] \in EndpointType /\ DeviceInv(d, ep[d])
    BY DEF TypeOK, EndpointInv
  <2>2. QED BY <2>1, <1>2, ClearedFacts DEF IDLE, DONE, PREFAIL, POSTFAIL
<1> HIDE DEF c
<1>4. /\ ep'[d].state = PREFAIL /\ ep'[d].committed = 0
      /\ ep'[d].epoch = c.epoch /\ ep'[d].log = c.log
  BY <1>1, <1>3 DEF Fail, EndpointType
<1>5. QED BY <1>1, <1>2, <1>3, <1>4 DEF OnlyAt

LEMMA SubmitStep ==
  ASSUME TypeOK, EndpointInv, NEW d \in Dev, Submit(d)
  PROVE  LET s == ep[d]
             n == ep'[d]
         IN  /\ s.state \in {IDLE, DONE} /\ n.state = BUSY /\ n.phase = "COMPUTE_END"
             /\ n.committed = 0 /\ n.epoch = s.epoch /\ n.desc = s.desc
             /\ s.desc["release"] >= now
             /\ n.timer = s.desc["release"] + RecordCost(d) + s.desc["words"] * ComputeNs
             /\ ~Gate(d) => n.log = s.log
             /\ Gate(d) => \E in \in Vector :
                             LET r == Record(Cleared(s), Request, in, now)
                             IN  /\ r \in RecordType /\ n.log = Append(s.log, r)
                                 /\ r.time = now /\ r.job = Job(s) /\ r.kind = Request
             /\ base'[d] = ram[d] /\ OnlyAt(d)
             /\ UNCHANGED <<present, ram, link_free_ns, now>>
<1> DEFINE s == ep[d]
           n == ep'[d]
           c == Cleared(s)
           in == Snapshot(ram[d], c.desc["src"], c.desc["words"])
           r == Record(c, Request, in, now)
<1>1. n = Accept(c, d, ram[d], now) /\ \A e \in Dev \ {d} : ep'[e] = ep[e]
  BY UpdateAt DEF Submit
<1>2. /\ s.state \in {IDLE, DONE} /\ Writable(s) /\ base'[d] = ram[d]
      /\ \A e \in Dev \ {d} : base'[e] = base[e] /\ touched'[e] = touched[e]
      /\ UNCHANGED <<present, ram, link_free_ns, now>>
  BY DoorbellStep DEF Submit
<1>3. /\ s \in EndpointType /\ DeviceInv(d, s) /\ now \in Nat /\ ram[d] \in [Word -> Reg]
  BY DEF TypeOK, EndpointInv
<1>4. /\ c \in EndpointType /\ c.epoch = s.epoch /\ c.log = s.log
      /\ c.committed = 0 /\ c.desc = s.desc
  BY <1>2, <1>3, ClearedFacts DEF IDLE, DONE, PREFAIL, POSTFAIL
<1>5. /\ DescriptorValid(c.desc, now) /\ RangeValid(c.desc["src"], 8 * c.desc["words"])
  BY AcceptedDescriptor DEF Submit
<1> HIDE DEF c
<1>6. in \in Vector
  <2>1. c.desc["src"] \in Reg /\ c.desc["words"] \in Reg
    BY <1>4, LogFacts DEF Field
  <2>2. QED BY <2>1, <1>3, <1>5, SnapshotTyped DEF DescriptorValid
<1>7. r \in RecordType
  BY <1>3, <1>4, <1>6, RecordTyped DEF Request
<1>8. r.time = now /\ r.job = Job(s) /\ r.kind = Request
  BY <1>4 DEF Record, Job
<1>9. /\ n.state = BUSY /\ n.phase = "COMPUTE_END" /\ n.committed = c.committed
      /\ n.epoch = c.epoch /\ n.desc = c.desc
      /\ n.timer = c.desc["release"] + RecordCost(d) + c.desc["words"] * ComputeNs
      /\ n.log = IF Gate(d) THEN Append(c.log, r) ELSE c.log
  BY <1>1, <1>4 DEF Accept, EndpointType
<1>10. Gate(d) => \E i \in Vector :
                    LET rr == Record(Cleared(s), Request, i, now)
                    IN  /\ rr \in RecordType /\ n.log = Append(s.log, rr)
                        /\ rr.time = now /\ rr.job = Job(s) /\ rr.kind = Request
  <2> SUFFICES ASSUME Gate(d)
               PROVE  \E i \in Vector :
                        LET rr == Record(Cleared(s), Request, i, now)
                        IN  /\ rr \in RecordType /\ n.log = Append(s.log, rr)
                            /\ rr.time = now /\ rr.job = Job(s) /\ rr.kind = Request
    OBVIOUS
  <2> WITNESS in \in Vector
  <2>1. QED BY <1>4, <1>7, <1>8, <1>9 DEF c
<1>11. s.desc["release"] >= now
  BY <1>4, <1>5 DEF DescriptorValid
<1>12. OnlyAt(d)
  BY <1>1, <1>2 DEF OnlyAt
<1>13. QED BY <1>2, <1>4, <1>9, <1>10, <1>11, <1>12

\* A due callback finds a running job in the phase it was armed for.
LEMMA FiresBusy ==
  ASSUME TypeOK, EndpointInv, NEW d \in Dev, Fires(d)
  PROVE  /\ d \in present /\ ep[d].state = BUSY /\ ep[d].timer <= now
         /\ ep[d] \in EndpointType /\ DeviceInv(d, ep[d])
         /\ ep[d].committed = IF ep[d].phase = "RECORD_END" THEN 1 ELSE 0
<1>1. ep[d] \in EndpointType /\ DeviceInv(d, ep[d])
  BY DEF TypeOK, EndpointInv
<1>2. d \in present /\ ep[d].timer # Disarmed /\ ep[d].timer <= now
  BY DEF Fires, Armed
<1>3. QED BY <1>1, <1>2, LogFacts DEF DeviceInv, TimerOK

LEMMA ComputeStep ==
  ASSUME TypeOK, EndpointInv, NEW d \in Dev, ComputeEnd(d)
  PROVE  LET s == ep[d]
             n == ep'[d]
             sent == n.link_start + Serialization(s.desc["words"])
         IN  /\ s.state = BUSY /\ s.phase = "COMPUTE_END" /\ s.timer <= now
             /\ s.committed = 0
             /\ n.state = BUSY /\ n.phase = "LINK_END" /\ n.committed = 0
             /\ n.epoch = s.epoch /\ n.log = s.log /\ n.desc = s.desc
             /\ n.link_start = MaxOf(now, link_free_ns)
             /\ n.timer = sent + LinkNs /\ link_free_ns' = sent
             /\ OnlyAt(d) /\ UNCHANGED <<present, ram, now, base, touched>>
<1> DEFINE s == ep[d]
           n == ep'[d]
           start == MaxOf(now, link_free_ns)
           sent == start + Serialization(s.desc["words"])
<1>1. /\ s.phase = "COMPUTE_END" /\ s.state = BUSY /\ s.timer <= now
      /\ s \in EndpointType /\ s.committed = 0
  BY FiresBusy DEF ComputeEnd
<1>2. /\ n = [s EXCEPT !.output = VectorJob(s.input, s.desc["scalar"]),
                       !.link_start = start, !.queue_wait = start - now,
                       !.link_end = sent + LinkNs,
                       !.phase = "LINK_END", !.timer = sent + LinkNs]
      /\ \A e \in Dev \ {d} : ep'[e] = ep[e]
  BY UpdateAt DEF ComputeEnd
<1>3. link_free_ns' = sent /\ UNCHANGED <<present, ram, now, base, touched>>
  BY DEF ComputeEnd
<1> HIDE DEF start
<1>4. /\ n.state = s.state /\ n.phase = "LINK_END" /\ n.committed = s.committed
      /\ n.epoch = s.epoch /\ n.log = s.log /\ n.desc = s.desc
      /\ n.link_start = start /\ n.timer = sent + LinkNs
  BY <1>1, <1>2 DEF EndpointType
<1>5. OnlyAt(d)
  BY <1>2, <1>3 DEF OnlyAt
<1>6. QED BY <1>1, <1>3, <1>4, <1>5 DEF start

LEMMA LinkStep ==
  ASSUME TypeOK, EndpointInv, NEW d \in Dev, LinkEnd(d)
  PROVE  LET s == ep[d]
             n == ep'[d]
         IN  /\ s.state = BUSY /\ s.phase = "LINK_END" /\ s.timer <= now
             /\ s.committed = 0
             /\ n.state = BUSY /\ n.phase = "RECORD_END" /\ n.committed = 1
             /\ n.epoch = s.epoch /\ n.log = s.log /\ n.desc = s.desc
             /\ n.output = s.output
             /\ n.timer = now + RecordCost(d)
             /\ ram'[d] = Stored(ram[d], s.desc["dst"], s.output)
             /\ touched'[d] = {} /\ base' = base
             /\ OnlyAt(d) /\ UNCHANGED <<present, link_free_ns, now>>
<1> DEFINE s == ep[d]
           n == ep'[d]
<1>1. /\ s.phase = "LINK_END" /\ s.state = BUSY /\ s.timer <= now
      /\ s \in EndpointType /\ s.committed = 0
  BY FiresBusy DEF LinkEnd
<1>2. n = Landed(s, d, now) /\ \A e \in Dev \ {d} : ep'[e] = ep[e]
  BY UpdateAt DEF LinkEnd
<1>3. /\ ram'[d] = Stored(ram[d], s.desc["dst"], s.output) /\ touched'[d] = {}
      /\ \A e \in Dev \ {d} : ram'[e] = ram[e] /\ touched'[e] = touched[e]
      /\ UNCHANGED <<present, link_free_ns, now, base>>
  BY DEF LinkEnd, TypeOK
<1>4. /\ n.state = s.state /\ n.phase = "RECORD_END" /\ n.committed = 1
      /\ n.epoch = s.epoch /\ n.log = s.log /\ n.desc = s.desc
      /\ n.output = s.output /\ n.timer = now + RecordCost(d)
  BY <1>1, <1>2 DEF EndpointType, Landed
<1>5. OnlyAt(d)
  BY <1>2, <1>3 DEF OnlyAt
<1>6. QED BY <1>1, <1>3, <1>4, <1>5

LEMMA FinishStep ==
  ASSUME TypeOK, EndpointInv, NEW d \in Dev, RecordEnd(d)
  PROVE  LET s == ep[d]
             n == ep'[d]
             r == Record(s, Completion, s.output, now)
         IN  /\ s.state = BUSY /\ s.phase = "RECORD_END" /\ s.timer <= now
             /\ s.committed = 1
             /\ n.state = DONE /\ n.committed = 1 /\ n.epoch = s.epoch
             /\ n.output = s.output
             /\ n.log = IF Gate(d) THEN Append(s.log, r) ELSE s.log
             /\ r \in RecordType /\ r.time = now /\ r.job = Job(s)
             /\ r.kind = Completion
             /\ OnlyAt(d)
             /\ UNCHANGED <<present, ram, link_free_ns, now, base, touched>>
<1> DEFINE s == ep[d]
           n == ep'[d]
           r == Record(s, Completion, s.output, now)
<1>1. /\ s.phase = "RECORD_END" /\ s.state = BUSY /\ s.timer <= now
      /\ s \in EndpointType /\ s.committed = 1
  BY FiresBusy DEF RecordEnd
<1>2. n = Finished(s, d, now) /\ \A e \in Dev \ {d} : ep'[e] = ep[e]
  BY UpdateAt DEF RecordEnd
<1>3. UNCHANGED <<present, ram, link_free_ns, now, base, touched>>
  BY DEF RecordEnd
<1>4. r \in RecordType /\ r.time = now /\ r.job = Job(s) /\ r.kind = Completion
  <2>1. s.output \in Vector /\ now \in Nat
    BY <1>1 DEF EndpointType, TypeOK
  <2>2. r \in RecordType
    BY <2>1, <1>1, RecordTyped DEF Completion
  <2>3. QED BY <2>2 DEF Record
<1>5. /\ n.state = DONE /\ n.committed = s.committed /\ n.epoch = s.epoch
      /\ n.output = s.output
      /\ n.log = IF Gate(d) THEN Append(s.log, r) ELSE s.log
  BY <1>1, <1>2 DEF EndpointType, Finished
<1>6. OnlyAt(d)
  BY <1>2, <1>3 DEF OnlyAt
<1>7. QED BY <1>1, <1>3, <1>4, <1>5, <1>6

LEMMA FaultStep ==
  ASSUME TypeOK, EndpointInv, NEW d \in Dev, RecordFault(d)
  PROVE  LET s == ep[d]
             n == ep'[d]
         IN  /\ Gate(d) /\ s.state = BUSY /\ s.committed = 1
             /\ n.state = POSTFAIL /\ n.committed = 1 /\ n.epoch = s.epoch
             /\ n.log = s.log /\ n.output = s.output
             /\ OnlyAt(d)
             /\ UNCHANGED <<present, ram, link_free_ns, now, base, touched>>
<1> DEFINE s == ep[d]
           n == ep'[d]
<1>1. s.state = BUSY /\ s \in EndpointType /\ s.committed = 1 /\ Gate(d)
  BY FiresBusy DEF RecordFault, CompletionFault
<1>2. /\ n = [Fail(s, "E_COMPLETION", now) EXCEPT !.timer = Disarmed]
      /\ \A e \in Dev \ {d} : ep'[e] = ep[e]
  BY UpdateAt DEF RecordFault
<1>3. UNCHANGED <<present, ram, link_free_ns, now, base, touched>>
  BY DEF RecordFault
<1>4. /\ n.state = POSTFAIL /\ n.committed = s.committed /\ n.epoch = s.epoch
      /\ n.log = s.log /\ n.output = s.output
  BY <1>1, <1>2 DEF EndpointType, Fail
<1>5. OnlyAt(d)
  BY <1>2, <1>3 DEF OnlyAt
<1>6. QED BY <1>1, <1>3, <1>4, <1>5

LEMMA StoreStep ==
  ASSUME TypeOK, NEW d \in Dev, NEW w \in Word, NEW v, HostStore(d, w, v)
  PROVE  /\ ram'[d] = [ram[d] EXCEPT ![w] = v]
         /\ base'[d] = [base[d] EXCEPT ![w] = v]
         /\ touched'[d] = touched[d] \cup {w}
         /\ OnlyAt(d) /\ UNCHANGED <<present, ep, link_free_ns, now>>
BY DEF HostStore, TypeOK, OnlyAt

LEMMA PlugStep ==
  ASSUME TypeOK, NEW d \in Dev, Realize(d) \/ Unplug(d)
  PROVE  /\ ep'[d] = NewEndpoint
         /\ ram'[d] = ZeroMemory /\ base'[d] = ZeroMemory /\ touched'[d] = {}
         /\ ~(d \in present /\ d \in present')
         /\ present' \ {d} = present \ {d}
         /\ link_free_ns' = link_free_ns \/ present' \subseteq {d}
         /\ OnlyAt(d) /\ now' = now
BY DEF Realize, Unplug, TypeOK, OnlyAt, LinkAfter

(***************************************************************************)
(* Nothing rewrites evidence                                               *)
(***************************************************************************)
\* A log that stays or gets one record more, in its epoch, is kept.
LEMMA KeptLog ==
  ASSUME NEW s \in EndpointType, NEW n, n.epoch = s.epoch,
         \/ n.log = s.log
         \/ \E r \in RecordType : n.log = Append(s.log, r)
  PROVE  KeepsLog(s, n)
<1>1. s.log \in Seq(RecordType) /\ Len(s.log) \in Nat /\ DOMAIN s.log = 1..Len(s.log)
  BY LogFacts
<1>2. CASE n.log = s.log
  BY <1>1, <1>2 DEF KeepsLog
<1>3. ASSUME NEW r \in RecordType, n.log = Append(s.log, r) PROVE KeepsLog(s, n)
  BY <1>1, <1>3, AppendFacts DEF KeepsLog
<1>4. QED BY <1>2, <1>3

\* A step of one device keeps the evidence of all if it keeps that one's.
LEMMA OneKeepsAll ==
  ASSUME TypeOK, NEW d \in Dev, OnlyAt(d),
         d \in present /\ d \in present' => KeepsFailure(ep[d], ep'[d]) /\ KeepsLog(ep[d], ep'[d])
  PROVE  FailuresKept /\ LogsKept
<1> SUFFICES ASSUME NEW e \in Dev, e \in present, e \in present'
             PROVE  KeepsFailure(ep[e], ep'[e]) /\ KeepsLog(ep[e], ep'[e])
  <2>1. present \subseteq Dev
    BY DEF TypeOK
  <2>2. QED BY <2>1 DEF FailuresKept, LogsKept
<1>1. CASE e = d
  BY <1>1
<1>2. CASE e # d
  <2>1. ep[e] \in EndpointType /\ ep'[e] = ep[e]
    BY <1>2 DEF TypeOK, OnlyAt
  <2>2. KeepsLog(ep[e], ep'[e])
    BY <2>1, KeptLog
  <2>3. QED BY <2>1, <2>2 DEF KeepsFailure
<1>3. QED BY <1>1, <1>2

LEMMA EvidenceKept ==
  ASSUME TypeOK, EndpointInv, Next
  PROVE  FailuresKept /\ LogsKept
<1>1. \A d \in Dev : ep[d] \in EndpointType
  BY DEF TypeOK
<1>2. ASSUME NEW d \in Dev, NEW v, Quiet(ep[d], ep'[d]), OnlyAt(d)
      PROVE  FailuresKept /\ LogsKept
  <2>1. KeepsLog(ep[d], ep'[d])
    BY <1>1, <1>2, KeptLog DEF Quiet
  <2>2. QED BY <2>1, <1>2, OneKeepsAll DEF Quiet, KeepsFailure
<1>3. ASSUME NEW d \in Dev, NEW v,
             \/ \E f \in Field : WriteField(d, f, v)
             \/ WriteCapacity(d, v)
             \/ RejectWrite(d)
      PROVE  FailuresKept /\ LogsKept
  BY <1>3, <1>2, RegisterStep
<1>4. ASSUME NEW d \in Dev, NEW v, WriteEpoch(d, v)
      PROVE  FailuresKept /\ LogsKept
  BY <1>4, EpochStep, OneKeepsAll DEF KeepsFailure, KeepsLog
<1>5. ASSUME NEW d \in Dev, Refuse(d)
      PROVE  FailuresKept /\ LogsKept
  <2>1. ep[d].state \in {IDLE, DONE} /\ ep'[d].epoch = ep[d].epoch
        /\ ep'[d].log = ep[d].log /\ OnlyAt(d)
    BY <1>5, RefuseStep
  <2>2. KeepsLog(ep[d], ep'[d])
    BY <2>1, <1>1, KeptLog
  <2>3. QED BY <2>1, <2>2, OneKeepsAll DEF KeepsFailure, IDLE, DONE, PREFAIL, POSTFAIL
<1>6. ASSUME NEW d \in Dev, Submit(d)
      PROVE  FailuresKept /\ LogsKept
  <2>1. /\ ep[d].state \in {IDLE, DONE} /\ ep'[d].epoch = ep[d].epoch /\ OnlyAt(d)
        /\ \/ ep'[d].log = ep[d].log
           \/ \E r \in RecordType : ep'[d].log = Append(ep[d].log, r)
    BY <1>6, SubmitStep
  <2>2. KeepsLog(ep[d], ep'[d])
    BY <2>1, <1>1, KeptLog
  <2>3. QED BY <2>1, <2>2, OneKeepsAll DEF KeepsFailure, IDLE, DONE, PREFAIL, POSTFAIL
<1>7. ASSUME NEW d \in Dev,
             \/ ComputeEnd(d) \/ LinkEnd(d) \/ RecordEnd(d) \/ RecordFault(d)
      PROVE  FailuresKept /\ LogsKept
  <2>1. /\ ep[d].state = BUSY /\ ep'[d].epoch = ep[d].epoch /\ OnlyAt(d)
        /\ \/ ep'[d].log = ep[d].log
           \/ \E r \in RecordType : ep'[d].log = Append(ep[d].log, r)
    BY <1>7, ComputeStep, LinkStep, FinishStep, FaultStep
  <2>2. KeepsLog(ep[d], ep'[d])
    BY <2>1, <1>1, KeptLog
  <2>3. QED BY <2>1, <2>2, OneKeepsAll DEF KeepsFailure, BUSY, PREFAIL, POSTFAIL
<1>8. CASE ep' = ep
  <2>1. \A d \in Dev : KeepsLog(ep[d], ep'[d])
    BY <1>1, <1>8, KeptLog
  <2>2. present \subseteq Dev
    BY DEF TypeOK
  <2>3. QED BY <1>8, <2>1, <2>2 DEF FailuresKept, LogsKept, KeepsFailure
<1>9. ASSUME NEW d \in Dev, NEW w \in Word, NEW v, HostStore(d, w, v)
      PROVE  FailuresKept /\ LogsKept
  BY <1>8, <1>9 DEF HostStore
<1>10. CASE Tick
  BY <1>8, <1>10 DEF Tick
<1>11. ASSUME NEW d \in Dev, Realize(d) \/ Unplug(d)
       PROVE  FailuresKept /\ LogsKept
  BY <1>11, PlugStep, OneKeepsAll
<1>12. QED BY <1>3, <1>4, <1>5, <1>6, <1>7, <1>9, <1>10, <1>11 DEF Next

\* A failure, its record and the log behind it stay until a higher epoch
\* acknowledges them, in every interleaving of writes, callbacks and hot-plug.
THEOREM FailureSticks == Spec => StickyFailure
<1>1. TypeOK /\ EndpointInv /\ [Next]_vars => [FailuresKept]_vars
  BY EvidenceKept
<1>2. QED BY <1>1, TypeCorrect, EndpointSafe, PTL DEF Spec, StickyFailure

\* No step rewrites or drops a record of the current epoch, or adds two.
THEOREM LogOnlyGrows == Spec => LogAppendOnly
<1>1. TypeOK /\ EndpointInv /\ [Next]_vars => [LogsKept]_vars
  BY EvidenceKept
<1>2. QED BY <1>1, TypeCorrect, EndpointSafe, PTL DEF Spec, LogAppendOnly

(***************************************************************************)
(* The committed flag and device memory                                    *)
(***************************************************************************)
LEMMA CommitFrame ==
  ASSUME NEW d \in Dev, OnlyAt(d), NEW e \in Dev \ {d}, CommitOK(e)
  PROVE  CommitOK(e)'
BY DEF OnlyAt, CommitOK, WithOutput, OutputAt, Gate

\* The output is where it was if memory, flag and target are.
LEMMA CommitStays ==
  ASSUME NEW d \in Dev, CommitOK(d),
         ram'[d] = ram[d], base'[d] = base[d], touched'[d] = touched[d],
         ep'[d].committed = ep[d].committed, ep'[d].output = ep[d].output,
         ep'[d].state = BUSY => ep[d].state = BUSY,
         Gate(d) \/ ep'[d].state = BUSY => OutputAt(ep'[d]) = OutputAt(ep[d])
  PROVE  CommitOK(d)'
BY DEF CommitOK, WithOutput, Gate

\* A doorbell, an epoch and a fresh device start a new history.
LEMMA CommitCleared ==
  ASSUME NEW d \in Dev, ram'[d] = base'[d], ep'[d].committed = 0
  PROVE  CommitOK(d)'
BY DEF CommitOK

\* The memcpy of complete() puts the output over what the host left.
LEMMA CommitLands ==
  ASSUME TypeOK, EndpointInv, NEW d \in Dev, CommitOK(d), LinkEnd(d)
  PROVE  CommitOK(d)'
<1>1. /\ ram[d] = base[d]
      /\ ep'[d].committed = 1 /\ ep'[d].state = BUSY
      /\ ep'[d].output = ep[d].output /\ ep'[d].desc = ep[d].desc
      /\ ram'[d] = Stored(ram[d], ep[d].desc["dst"], ep[d].output)
      /\ touched'[d] = {} /\ base'[d] = base[d]
  BY LinkStep DEF CommitOK
<1>2. OutputAt(ep'[d]) = ep[d].desc["dst"]
  BY <1>1 DEF OutputAt
<1>3. ram'[d] = [w \in Word |-> Stored(base[d], ep[d].desc["dst"], ep[d].output)[w]]
  BY <1>1 DEF Stored
<1>4. QED BY <1>1, <1>2, <1>3 DEF CommitOK, WithOutput

\* A host store is the host's, before and after the output landed.
LEMMA CommitStored ==
  ASSUME TypeOK, NEW d \in Dev, CommitOK(d), NEW w \in Word, NEW v, HostStore(d, w, v)
  PROVE  CommitOK(d)'
<1>1. /\ ram'[d] = [ram[d] EXCEPT ![w] = v] /\ base'[d] = [base[d] EXCEPT ![w] = v]
      /\ touched'[d] = touched[d] \cup {w} /\ ep' = ep
  BY StoreStep
<1>2. ram[d] \in [Word -> Reg] /\ base[d] \in [Word -> Reg]
  BY DEF TypeOK
<1>3. CASE ep[d].committed = 0
  BY <1>1, <1>3 DEF CommitOK
<1>4. CASE ep[d].committed # 0
  <2> SUFFICES ASSUME ram[d] = WithOutput(d) PROVE ram'[d] = WithOutput(d)'
    BY <1>1, <1>4 DEF CommitOK
  <2>1. ASSUME NEW x \in Word PROVE ram'[d][x] = WithOutput(d)'[x]
    <3>1. CASE x = w
      BY <3>1, <1>1, <1>2 DEF WithOutput
    <3>2. CASE x # w
      <4>1. ram'[d][x] = WithOutput(d)[x] /\ base'[d][x] = base[d][x]
            /\ (x \in touched'[d] <=> x \in touched[d])
        BY <3>2, <1>1, <1>2
      <4>2. Stored(base'[d], OutputAt(ep[d]), ep[d].output)[x]
              = Stored(base[d], OutputAt(ep[d]), ep[d].output)[x]
        BY <4>1 DEF Stored
      <4>3. QED BY <4>1, <4>2, <1>1 DEF WithOutput
    <3>3. QED BY <3>1, <3>2
  <2>2. ram'[d] = [x \in Word |-> ram'[d][x]]
    BY <1>1, <1>2
  <2>3. WithOutput(d)' = [x \in Word |-> WithOutput(d)'[x]]
    BY DEF WithOutput
  <2>4. QED BY <2>1, <2>2, <2>3
<1>5. QED BY <1>3, <1>4

LEMMA CommitKept ==
  ASSUME TypeOK, EndpointInv, \A d \in Dev : CommitOK(d), [Next]_vars
  PROVE  \A d \in Dev : CommitOK(d)'
<1>0. ASSUME NEW d \in Dev, OnlyAt(d), CommitOK(d)'
      PROVE  \A e \in Dev : CommitOK(e)'
  BY <1>0, CommitFrame
<1>1. CASE UNCHANGED <<ep, ram, base, touched>>
  BY <1>1 DEF CommitOK, WithOutput, OutputAt, Gate
<1>2. CASE UNCHANGED vars \/ Tick
  BY <1>1, <1>2 DEF vars, Tick
<1>3. ASSUME NEW d \in Dev, NEW v,
             \/ \E f \in Field : WriteField(d, f, v)
             \/ WriteCapacity(d, v)
             \/ RejectWrite(d)
      PROVE  \A e \in Dev : CommitOK(e)'
  <2>1. Quiet(ep[d], ep'[d]) /\ OnlyAt(d) /\ UNCHANGED <<ram, base, touched>>
    BY <1>3, RegisterStep
  <2>2. OutputAt(ep'[d]) = OutputAt(ep[d])
    BY <2>1 DEF Quiet, OutputAt
  <2>3. CommitOK(d)'
    BY <2>1, <2>2, CommitStays DEF Quiet
  <2>4. QED BY <2>1, <2>3, <1>0
<1>4. ASSUME NEW d \in Dev, NEW v, WriteEpoch(d, v)
      PROVE  \A e \in Dev : CommitOK(e)'
  <2>1. ram'[d] = base'[d] /\ ep'[d].committed = 0 /\ OnlyAt(d)
    BY <1>4, EpochStep
  <2>2. QED BY <2>1, <1>0, CommitCleared
<1>5. ASSUME NEW d \in Dev, Refuse(d) \/ Submit(d)
      PROVE  \A e \in Dev : CommitOK(e)'
  <2>1. ram'[d] = base'[d] /\ ep'[d].committed = 0 /\ OnlyAt(d)
    BY <1>5, RefuseStep, SubmitStep
  <2>2. QED BY <2>1, <1>0, CommitCleared
<1>6. ASSUME NEW d \in Dev, ComputeEnd(d)
      PROVE  \A e \in Dev : CommitOK(e)'
  <2>1. ram'[d] = base'[d] /\ ep'[d].committed = 0 /\ OnlyAt(d)
    BY <1>6, ComputeStep DEF CommitOK
  <2>2. QED BY <2>1, <1>0, CommitCleared
<1>7. ASSUME NEW d \in Dev, LinkEnd(d)
      PROVE  \A e \in Dev : CommitOK(e)'
  BY <1>7, <1>0, LinkStep, CommitLands
<1>8. ASSUME NEW d \in Dev, RecordEnd(d) \/ RecordFault(d)
      PROVE  \A e \in Dev : CommitOK(e)'
  <2> DEFINE s == ep[d]
             n == ep'[d]
  <2>1. /\ s.state = BUSY /\ n.state \in {DONE, POSTFAIL} /\ OnlyAt(d)
        /\ n.committed = s.committed /\ n.output = s.output
        /\ UNCHANGED <<ram, base, touched>>
    BY <1>8, FinishStep, FaultStep
  <2>2. Gate(d) => n.log[Len(n.log)].job = Job(s)
    <3>1. s \in EndpointType /\ DeviceInv(d, s)
      BY DEF TypeOK, EndpointInv
    <3>2. CASE RecordEnd(d)
      <4>1. Gate(d) => \E r \in RecordType : n.log = Append(s.log, r) /\ r.job = Job(s)
        BY <3>2, FinishStep
      <4>2. s.log \in Seq(RecordType)
        BY <3>1, LogFacts
      <4> HIDE DEF s, n
      <4>3. QED BY <4>1, <4>2, AppendFacts
    <3>3. CASE RecordFault(d)
      BY <3>1, <3>3, <2>1, FaultStep DEF DeviceInv, TrailOK
    <3>4. QED BY <1>8, <3>2, <3>3
  <2>3. Job(s)["dst"] = s.desc["dst"]
    BY DEF Job, JobField
  <2>4. Gate(d) => OutputAt(n) = OutputAt(s)
    BY <2>1, <2>2, <2>3 DEF OutputAt, BUSY, DONE, POSTFAIL
  <2>5. CommitOK(d)'
    BY <2>1, <2>4, CommitStays DEF BUSY, DONE, POSTFAIL
  <2>6. QED BY <2>1, <2>5, <1>0
<1>9. ASSUME NEW d \in Dev, NEW w \in Word, NEW v, HostStore(d, w, v)
      PROVE  \A e \in Dev : CommitOK(e)'
  BY <1>9, <1>0, StoreStep, CommitStored
<1>10. ASSUME NEW d \in Dev, Realize(d) \/ Unplug(d)
       PROVE  \A e \in Dev : CommitOK(e)'
  <2>1. ram'[d] = base'[d] /\ ep'[d].committed = 0 /\ OnlyAt(d)
    BY <1>10, PlugStep DEF NewEndpoint
  <2>2. QED BY <2>1, <1>0, CommitCleared
<1>11. QED BY <1>2, <1>3, <1>4, <1>5, <1>6, <1>7, <1>8, <1>9, <1>10 DEF Next

(***************************************************************************)
(* The time a job has spent                                                *)
(***************************************************************************)
LEMMA CostTyped ==
  ASSUME NEW w \in Nat
  PROVE  /\ w * ComputeNs \in Nat /\ Serialization(w) \in Nat /\ JobCost(w) \in Nat
         /\ RecordNs \in Nat /\ LinkNs \in Nat
<1>1. w * ComputeNs \in Nat /\ Serialization(w) \in Nat
  BY SerializationTyped, CostAssumption
<1>2. QED BY <1>1, CostAssumption DEF JobCost

\* One more record keeps the pairs paid if it is no completion or is late enough.
LEMMA PairsGrow ==
  ASSUME NEW s \in EndpointType, NEW n, PairsPaid(s), NEW r \in RecordType,
         n.log = Append(s.log, r),
         Even(Len(s.log) + 1) =>
           r.time >= s.log[Len(s.log)].time + JobCost(s.log[Len(s.log)].job["words"])
  PROVE  PairsPaid(n)
<1> DEFINE len == Len(s.log)
<1>1. s.log \in Seq(RecordType) /\ len \in Nat
  BY LogFacts
<1>2. /\ Len(n.log) = len + 1 /\ n.log[len + 1] = r
      /\ \A i \in 1..len : n.log[i] = s.log[i]
  BY <1>1, AppendFacts
<1> SUFFICES ASSUME NEW i \in 2..Len(n.log), Even(i)
             PROVE  n.log[i].time >= n.log[i - 1].time + JobCost(n.log[i - 1].job["words"])
  BY DEF PairsPaid
<1>3. CASE i = len + 1
  <2>1. n.log[i] = r /\ n.log[i - 1] = s.log[len]
    BY <1>1, <1>2, <1>3
  <2>2. QED BY <2>1, <1>3
<1>4. CASE i # len + 1
  <2>1. i \in 2..len /\ n.log[i] = s.log[i] /\ n.log[i - 1] = s.log[i - 1]
    BY <1>1, <1>2, <1>4
  <2>2. QED BY <2>1 DEF PairsPaid
<1>5. QED BY <1>3, <1>4

\* What a running job of the gate knows of its request.
LEMMA OpenRequest ==
  ASSUME NEW d \in Enforced, NEW s \in EndpointType, DeviceInv(d, s), s.state = BUSY
  PROVE  /\ Even(Len(s.log) + 1) /\ Len(s.log) \in Nat \ {0}
         /\ s.log[Len(s.log)] \in RecordType /\ s.log[Len(s.log)].time \in Nat
         /\ s.log[Len(s.log)].job["words"] = s.desc["words"]
         /\ s.desc["words"] \in Nat /\ s.timer \in Nat
<1>1. TrailOK(s) /\ s.timer # Disarmed
  BY DEF DeviceInv, Gate, TimerOK
<1>2. ~Even(Len(s.log)) /\ s.log[Len(s.log)].job = Job(s)
  BY <1>1 DEF TrailOK
<1>3. s.log \in Seq(RecordType) /\ Len(s.log) \in Nat /\ Len(s.log) # 0
  BY <1>2, LogFacts, EvenStep
<1>4. s.log[Len(s.log)] \in RecordType
  BY <1>3
<1>5. s.desc["words"] \in Nat /\ s.timer \in Nat
  BY <1>1, LogFacts, SizeAssumption DEF Field, Reg
<1>6. Job(s)["words"] = s.desc["words"]
  BY DEF Job, JobField
<1>7. Even(Len(s.log) + 1)
  BY <1>2, <1>3, EvenStep
<1>8. QED BY <1>2, <1>3, <1>4, <1>5, <1>6, <1>7 DEF RecordType

LEMMA CostKept ==
  ASSUME TypeOK, EndpointInv, \A d \in Enforced : CostOK(ep[d]), [Next]_vars
  PROVE  \A d \in Enforced : CostOK(ep'[d])
<1> SUFFICES ASSUME NEW d \in Enforced PROVE CostOK(ep'[d])
  OBVIOUS
<1> DEFINE s == ep[d]
           n == ep'[d]
           len == Len(s.log)
           words == s.desc["words"]
<1>0. /\ d \in Dev /\ Gate(d) /\ s \in EndpointType /\ DeviceInv(d, s)
      /\ CostOK(s) /\ now \in Nat /\ link_free_ns \in Nat /\ RecordCost(d) = RecordNs
  BY DevAssumption DEF Gate, TypeOK, EndpointInv, RecordCost
<1>1. CASE n = s
  BY <1>0, <1>1
<1>2. CASE UNCHANGED vars \/ Tick
  BY <1>1, <1>2 DEF vars, Tick
<1>3. ASSUME NEW e \in Dev, OnlyAt(e), e # d PROVE CostOK(n)
  BY <1>0, <1>1, <1>3 DEF OnlyAt
<1>4. ASSUME n.log = s.log, n.state # BUSY PROVE CostOK(n)
  BY <1>0, <1>4 DEF CostOK, PairsPaid
<1>5. ASSUME NEW v,
             \/ \E f \in Field : WriteField(d, f, v)
             \/ WriteCapacity(d, v)
             \/ RejectWrite(d)
      PROVE  CostOK(n)
  <2>1. Quiet(s, n)
    BY <1>5, <1>0, RegisterStep
  <2>2. QED BY <2>1, <1>0 DEF Quiet, CostOK, PairsPaid
<1>6. ASSUME NEW v, WriteEpoch(d, v) PROVE CostOK(n)
  <2>1. n.log = <<>> /\ n.state # BUSY
    BY <1>6, <1>0, EpochStep DEF IDLE, BUSY
  <2>2. QED BY <2>1 DEF CostOK, PairsPaid
<1>7. CASE Refuse(d)
  <2>1. n.log = s.log /\ n.state # BUSY
    BY <1>7, <1>0, RefuseStep DEF PREFAIL, BUSY
  <2>2. QED BY <2>1, <1>4
<1>8. CASE Submit(d)
  <2>1. PICK r \in RecordType : n.log = Append(s.log, r) /\ r.time = now
    BY <1>8, <1>0, SubmitStep
  <2>2. /\ s.state \in {IDLE, DONE} /\ n.state = BUSY /\ n.phase = "COMPUTE_END"
        /\ n.desc = s.desc /\ s.desc["release"] >= now
        /\ n.timer = s.desc["release"] + RecordNs + words * ComputeNs
    BY <1>8, <1>0, SubmitStep
  <2>3. ~Even(len + 1)
    <3>1. Even(len) /\ len \in Nat
      BY <1>0, <2>2, LogFacts DEF DeviceInv, TrailOK, IDLE, DONE, BUSY, POSTFAIL
    <3>2. QED BY <3>1, EvenStep
  <2>4. PairsPaid(n)
    BY <2>1, <2>3, <1>0, PairsGrow DEF CostOK
  <2>5. n.log[Len(n.log)].time = now
    BY <2>1, <1>0, LogFacts, AppendFacts
  <2>6. words \in Nat /\ s.desc["release"] \in Nat
    BY <1>0, LogFacts, SizeAssumption DEF Field, Reg
  <2>7. n.timer >= now + SpentAt(n.phase, n.desc["words"])
    <3>1. SpentAt(n.phase, n.desc["words"]) = RecordNs + words * ComputeNs
      BY <2>2 DEF SpentAt
    <3> DEFINE wc == words * ComputeNs
    <3>2. wc \in Nat /\ RecordNs \in Nat
      BY <2>6, CostTyped
    <3>3. n.timer = s.desc["release"] + RecordNs + wc
      BY <2>2
    <3> HIDE DEF wc
    <3>4. n.timer >= now + (RecordNs + wc)
      BY <3>2, <3>3, <2>2, <2>6, <1>0
    <3>5. QED BY <3>1, <3>4 DEF wc
  <2>8. QED BY <2>4, <2>5, <2>7 DEF CostOK
<1>9. CASE ComputeEnd(d) \/ LinkEnd(d) \/ RecordEnd(d) \/ RecordFault(d)
  <2> DEFINE asked == s.log[len].time
             wc == words * ComputeNs
             ser == Serialization(words)
  <2>1. s.state = BUSY /\ s.timer <= now
    BY <1>9, <1>0, FiresBusy DEF ComputeEnd, LinkEnd, RecordEnd, RecordFault
  <2>2. /\ Even(len + 1) /\ s.log[len].job["words"] = words
        /\ asked \in Nat /\ words \in Nat /\ s.timer \in Nat
    BY <2>1, <1>0, OpenRequest
  <2>3. s.timer >= asked + SpentAt(s.phase, words) /\ PairsPaid(s)
    BY <2>1, <1>0 DEF CostOK
  <2>4. /\ wc \in Nat /\ ser \in Nat /\ RecordNs \in Nat /\ LinkNs \in Nat
        /\ JobCost(words) = 2 * RecordNs + wc + ser + LinkNs
    BY <2>2, CostTyped DEF JobCost
  <2>5. CASE ComputeEnd(d)
    <3>1. /\ n.log = s.log /\ n.desc = s.desc /\ n.state = BUSY /\ s.phase = "COMPUTE_END"
          /\ n.phase = "LINK_END" /\ n.timer = MaxOf(now, link_free_ns) + ser + LinkNs
      BY <2>5, <1>0, ComputeStep
    <3>2. /\ SpentAt(s.phase, words) = RecordNs + wc
          /\ SpentAt(n.phase, words) = RecordNs + wc + ser + LinkNs
      BY <3>1 DEF SpentAt
    <3>3. MaxOf(now, link_free_ns) \in Nat /\ MaxOf(now, link_free_ns) >= now
      BY <1>0 DEF MaxOf
    <3> HIDE DEF wc, ser, asked, words, len
    <3>4. n.timer >= asked + SpentAt(n.phase, words)
      BY <3>1, <3>2, <3>3, <2>1, <2>2, <2>3, <2>4, <1>0
    <3>5. QED BY <3>1, <3>4, <2>3 DEF CostOK, PairsPaid, asked, words, len
  <2>6. CASE LinkEnd(d)
    <3>1. /\ n.log = s.log /\ n.desc = s.desc /\ n.state = BUSY /\ s.phase = "LINK_END"
          /\ n.phase = "RECORD_END" /\ n.timer = now + RecordNs
      BY <2>6, <1>0, LinkStep
    <3>2. /\ SpentAt(s.phase, words) = RecordNs + wc + ser + LinkNs
          /\ SpentAt(n.phase, words) = 2 * RecordNs + wc + ser + LinkNs
      BY <3>1, <2>4 DEF SpentAt
    <3> HIDE DEF wc, ser, asked, words, len
    <3>3. n.timer >= asked + SpentAt(n.phase, words)
      BY <3>1, <3>2, <2>1, <2>2, <2>3, <2>4, <1>0
    <3>4. QED BY <3>1, <3>3, <2>3 DEF CostOK, PairsPaid, asked, words, len
  <2>7. CASE RecordEnd(d)
    <3>1. PICK r \in RecordType : n.log = Append(s.log, r) /\ r.time = now
      BY <2>7, <1>0, FinishStep
    <3>2. n.state # BUSY /\ s.phase = "RECORD_END"
      BY <2>7, <1>0, FinishStep DEF DONE, BUSY
    <3>3. SpentAt(s.phase, words) = JobCost(words) /\ JobCost(words) \in Nat
      BY <3>2, <2>2, CostTyped DEF SpentAt
    <3>4. r.time >= asked + JobCost(words)
      BY <3>1, <3>3, <2>1, <2>2, <2>3, <1>0
    <3>5. PairsPaid(n)
      BY <3>1, <3>4, <2>2, <2>3, <1>0, PairsGrow
    <3>6. QED BY <3>2, <3>5 DEF CostOK
  <2>8. CASE RecordFault(d)
    <3>1. n.log = s.log /\ n.state # BUSY
      BY <2>8, <1>0, FaultStep DEF POSTFAIL, BUSY
    <3>2. QED BY <3>1, <1>4
  <2>9. QED BY <1>9, <2>5, <2>6, <2>7, <2>8
<1>10. ASSUME NEW e \in Dev, NEW w \in Word, NEW v, HostStore(e, w, v) PROVE CostOK(n)
  BY <1>10, <1>1 DEF HostStore
<1>11. CASE Realize(d) \/ Unplug(d)
  <2>1. n = NewEndpoint
    BY <1>11, <1>0, PlugStep
  <2>2. n.log = <<>> /\ n.state # BUSY
    BY <2>1 DEF NewEndpoint, IDLE, BUSY
  <2>3. QED BY <2>2 DEF CostOK, PairsPaid
<1> HIDE DEF n, s
<1>12. ASSUME NEW e \in Dev, e # d, NEW v,
              \/ \E f \in Field : WriteField(e, f, v)
              \/ WriteCapacity(e, v) \/ RejectWrite(e) \/ WriteEpoch(e, v)
              \/ Refuse(e) \/ Submit(e) \/ ComputeEnd(e) \/ LinkEnd(e)
              \/ RecordEnd(e) \/ RecordFault(e) \/ Realize(e) \/ Unplug(e)
       PROVE  CostOK(n)
  <2>1. OnlyAt(e)
    BY <1>12, RegisterStep, EpochStep, RefuseStep, SubmitStep, ComputeStep, LinkStep,
       FinishStep, FaultStep, PlugStep
  <2>2. QED BY <2>1, <1>12, <1>3
<1>13. QED BY <1>2, <1>5, <1>6, <1>7, <1>8, <1>9, <1>10, <1>11, <1>12 DEF Next, n

(***************************************************************************)
(* The shared link                                                         *)
(***************************************************************************)
LEMMA SendingTyped ==
  ASSUME TypeOK, NEW d \in Dev
  PROVE  ep[d].link_start \in Nat /\ SentBy(d) \in Nat /\ link_free_ns \in Nat
<1>1. ep[d] \in EndpointType /\ link_free_ns \in Nat
  BY DEF TypeOK
<1>2. ep[d].desc["words"] \in Nat
  BY <1>1, LogFacts, SizeAssumption DEF Field, Reg
<1>3. ep[d].link_start \in Nat
  BY <1>1 DEF EndpointType
<1>4. QED BY <1>1, <1>2, <1>3, SerializationTyped DEF SentBy

LEMMA SendingWindow ==
  ASSUME TypeOK, NEW d \in Dev, NEW t \in Sending(d)
  PROVE  t \in Int /\ ep[d].link_start <= t /\ t < SentBy(d)
<1> DEFINE first == ep[d].link_start
           ser == Serialization(ep[d].desc["words"])
<1>1. ep[d] \in EndpointType
  BY DEF TypeOK
<1>2. first \in Nat
  BY <1>1 DEF EndpointType
<1>3. ser \in Nat
  <2>1. ep[d].desc["words"] \in Nat
    BY <1>1, LogFacts, SizeAssumption DEF Field, Reg
  <2>2. QED BY <2>1, SerializationTyped
<1>4. SentBy(d) = first + ser
  BY DEF SentBy
<1>5. t \in first..(first + ser - 1)
  BY DEF Sending
<1> HIDE DEF first, ser
<1>6. t \in Int /\ first <= t /\ t < SentBy(d)
  BY <1>2, <1>3, <1>4, <1>5
<1>7. QED BY <1>6 DEF first

\* Nobody new on the link, and the link's schedule kept while anyone is on it.
LEMMA LinkShrinks ==
  ASSUME \A d \in Dev : LinkOK(d),
         \A d \in Dev : OnLink(d)' => /\ OnLink(d) /\ SentBy(d)' = SentBy(d)
                                      /\ ep'[d].link_start = ep[d].link_start
                                      /\ link_free_ns' = link_free_ns
  PROVE  \A d \in Dev : LinkOK(d)'
BY DEF LinkOK

\* A step of one device that does not put it on the link.
LEMMA LinkFrame ==
  ASSUME \A d \in Dev : LinkOK(d), NEW d \in Dev, OnlyAt(d),
         present' \ {d} \subseteq present,
         link_free_ns' = link_free_ns \/ present' \subseteq {d},
         \/ ~OnLink(d)'
         \/ Quiet(ep[d], ep'[d]) /\ UNCHANGED <<present, link_free_ns>>
  PROVE  \A e \in Dev : LinkOK(e)'
<1>1. ASSUME NEW e \in Dev, OnLink(e)'
      PROVE  /\ OnLink(e) /\ SentBy(e)' = SentBy(e)
             /\ ep'[e].link_start = ep[e].link_start
             /\ link_free_ns' = link_free_ns
  <2>1. CASE e = d
    BY <1>1, <2>1 DEF OnLink, Quiet, SentBy
  <2>2. CASE e # d
    BY <1>1, <2>2 DEF OnLink, OnlyAt, SentBy
  <2>3. QED BY <2>1, <2>2
<1>2. QED BY <1>1, LinkShrinks

\* complete() queues the transfer behind everything on the link.
LEMMA LinkQueues ==
  ASSUME TypeOK, EndpointInv, \A d \in Dev : LinkOK(d), NEW d \in Dev, ComputeEnd(d)
  PROVE  \A e \in Dev : LinkOK(e)'
<1>1. /\ ep'[d].link_start = MaxOf(now, link_free_ns) /\ ep'[d].desc = ep[d].desc
      /\ link_free_ns' = ep'[d].link_start + Serialization(ep[d].desc["words"])
      /\ OnlyAt(d) /\ UNCHANGED present
  BY ComputeStep
<1>2. /\ SentBy(d)' = link_free_ns'
      /\ \A e \in Dev \ {d} : /\ SentBy(e)' = SentBy(e) /\ (OnLink(e)' => OnLink(e))
                              /\ ep'[e].link_start = ep[e].link_start
  BY <1>1 DEF OnlyAt, SentBy, OnLink
<1>3. /\ ep'[d].link_start \in Nat /\ ep'[d].link_start >= link_free_ns
      /\ link_free_ns' \in Nat /\ link_free_ns' >= link_free_ns
  <2>1. now \in Nat /\ link_free_ns \in Nat /\ ep[d] \in EndpointType
    BY DEF TypeOK
  <2>2. Serialization(ep[d].desc["words"]) \in Nat
    <3>1. ep[d].desc["words"] \in Nat
      BY <2>1, LogFacts, SizeAssumption DEF Field, Reg
    <3>2. QED BY <3>1, SerializationTyped
  <2>3. QED BY <2>1, <2>2, <1>1 DEF MaxOf
<1>4. \A e \in Dev : SentBy(e) \in Nat /\ ep[e].link_start \in Nat /\ link_free_ns \in Nat
  BY SendingTyped
<1>5. \A e \in Dev \ {d} : OnLink(e)' => SentBy(e) <= link_free_ns
  BY <1>2 DEF LinkOK
<1>6. \A e \in Dev \ {d} : OnLink(e)' => /\ SentBy(e) <= ep'[d].link_start
                                         /\ SentBy(e) <= link_free_ns'
  BY <1>3, <1>4, <1>5
<1>7. LinkOK(d)'
  BY <1>2, <1>3, <1>6 DEF LinkOK
<1>8. ASSUME NEW e \in Dev \ {d} PROVE LinkOK(e)'
  BY <1>2, <1>6 DEF LinkOK
<1>9. QED BY <1>7, <1>8

LEMMA LinkKept ==
  ASSUME TypeOK, EndpointInv, \A d \in Dev : LinkOK(d), [Next]_vars
  PROVE  \A d \in Dev : LinkOK(d)'
<1>1. CASE UNCHANGED <<ep, present, link_free_ns>>
  BY <1>1 DEF LinkOK, OnLink, SentBy
<1>2. CASE UNCHANGED vars \/ Tick
  BY <1>1, <1>2 DEF vars, Tick
<1>3. ASSUME NEW d \in Dev, NEW v,
             \/ \E f \in Field : WriteField(d, f, v)
             \/ WriteCapacity(d, v) \/ RejectWrite(d)
      PROVE  \A e \in Dev : LinkOK(e)'
  BY <1>3, RegisterStep, LinkFrame
<1>4. ASSUME NEW d \in Dev, NEW v,
             \/ WriteEpoch(d, v) \/ Refuse(d) \/ Submit(d)
             \/ LinkEnd(d) \/ RecordEnd(d) \/ RecordFault(d)
      PROVE  \A e \in Dev : LinkOK(e)'
  <2>1. /\ OnlyAt(d) /\ UNCHANGED <<present, link_free_ns>>
        /\ ep'[d].state # BUSY \/ ep'[d].phase # "LINK_END"
    BY <1>4, EpochStep, RefuseStep, SubmitStep, LinkStep, FinishStep, FaultStep
       DEF IDLE, BUSY, DONE, PREFAIL, POSTFAIL
  <2>2. ~OnLink(d)'
    BY <2>1 DEF OnLink
  <2>3. QED BY <2>1, <2>2, LinkFrame
<1>5. ASSUME NEW d \in Dev, ComputeEnd(d) PROVE \A e \in Dev : LinkOK(e)'
  BY <1>5, LinkQueues
<1>6. ASSUME NEW d \in Dev, NEW w \in Word, NEW v, HostStore(d, w, v)
      PROVE  \A e \in Dev : LinkOK(e)'
  BY <1>1, <1>6, StoreStep
<1>7. ASSUME NEW d \in Dev, Realize(d) \/ Unplug(d) PROVE \A e \in Dev : LinkOK(e)'
  <2>1. /\ OnlyAt(d) /\ present' \ {d} \subseteq present /\ ep'[d] = NewEndpoint
        /\ link_free_ns' = link_free_ns \/ present' \subseteq {d}
    BY <1>7, PlugStep
  <2>2. ~OnLink(d)'
    BY <2>1 DEF OnLink, NewEndpoint, IDLE, BUSY
  <2>3. QED BY <2>1, <2>2, LinkFrame
<1>8. QED BY <1>2, <1>3, <1>4, <1>5, <1>6, <1>7 DEF Next

(***************************************************************************)
(* Theorems                                                                *)
(***************************************************************************)
\* What the log, the committed flag and the link schedule claim is true in
\* every reachable state, for every set of devices, memory size and cost.
THEOREM HistorySafe == Spec => []HistoryInv
<1>1. Init => HistoryInv
  <2> SUFFICES ASSUME Init PROVE HistoryInv
    OBVIOUS
  <2>1. \A d \in Dev : /\ ep[d].state # BUSY /\ ep[d].log = <<>>
                       /\ ep[d].committed = 0 /\ ram[d] = base[d]
    BY DEF Init, NewEndpoint, IDLE, BUSY
  <2>2. ASSUME NEW d \in Dev PROVE CommitOK(d)
    <3>1. ep[d].committed = 0 /\ ram[d] = base[d]
      BY <2>1
    <3>2. QED BY <3>1 DEF CommitOK
  <2>3. ASSUME NEW d \in Enforced PROVE CostOK(ep[d])
    <3>1. ep[d].log = <<>> /\ ep[d].state # BUSY
      BY <2>1, DevAssumption
    <3>2. QED BY <3>1 DEF CostOK, PairsPaid
  <2>4. \A d \in Dev : LinkOK(d)
    BY <2>1 DEF LinkOK, OnLink
  <2>5. QED BY <2>2, <2>3, <2>4 DEF HistoryInv
<1>2. TypeOK /\ EndpointInv /\ HistoryInv /\ [Next]_vars => HistoryInv'
  <2> SUFFICES ASSUME TypeOK, EndpointInv, HistoryInv, [Next]_vars PROVE HistoryInv'
    OBVIOUS
  <2>1. \A d \in Dev : CommitOK(d)'
    BY CommitKept DEF HistoryInv
  <2>2. \A d \in Enforced : CostOK(ep'[d])
    BY CostKept DEF HistoryInv
  <2>3. \A d \in Dev : LinkOK(d)'
    BY LinkKept DEF HistoryInv
  <2>4. QED BY <2>1, <2>2, <2>3 DEF HistoryInv
<1>3. QED BY <1>1, <1>2, TypeCorrect, EndpointSafe, PTL DEF Spec

\* The committed register tells the truth about device memory.
THEOREM CommitSafe == Spec => []CommitTruth
<1>1. TypeOK /\ HistoryInv => CommitTruth
  BY DEF TypeOK, HistoryInv, CommitTruth
<1>2. QED BY <1>1, TypeCorrect, HistorySafe, PTL

\* No completion record is younger than its request by less than the job's cost.
THEOREM CostSafe == Spec => []CostCharged
<1>1. HistoryInv => CostCharged
  BY DEF HistoryInv, CostOK, CostCharged
<1>2. QED BY <1>1, HistorySafe, PTL

\* Transfers of different endpoints never overlap on the shared link.
THEOREM LinkSafe == Spec => []LinkExclusive
<1>1. TypeOK /\ HistoryInv => LinkExclusive
  <2> SUFFICES ASSUME TypeOK, HistoryInv, NEW d \in Dev, NEW e \in Dev, OnLink(d)
               PROVE  /\ \A t \in Sending(d) : t < link_free_ns
                      /\ OnLink(e) /\ d # e => Sending(d) \cap Sending(e) = {}
    BY DEF LinkExclusive
  <2>1. /\ ep[d].link_start \in Nat /\ SentBy(d) \in Nat /\ link_free_ns \in Nat
        /\ ep[e].link_start \in Nat /\ SentBy(e) \in Nat
    BY SendingTyped
  <2>2. /\ SentBy(d) <= link_free_ns
        /\ OnLink(e) /\ d # e => \/ SentBy(d) <= ep[e].link_start
                                 \/ SentBy(e) <= ep[d].link_start
    BY DEF HistoryInv, LinkOK
  <2>3. /\ \A t \in Sending(d) : t \in Int /\ ep[d].link_start <= t /\ t < SentBy(d)
        /\ \A t \in Sending(e) : t \in Int /\ ep[e].link_start <= t /\ t < SentBy(e)
    BY SendingWindow
  <2>4. \A t \in Sending(d) : t < link_free_ns
    BY <2>1, <2>2, <2>3
  <2>5. ASSUME OnLink(e), d # e, NEW t \in Sending(d), t \in Sending(e) PROVE FALSE
    BY <2>1, <2>2, <2>3, <2>5
  <2>6. QED BY <2>4, <2>5
<1>2. QED BY <1>1, TypeCorrect, HistorySafe, PTL

(***************************************************************************)
(* The gated endpoints implement EndpointContract, for every set of        *)
(* devices, gated or not, and every cost: each step of the endpoints is a  *)
(* step of the contract or leaves everything it sees alone.                *)
(***************************************************************************)

(***************************************************************************)
(* The refinement mapping, by device                                       *)
(***************************************************************************)
aliveMap == present \cap Enforced
statusMap == [d \in Enforced |-> StatusOf(ep[d])]
effectMap == [d \in Enforced |-> ep[d].committed = 1]
trailMap == [d \in Enforced |-> TrailOf(ep[d])]
eraMap == [d \in Enforced |-> ep[d].epoch]

\* The contract sees a step of d only at d.
SeenAt(d) ==
  /\ statusMap' = [statusMap EXCEPT ![d] = StatusOf(ep'[d])]
  /\ effectMap' = [effectMap EXCEPT ![d] = (ep'[d].committed = 1)]
  /\ trailMap' = [trailMap EXCEPT ![d] = TrailOf(ep'[d])]
  /\ eraMap' = [eraMap EXCEPT ![d] = ep'[d].epoch]

Unseen == UNCHANGED <<aliveMap, statusMap, effectMap, trailMap, eraMap>>

LEMMA MappedAt ==
  ASSUME NEW d \in Enforced
  PROVE  /\ statusMap[d] = StatusOf(ep[d]) /\ effectMap[d] = (ep[d].committed = 1)
         /\ trailMap[d] = TrailOf(ep[d]) /\ eraMap[d] = ep[d].epoch
BY DEF statusMap, effectMap, trailMap, eraMap

LEMMA SeenWhereItHappens ==
  ASSUME NEW d \in Enforced, OnlyAt(d)
  PROVE  SeenAt(d)
<1>1. \A e \in Enforced \ {d} : ep'[e] = ep[e]
  BY DevAssumption DEF OnlyAt
<1>2. statusMap' = [statusMap EXCEPT ![d] = StatusOf(ep'[d])]
  BY <1>1 DEF statusMap
<1>3. effectMap' = [effectMap EXCEPT ![d] = (ep'[d].committed = 1)]
  BY <1>1, Zenon DEF effectMap
<1>4. trailMap' = [trailMap EXCEPT ![d] = TrailOf(ep'[d])]
  BY <1>1 DEF trailMap
<1>5. eraMap' = [eraMap EXCEPT ![d] = ep'[d].epoch]
  BY <1>1 DEF eraMap
<1>6. QED BY <1>2, <1>3, <1>4, <1>5 DEF SeenAt

LEMMA StaysWhereItHappens ==
  ASSUME NEW d \in Enforced, OnlyAt(d)
  PROVE  /\ StatusOf(ep'[d]) = StatusOf(ep[d]) => statusMap' = statusMap
         /\ ep'[d].committed = ep[d].committed => effectMap' = effectMap
         /\ ep'[d].log = ep[d].log => trailMap' = trailMap
         /\ ep'[d].epoch = ep[d].epoch => eraMap' = eraMap
<1>1. \A e \in Enforced \ {d} : ep'[e] = ep[e]
  BY DevAssumption DEF OnlyAt
<1>2. StatusOf(ep'[d]) = StatusOf(ep[d]) => statusMap' = statusMap
  BY <1>1 DEF statusMap
<1>3. ep'[d].committed = ep[d].committed => effectMap' = effectMap
  BY <1>1, Zenon DEF effectMap
<1>4. ep'[d].log = ep[d].log => trailMap' = trailMap
  BY <1>1 DEF trailMap, TrailOf
<1>5. ep'[d].epoch = ep[d].epoch => eraMap' = eraMap
  BY <1>1 DEF eraMap
<1>6. QED BY <1>2, <1>3, <1>4, <1>5

\* A step the contract does not see: what it reads of every gated device stays.
LEMMA NotSeen ==
  ASSUME present' \cap Enforced = present \cap Enforced,
         \A d \in Enforced : /\ ep'[d].state = ep[d].state
                             /\ ep'[d].committed = ep[d].committed
                             /\ ep'[d].log = ep[d].log /\ ep'[d].epoch = ep[d].epoch
  PROVE  Unseen
<1>1. aliveMap' = aliveMap
  BY DEF aliveMap
<1>2. statusMap' = statusMap
  <2>1. ASSUME NEW d \in Enforced PROVE StatusOf(ep'[d]) = StatusOf(ep[d])
    BY DEF StatusOf
  <2>2. QED BY <2>1 DEF statusMap
<1>3. effectMap' = effectMap
  BY Zenon DEF effectMap
<1>4. trailMap' = trailMap
  BY DEF trailMap, TrailOf
<1>5. eraMap' = eraMap
  BY DEF eraMap
<1>6. QED BY <1>1, <1>2, <1>3, <1>4, <1>5 DEF Unseen

LEMMA StatusCases ==
  ASSUME NEW s
  PROVE  /\ s.state = IDLE => StatusOf(s) = "idle"
         /\ s.state = BUSY => StatusOf(s) = "working"
         /\ s.state = DONE => StatusOf(s) = "done"
         /\ s.state = PREFAIL => StatusOf(s) = "refused"
         /\ s.state = POSTFAIL => StatusOf(s) = "lost"
BY DEF StatusOf, IDLE, BUSY, DONE, PREFAIL, POSTFAIL

\* Of a state register, "working" means BUSY.
LEMMA WorkingIsBusy ==
  ASSUME NEW s \in EndpointType, s.state # BUSY
  PROVE  StatusOf(s) # "working"
<1>1. s.state \in {IDLE, DONE, PREFAIL, POSTFAIL}
  BY DEF EndpointType, State
<1>2. QED BY <1>1, StatusCases

\* One more record is one more entry.
LEMMA TrailGrows ==
  ASSUME NEW s \in EndpointType, NEW n, NEW r \in RecordType, n.log = Append(s.log, r)
  PROVE  TrailOf(n) = Append(TrailOf(s), EntryOf(r))
<1> DEFINE len == Len(s.log)
<1>1. s.log \in Seq(RecordType) /\ len \in Nat
  BY LogFacts
<1>2. /\ Len(n.log) = len + 1 /\ n.log[len + 1] = r
      /\ \A i \in 1..len : n.log[i] = s.log[i]
  BY <1>1, AppendFacts
<1>3. TrailOf(s) \in Seq({EntryOf(x) : x \in RecordType}) /\ Len(TrailOf(s)) = len
  <2>1. \A i \in 1..len : s.log[i] \in RecordType
    BY <1>1
  <2>2. QED BY <2>1, <1>1 DEF TrailOf
<1>4. TrailOf(n) = [i \in 1..(len + 1) |-> EntryOf(n.log[i])]
  BY <1>2 DEF TrailOf
<1>5. TrailOf(s) = [i \in 1..len |-> EntryOf(s.log[i])]
  BY DEF TrailOf
<1> DEFINE E == {EntryOf(x) : x \in RecordType}
           a == Append(TrailOf(s), EntryOf(r))
<1>6. EntryOf(r) \in E
  OBVIOUS
<1> HIDE DEF len, E
<1>7. /\ a \in Seq(E) /\ Len(a) = len + 1 /\ a[len + 1] = EntryOf(r)
      /\ \A i \in 1..len : a[i] = TrailOf(s)[i]
  BY <1>3, <1>6 DEF E
<1> HIDE DEF a
<1>8. a = [i \in 1..(len + 1) |-> a[i]]
  BY <1>1, <1>7
<1>9. ASSUME NEW i \in 1..(len + 1) PROVE EntryOf(n.log[i]) = a[i]
  <2>1. CASE i = len + 1
    BY <2>1, <1>2, <1>7 DEF len
  <2>2. CASE i # len + 1
    <3>1. i \in 1..len
      BY <2>2, <1>1
    <3>2. QED BY <3>1, <1>2, <1>5, <1>7 DEF len
  <2>3. QED BY <2>1, <2>2
<1>10. QED BY <1>4, <1>8, <1>9 DEF a

\* The job of the last entry of a trail.
LEMMA LastEntry ==
  ASSUME NEW s \in EndpointType, Len(s.log) # 0
  PROVE  /\ Len(TrailOf(s)) = Len(s.log)
         /\ TrailOf(s)[Len(s.log)][2] = s.log[Len(s.log)].job
<1>1. s.log \in Seq(RecordType) /\ Len(s.log) \in Nat
  BY LogFacts
<1>2. QED BY <1>1 DEF TrailOf, EntryOf

(***************************************************************************)
(* Each step that the contract sees                                        *)
(***************************************************************************)
LEMMA EpochIsNewEra ==
  ASSUME TypeOK, NEW d \in Enforced, NEW v, d \in present, WriteEpoch(d, v)
  PROVE  Contract!NewEra(d)
<1> DEFINE s == ep[d]
           n == ep'[d]
<1>1. d \in Dev /\ s \in EndpointType
  BY DevAssumption DEF TypeOK
<1>2. /\ s.state # BUSY /\ n.state = IDLE /\ n.committed = 0 /\ n.epoch > s.epoch
      /\ n.log = <<>> /\ OnlyAt(d) /\ UNCHANGED present
  BY <1>1, EpochStep
<1>3. StatusOf(s) # "working" /\ StatusOf(n) = "idle" /\ (n.committed = 1) = FALSE
  BY <1>1, <1>2, WorkingIsBusy, StatusCases
<1>4. TrailOf(n) = <<>>
  BY <1>2 DEF TrailOf
<1>5. SeenAt(d) /\ eraMap'[d] = n.epoch /\ aliveMap' = aliveMap
  BY <1>2, SeenWhereItHappens DEF eraMap, aliveMap
<1> HIDE DEF s, n
<1>6. /\ d \in aliveMap /\ ~(statusMap[d] = "working")
      /\ eraMap'[d] > eraMap[d] /\ eraMap' = [eraMap EXCEPT ![d] = eraMap'[d]]
      /\ statusMap' = [statusMap EXCEPT ![d] = "idle"]
      /\ effectMap' = [effectMap EXCEPT ![d] = FALSE]
      /\ trailMap' = [trailMap EXCEPT ![d] = <<>>]
      /\ aliveMap' = aliveMap
  BY <1>2, <1>3, <1>4, <1>5, MappedAt DEF SeenAt, s, n, aliveMap
<1>7. QED BY <1>6 DEF Contract!NewEra, Contract!Running, aliveMap, statusMap,
                      effectMap, trailMap, eraMap

LEMMA RefuseIsDeny ==
  ASSUME TypeOK, EndpointInv, NEW d \in Enforced, d \in present, Refuse(d)
  PROVE  Contract!Deny(d)
<1> DEFINE s == ep[d]
           n == ep'[d]
<1>1. d \in Dev /\ s \in EndpointType
  BY DevAssumption DEF TypeOK
<1>2. /\ s.state \in {IDLE, DONE} /\ n.state = PREFAIL /\ n.committed = 0
      /\ n.epoch = s.epoch /\ n.log = s.log /\ OnlyAt(d) /\ UNCHANGED present
  BY <1>1, RefuseStep
<1>3. /\ StatusOf(s) \in {"idle", "done"} /\ StatusOf(n) = "refused"
      /\ (n.committed = 1) = FALSE
  BY <1>2, StatusCases
<1>4. SeenAt(d) /\ aliveMap' = aliveMap
  BY <1>2, SeenWhereItHappens DEF aliveMap
<1> HIDE DEF s, n
<1>5. /\ d \in aliveMap /\ statusMap[d] \in {"idle", "done"}
      /\ statusMap' = [statusMap EXCEPT ![d] = "refused"]
      /\ effectMap' = [effectMap EXCEPT ![d] = FALSE]
      /\ aliveMap' = aliveMap
  BY <1>3, <1>4, MappedAt DEF SeenAt, s, n, aliveMap
<1>6. trailMap' = trailMap /\ eraMap' = eraMap
  BY <1>2, StaysWhereItHappens DEF s, n
<1>7. QED BY <1>5, <1>6 DEF Contract!Deny, Contract!Rest, aliveMap, statusMap,
                            effectMap, trailMap, eraMap

LEMMA SubmitIsBegin ==
  ASSUME TypeOK, EndpointInv, NEW d \in Enforced, d \in present, Submit(d)
  PROVE  Contract!Begin(d)
<1> DEFINE s == ep[d]
           n == ep'[d]
           job == Job(s)
<1>1. d \in Dev /\ s \in EndpointType /\ Gate(d)
  BY DevAssumption DEF TypeOK, Gate
<1>2. /\ s.state \in {IDLE, DONE} /\ n.state = BUSY /\ n.committed = 0
      /\ n.epoch = s.epoch /\ OnlyAt(d) /\ UNCHANGED present
  BY <1>1, SubmitStep
<1>3. PICK r \in RecordType : n.log = Append(s.log, r) /\ r.job = job /\ r.kind = Request
  BY <1>1, SubmitStep
<1>4. /\ StatusOf(s) \in {"idle", "done"} /\ StatusOf(n) = "working"
      /\ (n.committed = 1) = FALSE
  BY <1>2, StatusCases
<1>5. EntryOf(r) = <<"request", job>>
  BY <1>3 DEF EntryOf
<1>6. TrailOf(n) = Append(TrailOf(s), <<"request", job>>)
  BY <1>1, <1>3, <1>5, TrailGrows
<1>7. n \in EndpointType
  <2>1. TypeOK'
    BY <1>1, SubmitType
  <2>2. QED BY <2>1, <1>1 DEF TypeOK
<1>8. Len(n.log) # 0 /\ n.log[Len(n.log)] = r
  <2>1. s.log \in Seq(RecordType)
    BY <1>1, LogFacts
  <2> HIDE DEF s, n
  <2>2. QED BY <2>1, <1>3, AppendFacts
<1>9. TrailOf(n)[Len(TrailOf(n))][2] = job /\ TrailOf(n) # <<>>
  BY <1>3, <1>7, <1>8, LastEntry
<1>10. job \in [JobField -> Reg]
  BY <1>1, LogFacts DEF Job, JobField, Field
<1>11. SeenAt(d) /\ aliveMap' = aliveMap /\ trailMap'[d] = TrailOf(n)
  BY <1>2, SeenWhereItHappens DEF aliveMap, trailMap
<1> HIDE DEF s, n, job
<1>12. /\ d \in aliveMap /\ statusMap[d] \in {"idle", "done"}
       /\ trailMap'[d] # <<>> /\ trailMap'[d][Len(trailMap'[d])][2] = job
       /\ trailMap' = [trailMap EXCEPT ![d] = Append(trailMap[d], <<"request", job>>)]
       /\ statusMap' = [statusMap EXCEPT ![d] = "working"]
       /\ effectMap' = [effectMap EXCEPT ![d] = FALSE]
       /\ aliveMap' = aliveMap
  BY <1>4, <1>6, <1>9, <1>11, MappedAt DEF SeenAt, s, n, aliveMap
<1>13. eraMap' = eraMap
  BY <1>2, StaysWhereItHappens DEF s, n
<1>14. QED BY <1>10, <1>12, <1>13 DEF Contract!Begin, Contract!Rest, Contract!Asked,
             aliveMap, statusMap, effectMap, trailMap, eraMap

LEMMA LandIsStore ==
  ASSUME TypeOK, EndpointInv, NEW d \in Enforced, d \in present, LinkEnd(d)
  PROVE  Contract!StoreOutput(d)
<1> DEFINE s == ep[d]
           n == ep'[d]
<1>1. d \in Dev
  BY DevAssumption
<1>2. /\ s.state = BUSY /\ n.state = BUSY /\ s.committed = 0 /\ n.committed = 1
      /\ n.epoch = s.epoch /\ n.log = s.log /\ OnlyAt(d) /\ UNCHANGED present
  BY <1>1, LinkStep
<1>3. /\ StatusOf(s) = "working" /\ StatusOf(n) = "working"
      /\ (n.committed = 1) = TRUE /\ ~(s.committed = 1)
  BY <1>2, StatusCases
<1>4. SeenAt(d) /\ aliveMap' = aliveMap
  BY <1>2, SeenWhereItHappens DEF aliveMap
<1> HIDE DEF s, n
<1>5. /\ d \in aliveMap /\ statusMap[d] = "working" /\ ~effectMap[d]
      /\ effectMap' = [effectMap EXCEPT ![d] = TRUE]
      /\ aliveMap' = aliveMap
  BY <1>3, <1>4, MappedAt DEF SeenAt, s, n, aliveMap
<1>6. statusMap' = statusMap /\ trailMap' = trailMap /\ eraMap' = eraMap
  BY <1>2, <1>3, StaysWhereItHappens DEF s, n
<1>7. QED BY <1>5, <1>6 DEF Contract!StoreOutput, Contract!Running, aliveMap, statusMap,
                            effectMap, trailMap, eraMap

LEMMA FinishIsCertify ==
  ASSUME TypeOK, EndpointInv, NEW d \in Enforced, d \in present, RecordEnd(d)
  PROVE  Contract!Certify(d)
<1> DEFINE s == ep[d]
           n == ep'[d]
           job == Job(s)
<1>1. d \in Dev /\ s \in EndpointType /\ DeviceInv(d, s) /\ Gate(d)
  BY DevAssumption DEF TypeOK, EndpointInv, Gate
<1>2. /\ s.state = BUSY /\ n.state = DONE /\ s.committed = 1 /\ n.committed = 1
      /\ n.epoch = s.epoch /\ OnlyAt(d) /\ UNCHANGED present
  BY <1>1, FinishStep
<1>3. PICK r \in RecordType :
        n.log = Append(s.log, r) /\ r.job = job /\ r.kind = Completion
  BY <1>1, FinishStep
<1>4. StatusOf(s) = "working" /\ StatusOf(n) = "done"
  BY <1>2, StatusCases
<1>5. EntryOf(r) = <<"completion", job>>
  BY <1>3 DEF EntryOf, Completion, Request
<1>6. TrailOf(n) = Append(TrailOf(s), <<"completion", job>>)
  BY <1>1, <1>3, <1>5, TrailGrows
<1>7. TrailOf(s)[Len(TrailOf(s))][2] = job
  <2>1. Len(s.log) # 0 /\ s.log[Len(s.log)].job = job
    BY <1>1, <1>2, OpenRequest DEF DeviceInv, TrailOK
  <2>2. QED BY <2>1, <1>1, LastEntry
<1>8. SeenAt(d) /\ aliveMap' = aliveMap
  BY <1>2, SeenWhereItHappens DEF aliveMap
<1> HIDE DEF s, n, job
<1>9. /\ d \in aliveMap /\ statusMap[d] = "working" /\ effectMap[d]
      /\ trailMap[d][Len(trailMap[d])][2] = job
      /\ trailMap' = [trailMap EXCEPT ![d] = Append(trailMap[d], <<"completion", job>>)]
      /\ statusMap' = [statusMap EXCEPT ![d] = "done"]
      /\ aliveMap' = aliveMap
  BY <1>2, <1>4, <1>6, <1>7, <1>8, MappedAt DEF SeenAt, s, n, aliveMap
<1>10. effectMap' = effectMap /\ eraMap' = eraMap
  BY <1>2, StaysWhereItHappens DEF s, n
<1>11. QED BY <1>9, <1>10 DEF Contract!Certify, Contract!Running, Contract!Asked,
             aliveMap, statusMap, effectMap, trailMap, eraMap

LEMMA FaultIsLose ==
  ASSUME TypeOK, EndpointInv, NEW d \in Enforced, d \in present, RecordFault(d)
  PROVE  Contract!Lose(d)
<1> DEFINE s == ep[d]
           n == ep'[d]
<1>1. d \in Dev
  BY DevAssumption
<1>2. /\ s.state = BUSY /\ n.state = POSTFAIL /\ s.committed = 1 /\ n.committed = 1
      /\ n.epoch = s.epoch /\ n.log = s.log /\ OnlyAt(d) /\ UNCHANGED present
  BY <1>1, FaultStep
<1>3. StatusOf(s) = "working" /\ StatusOf(n) = "lost"
  BY <1>2, StatusCases
<1>4. SeenAt(d) /\ aliveMap' = aliveMap
  BY <1>2, SeenWhereItHappens DEF aliveMap
<1> HIDE DEF s, n
<1>5. /\ d \in aliveMap /\ statusMap[d] = "working" /\ effectMap[d]
      /\ statusMap' = [statusMap EXCEPT ![d] = "lost"]
      /\ aliveMap' = aliveMap
  BY <1>2, <1>3, <1>4, MappedAt DEF SeenAt, s, n, aliveMap
<1>6. effectMap' = effectMap /\ trailMap' = trailMap /\ eraMap' = eraMap
  BY <1>2, StaysWhereItHappens DEF s, n
<1>7. QED BY <1>5, <1>6 DEF Contract!Lose, Contract!Running, aliveMap, statusMap,
                            effectMap, trailMap, eraMap

LEMMA PlugIsReplug ==
  ASSUME TypeOK, NEW d \in Enforced, Realize(d) \/ Unplug(d)
  PROVE  Contract!Replug(d)
<1> DEFINE n == ep'[d]
<1>1. d \in Dev
  BY DevAssumption
<1>2. n = NewEndpoint /\ OnlyAt(d)
  BY <1>1, PlugStep
<1>3. n.state = IDLE /\ n.committed = 0 /\ n.epoch = 1 /\ n.log = <<>>
  BY <1>2 DEF NewEndpoint
<1>4. /\ StatusOf(n) = "idle" /\ (n.committed = 1) = FALSE /\ TrailOf(n) = <<>>
  BY <1>3, StatusCases DEF TrailOf
<1>5. aliveMap' \in {aliveMap \cup {d}, aliveMap \ {d}} \ {aliveMap}
  <2>1. CASE Realize(d)
    <3>1. present' = present \cup {d} /\ d \notin present
      BY <2>1 DEF Realize
    <3>2. aliveMap' = aliveMap \cup {d} /\ d \notin aliveMap
      BY <3>1 DEF aliveMap
    <3>3. QED BY <3>2
  <2>2. CASE Unplug(d)
    <3>1. present' = present \ {d} /\ d \in present
      BY <2>2 DEF Unplug
    <3>2. aliveMap' = aliveMap \ {d} /\ d \in aliveMap
      BY <3>1 DEF aliveMap
    <3>3. QED BY <3>2
  <2>3. QED BY <2>1, <2>2
<1>6. SeenAt(d)
  BY <1>2, SeenWhereItHappens
<1> HIDE DEF n
<1>7. /\ statusMap' = [statusMap EXCEPT ![d] = "idle"]
      /\ effectMap' = [effectMap EXCEPT ![d] = FALSE]
      /\ trailMap' = [trailMap EXCEPT ![d] = <<>>]
      /\ eraMap' = [eraMap EXCEPT ![d] = 1]
  BY <1>3, <1>4, <1>6 DEF SeenAt, n
<1>8. QED BY <1>5, <1>7 DEF Contract!Replug, aliveMap, statusMap, effectMap, trailMap, eraMap

(***************************************************************************)
(* Theorem                                                                 *)
(***************************************************************************)
LEMMA UnseenStutters ==
  ASSUME Unseen
  PROVE  UNCHANGED Contract!abstractVars
BY DEF Unseen, Contract!abstractVars, aliveMap, statusMap, effectMap, trailMap, eraMap

\* A step of a device without the gate is not seen.
LEMMA BareNotSeen ==
  ASSUME NEW d \in Dev \ Enforced, OnlyAt(d), present' \ {d} = present \ {d}
  PROVE  Unseen
<1>1. \A e \in Enforced : ep'[e] = ep[e]
  BY DevAssumption DEF OnlyAt
<1>2. present' \cap Enforced = present \cap Enforced
  OBVIOUS
<1>3. QED BY <1>1, <1>2, NotSeen

LEMMA StepRefines ==
  ASSUME TypeOK, EndpointInv, Next
  PROVE  Contract!ContractNext \/ Unseen
<1>1. CASE UNCHANGED <<present, ep>>
  BY <1>1, NotSeen
<1>2. CASE Tick
  BY <1>1, <1>2 DEF Tick
<1>3. ASSUME NEW d \in Dev, NEW w \in Word, NEW v, HostStore(d, w, v)
      PROVE  Contract!ContractNext \/ Unseen
  BY <1>1, <1>3 DEF HostStore
<1>4. ASSUME NEW d \in Dev, NEW v,
             \/ \E f \in Field : WriteField(d, f, v)
             \/ WriteCapacity(d, v) \/ RejectWrite(d) \/ ComputeEnd(d)
      PROVE  Contract!ContractNext \/ Unseen
  <2>1. /\ ep'[d].state = ep[d].state /\ ep'[d].committed = ep[d].committed
        /\ ep'[d].log = ep[d].log /\ ep'[d].epoch = ep[d].epoch
        /\ OnlyAt(d) /\ UNCHANGED present
    BY <1>4, RegisterStep, ComputeStep DEF Quiet
  <2>2. \A e \in Enforced : e = d \/ ep'[e] = ep[e]
    BY <2>1, DevAssumption DEF OnlyAt
  <2>3. QED BY <2>1, <2>2, NotSeen
<1>5. ASSUME NEW d \in Dev, d \notin Enforced, NEW v,
             \/ WriteEpoch(d, v) \/ Refuse(d) \/ Submit(d)
             \/ LinkEnd(d) \/ RecordEnd(d) \/ RecordFault(d) \/ Realize(d) \/ Unplug(d)
      PROVE  Contract!ContractNext \/ Unseen
  <2>1. OnlyAt(d) /\ present' \ {d} = present \ {d}
    BY <1>5, EpochStep, RefuseStep, SubmitStep, LinkStep, FinishStep, FaultStep, PlugStep
  <2>2. QED BY <2>1, <1>5, BareNotSeen
<1>6. ASSUME NEW d \in Enforced, NEW v,
             \/ WriteEpoch(d, v) \/ Refuse(d) \/ Submit(d)
             \/ LinkEnd(d) \/ RecordEnd(d) \/ RecordFault(d) \/ Realize(d) \/ Unplug(d)
      PROVE  Contract!ContractNext \/ Unseen
  <2>1. \/ Contract!Begin(d) \/ Contract!Deny(d) \/ Contract!StoreOutput(d)
        \/ Contract!Certify(d) \/ Contract!Lose(d) \/ Contract!NewEra(d)
        \/ Contract!Replug(d)
    <3>1. Realize(d) \/ Unplug(d) \/ d \in present
      BY <1>6 DEF WriteEpoch, Refuse, Submit, Doorbell, LinkEnd, RecordEnd, RecordFault,
                  Fires, Armed
    <3>2. QED BY <3>1, <1>6, EpochIsNewEra, RefuseIsDeny, SubmitIsBegin, LandIsStore,
                 FinishIsCertify, FaultIsLose, PlugIsReplug
  <2>2. QED BY <2>1 DEF Contract!ContractNext
<1>7. QED BY <1>2, <1>3, <1>4, <1>5, <1>6 DEF Next

\* Every behaviour of the endpoints is one the contract allows.
THEOREM GateImplementsContract == Spec => ImplementsContract
<1>1. Init => Contract!ContractInit
  <2> SUFFICES ASSUME Init PROVE Contract!ContractInit
    OBVIOUS
  <2>1. \A d \in Enforced : ep[d] = NewEndpoint
    BY DevAssumption DEF Init
  <2>2. /\ NewEndpoint.state = IDLE /\ NewEndpoint.committed = 0
        /\ NewEndpoint.epoch = 1 /\ NewEndpoint.log = <<>>
    BY DEF NewEndpoint
  <2>3. /\ StatusOf(NewEndpoint) = "idle" /\ TrailOf(NewEndpoint) = <<>>
        /\ (NewEndpoint.committed = 1) = FALSE
    BY <2>2, StatusCases DEF TrailOf
  <2>4. /\ aliveMap \subseteq Enforced
        /\ statusMap = [d \in Enforced |-> "idle"]
        /\ trailMap = [d \in Enforced |-> <<>>]
        /\ eraMap = [d \in Enforced |-> 1]
    BY <2>1, <2>2, <2>3 DEF aliveMap, statusMap, trailMap, eraMap
  <2>5. effectMap = [d \in Enforced |-> FALSE]
    BY <2>1, <2>3, Zenon DEF effectMap
  <2>6. QED BY <2>4, <2>5 DEF Contract!ContractInit, aliveMap, statusMap, effectMap,
                              trailMap, eraMap
<1>2. TypeOK /\ EndpointInv /\ [Next]_vars
        => [Contract!ContractNext]_(Contract!abstractVars)
  <2> SUFFICES ASSUME TypeOK, EndpointInv, [Next]_vars
               PROVE  [Contract!ContractNext]_(Contract!abstractVars)
    OBVIOUS
  <2>1. CASE UNCHANGED vars
    BY <2>1, NotSeen, UnseenStutters DEF vars
  <2>2. CASE Next
    BY <2>2, StepRefines, UnseenStutters
  <2>3. QED BY <2>1, <2>2
<1>3. QED BY <1>1, <1>2, TypeCorrect, EndpointSafe, PTL
         DEF Spec, ImplementsContract, Contract!ContractSpec
===========================================================================
