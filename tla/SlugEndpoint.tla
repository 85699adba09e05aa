--------------------------- MODULE SlugEndpoint ---------------------------
(***************************************************************************)
(* The native endpoint gate and virtual-time vector engine,                *)
(* targets/splash-endpoint/qemu/cxl_slugarch.c: a set of devices, each     *)
(* with its register file, evidence log, timer and device memory, sharing  *)
(* one output link and one virtual clock.  MMIO handlers and timer         *)
(* callbacks run under QEMU's big lock, so each is one atomic action.      *)
(*                                                                         *)
(* Abstractions.  A SHA-256 digest is the vector it digests (collision     *)
(* free).  The log is the sequence of the readable records, so the C field *)
(* count is Len(log); bytes past count cannot be read.  A record's serial  *)
(* and policy words are constants of the device and are left out.          *)
(***************************************************************************)
EXTENDS Integers, Sequences

CONSTANTS
  Dev,          \* devices created with slugarch=on
  Boot,         \* those on the command line, present from the start
  HotPlug,      \* those that may be plugged and unplugged at run time
  Enforced,     \* those with slugarch-enforce=on (the gate); the rest run bare
  MaxReg,       \* largest register value (2^64-1); data is modulo MaxReg+1
  MaxWords,     \* MAX_WORDS
  MaxRecords,   \* MAX_RECORDS
  MemWords,     \* device_mem_size in 8-byte words
  Horizon,      \* NANOSECONDS_PER_SECOND: how far ahead a release may lie
  RecordNs, ComputeNs, Bandwidth, LinkNs,   \* the device's cost properties
  Late,         \* may a timer run after its deadline (free-running guest)?
  FieldValues,  \* what the host writes to each descriptor register
  EpochValues, CapacityValues,              \* ... to epoch and capacity
  StoreValues,  \* what the host stores into device memory
  MaxTime,      \* bound on the clock while no timer is pending
  MaxRejected   \* bound on the rejected-write counter

Reg == 0..MaxReg
Bit == 0..1
Field == {"job_epoch", "job", "src", "dst", "words", "scalar", "release", "fault"}
JobField == {"job", "src", "dst", "words", "scalar"}
Word == 0..(MemWords - 1)

ASSUME DevAssumption ==
  Enforced \subseteq Dev /\ Boot \subseteq Dev /\ HotPlug \subseteq Dev
ASSUME SizeAssumption ==
  /\ MaxReg \in Nat \ {0} /\ MaxWords \in Nat /\ MaxRecords \in Reg
  /\ MemWords \in Nat \ {0} /\ Horizon \in Nat
ASSUME CostAssumption ==
  /\ RecordNs \in Nat /\ ComputeNs \in Nat \ {0}
  /\ Bandwidth \in Nat \ {0} /\ LinkNs \in Nat
ASSUME InputAssumption ==
  /\ Late \in BOOLEAN
  /\ FieldValues \in [Field -> SUBSET Reg]
  /\ EpochValues \subseteq Reg /\ CapacityValues \subseteq Reg
  /\ StoreValues \subseteq Reg
  /\ MaxTime \in Nat /\ MaxRejected \in Nat

VARIABLES
  present,      \* devices whose slugarch state exists
  ep,           \* struct CXLSlugArchState of each device
  ram,          \* device memory, by word
  link_free_ns, \* when the shared link has sent everything queued on it
  now,          \* QEMU_CLOCK_VIRTUAL
  ahead,        \* <<e, d>>: equal deadlines, e was armed before d
  base,         \* history: memory as the host alone left it since the last
                \*   doorbell or epoch write
  touched       \* history: words the host stored since the last device store

vars == <<present, ep, ram, link_free_ns, now, ahead, base, touched>>

IDLE == "IDLE"
BUSY == "BUSY"
DONE == "DONE"
PREFAIL == "PREFAIL"
POSTFAIL == "POSTFAIL"
State == {IDLE, BUSY, DONE, PREFAIL, POSTFAIL}
Error == {"E_NONE", "E_EPOCH", "E_RANGE", "E_CAPACITY", "E_REQUEST",
          "E_COMPLETION", "E_DESCRIPTOR"}
Phase == {"COMPUTE_END", "LINK_END", "RECORD_END"}
Disarmed == -1

(***************************************************************************)
(* Records                                                                 *)
(***************************************************************************)
Request == 1
Completion == 2
PreFailure == 3
PostFailure == 4

Vector == UNION {[1..n -> Reg] : n \in 0..MaxWords}
NoVector == <<>>
ZeroRecord == [kind |-> 0, epoch |-> 0, sequence |-> 0,
               job |-> [f \in JobField |-> 0],
               time |-> 0, committed |-> 0, digest |-> NoVector]
RecordType == [kind : 0..4, epoch : Reg, sequence : Nat,
               job : [JobField -> Reg],
               time : Nat, committed : Bit, digest : Vector]

Job(s) == [f \in JobField |-> s.desc[f]]

\* What record() writes from the registers; data is NoVector for a NULL pointer.
Record(s, kind, data, t) ==
  [kind |-> kind, epoch |-> s.epoch, sequence |-> Len(s.log) + 1,
   job |-> Job(s), time |-> t, committed |-> s.committed, digest |-> data]

(***************************************************************************)
(* The device structure                                                    *)
(***************************************************************************)
EndpointType ==
  [state : State, error : Error, epoch : Reg, desc : [Field -> Reg],
   capacity : Reg, log : Seq(RecordType), committed : Bit, finished : Nat,
   compute_start : Nat, compute_end : Nat, link_start : Nat, link_end : Nat,
   queue_wait : Nat, rejected : Nat, requests : Nat, completions : Nat,
   failures : Nat, phase : Phase, input : Vector, output : Vector,
   failure : RecordType, timer : Nat \cup {Disarmed}]

\* A zeroed structure with epoch 1 and the full log as capacity.
NewEndpoint ==
  [state |-> IDLE, error |-> "E_NONE", epoch |-> 1,
   desc |-> [f \in Field |-> 0], capacity |-> MaxRecords, log |-> <<>>,
   committed |-> 0, finished |-> 0, compute_start |-> 0, compute_end |-> 0,
   link_start |-> 0, link_end |-> 0, queue_wait |-> 0, rejected |-> 0,
   requests |-> 0, completions |-> 0, failures |-> 0,
   phase |-> "COMPUTE_END", input |-> NoVector, output |-> NoVector,
   failure |-> ZeroRecord, timer |-> Disarmed]

Gate(d) == d \in Enforced
FreeRecord(d) == 0                  \* mutant: records cost no time
RecordCost(d) == IF Gate(d) THEN RecordNs ELSE 0
Serialization(words) == (8 * words + Bandwidth - 1) \div Bandwidth
MaxOf(a, b) == IF a < b THEN b ELSE a

\* Mutant: registers change under a running job.
AlwaysWritable(s) == TRUE

\* Registers accept a write only outside BUSY.
Writable(s) == s.state # BUSY

\* Mutant: every failure claims that nothing was stored.
FailForgetsCommit(s, error, t) ==
  [s EXCEPT !.error = error, !.state = PREFAIL, !.finished = t,
            !.failures = @ + 1, !.failure = Record(s, PreFailure, NoVector, t)]

Fail(s, error, t) ==
  [s EXCEPT !.error = error,
            !.state = IF s.committed = 1 THEN POSTFAIL ELSE PREFAIL,
            !.finished = t,
            !.failures = @ + 1,
            !.failure = IF s.committed = 1
                        THEN Record(s, PostFailure, s.output, t)
                        ELSE Record(s, PreFailure, NoVector, t)]

RangeValid(addr, bytes) ==
  /\ addr % 8 = 0
  /\ addr <= 8 * MemWords
  /\ bytes <= 8 * MemWords - addr

DescriptorValid(desc, t) ==
  /\ desc["words"] # 0
  /\ desc["words"] <= MaxWords
  /\ desc["fault"] <= 3
  /\ desc["release"] >= t
  /\ desc["release"] - t <= Horizon

RoomForOne(s) == Len(s.log) + 1 <= s.capacity   \* mutant: forgets the completion
RoomForPair(s) == Len(s.log) + 2 <= s.capacity

\* The first check of submit() that refuses the descriptor, in its order.
SubmitError(s, d, t) ==
  LET bytes == 8 * s.desc["words"]
  IN  IF s.desc["job_epoch"] # s.epoch THEN "E_EPOCH"
      ELSE IF ~DescriptorValid(s.desc, t) THEN "E_DESCRIPTOR"
      ELSE IF ~RangeValid(s.desc["src"], bytes) THEN "E_RANGE"
      ELSE IF ~RangeValid(s.desc["dst"], bytes) THEN "E_RANGE"
      ELSE IF Gate(d) /\ ~RoomForPair(s) THEN "E_CAPACITY"
      ELSE IF Gate(d) /\ s.desc["fault"] \in {1, 3} THEN "E_REQUEST"
      ELSE "E_NONE"

\* Mutant: the committed flag of the job before survives the doorbell.
ClearedButCommit(s) ==
  [s EXCEPT !.error = "E_NONE", !.finished = 0, !.compute_start = 0,
            !.compute_end = 0, !.link_start = 0, !.link_end = 0,
            !.queue_wait = 0, !.failure = ZeroRecord]

\* What submit() clears before it looks at the descriptor.
Cleared(s) ==
  [s EXCEPT !.committed = 0, !.error = "E_NONE", !.finished = 0,
            !.compute_start = 0, !.compute_end = 0,
            !.link_start = 0, !.link_end = 0, !.queue_wait = 0,
            !.failure = ZeroRecord]

Snapshot(mem, src, words) ==
  [i \in 1..words |-> mem[(src \div 8) + i - 1]]

VectorJob(input, scalar) ==
  [i \in DOMAIN input |-> (3 * input[i] + scalar + i - 1) % (MaxReg + 1)]

\* Memory after memcpy(ram + dst, output).
Stored(mem, dst, output) ==
  [w \in Word |-> IF w - (dst \div 8) + 1 \in DOMAIN output
                  THEN output[w - (dst \div 8) + 1] ELSE mem[w]]

\* The accepted submission: input frozen, request recorded, compute scheduled.
Accept(s, d, mem, t) ==
  LET input == Snapshot(mem, s.desc["src"], s.desc["words"])
      start == s.desc["release"] + RecordCost(d)
      finish == start + s.desc["words"] * ComputeNs
  IN  [s EXCEPT !.input = input, !.output = NoVector,
                !.log = IF Gate(d) THEN Append(@, Record(s, Request, input, t))
                        ELSE @,
                !.requests = IF Gate(d) THEN @ + 1 ELSE @,
                !.compute_start = start, !.compute_end = finish,
                !.phase = "COMPUTE_END", !.state = BUSY, !.timer = finish]

(***************************************************************************)
(* Timers: QEMU's list is sorted by deadline, first armed first on a tie.  *)
(***************************************************************************)
Armed(d) == d \in present /\ ep[d].timer # Disarmed

Fires(d) ==
  /\ Armed(d)
  /\ ep[d].timer <= now
  /\ \A e \in Dev \ {d} :
        Armed(e) => \/ ep[d].timer < ep[e].timer
                    \/ ep[d].timer = ep[e].timer /\ <<e, d>> \notin ahead

Forget(d) == {p \in ahead : p[1] # d /\ p[2] # d}

Arm(d, at) ==
  ahead' = Forget(d) \cup
           {p \in Dev \X {d} : p[1] # d /\ Armed(p[1]) /\ ep[p[1]].timer = at}

Update(d, s) == ep' = [ep EXCEPT ![d] = s]

(***************************************************************************)
(* MMIO writes                                                             *)
(***************************************************************************)
WriteField(d, f, v) ==
  /\ d \in present /\ Writable(ep[d])
  /\ Update(d, [ep[d] EXCEPT !.desc = [@ EXCEPT ![f] = v]])
  /\ UNCHANGED <<present, ram, link_free_ns, now, ahead, base, touched>>

\* Mutant: the log survives the epoch.
EpochKeepsLog(s, v) ==
  [s EXCEPT !.epoch = v, !.state = IDLE, !.error = "E_NONE",
            !.committed = 0, !.failure = ZeroRecord]

\* A higher epoch acknowledges a terminal state and drains the log.
NewEpoch(s, v) ==
  [s EXCEPT !.epoch = v, !.log = <<>>, !.state = IDLE, !.error = "E_NONE",
            !.committed = 0, !.failure = ZeroRecord]

WriteEpoch(d, v) ==
  /\ d \in present /\ Writable(ep[d])
  /\ v > ep[d].epoch
  /\ Update(d, NewEpoch(ep[d], v))
  /\ base' = [base EXCEPT ![d] = ram[d]]
  /\ touched' = [touched EXCEPT ![d] = {}]
  /\ UNCHANGED <<present, ram, link_free_ns, now, ahead>>

WriteCapacity(d, v) ==
  /\ d \in present /\ Writable(ep[d])
  /\ v >= Len(ep[d].log) /\ v <= MaxRecords
  /\ Update(d, [ep[d] EXCEPT !.capacity = v])
  /\ UNCHANGED <<present, ram, link_free_ns, now, ahead, base, touched>>

\* Mutant: a doorbell clears a failure nobody acknowledged.
DoorbellAnyState(d) ==
  /\ d \in present /\ Writable(ep[d])
  /\ base' = [base EXCEPT ![d] = ram[d]]
  /\ touched' = [touched EXCEPT ![d] = {}]
  /\ UNCHANGED <<present, ram, link_free_ns, now>>

\* A doorbell is taken only outside the two sticky failure states.
Doorbell(d) ==
  /\ d \in present /\ Writable(ep[d])
  /\ ep[d].state \notin {PREFAIL, POSTFAIL}
  /\ base' = [base EXCEPT ![d] = ram[d]]
  /\ touched' = [touched EXCEPT ![d] = {}]
  /\ UNCHANGED <<present, ram, link_free_ns, now>>

Refuse(d) ==
  LET s == Cleared(ep[d])
      error == SubmitError(s, d, now)
  IN  /\ Doorbell(d)
      /\ error # "E_NONE"
      /\ Update(d, Fail(s, error, now))
      /\ UNCHANGED ahead

Submit(d) ==
  LET s == Cleared(ep[d])
      accepted == Accept(s, d, ram[d], now)
  IN  /\ Doorbell(d)
      /\ SubmitError(s, d, now) = "E_NONE"
      /\ Update(d, accepted)
      /\ Arm(d, accepted.timer)

\* Every write the handler turns down: a bad size, alignment or address, any
\* write while BUSY, an epoch that is not higher, a capacity out of bounds, a
\* doorbell in a failure state.
RejectWrite(d) ==
  /\ d \in present
  /\ ep[d].rejected < MaxRejected
  /\ Update(d, [ep[d] EXCEPT !.rejected = @ + 1])
  /\ UNCHANGED <<present, ram, link_free_ns, now, ahead, base, touched>>

(***************************************************************************)
(* The timer callback complete(), by phase                                 *)
(***************************************************************************)
ComputeEnd(d) ==
  LET s == ep[d]
      start == MaxOf(now, link_free_ns)
      sent == start + Serialization(s.desc["words"])
  IN  /\ Fires(d) /\ s.phase = "COMPUTE_END"
      /\ link_free_ns' = sent
      /\ Update(d, [s EXCEPT !.output = VectorJob(s.input, s.desc["scalar"]),
                             !.link_start = start, !.queue_wait = start - now,
                             !.link_end = sent + LinkNs,
                             !.phase = "LINK_END", !.timer = sent + LinkNs])
      /\ Arm(d, sent + LinkNs)
      /\ UNCHANGED <<present, ram, now, base, touched>>

\* Mutant: the timer is not armed again for the record phase.
LandedUnarmed(s, d, t) ==
  [s EXCEPT !.committed = 1, !.phase = "RECORD_END", !.timer = Disarmed]

\* The output is in memory; its completion record is due.
Landed(s, d, t) ==
  [s EXCEPT !.committed = 1, !.phase = "RECORD_END", !.timer = t + RecordCost(d)]

LinkEnd(d) ==
  LET s == ep[d]
  IN  /\ Fires(d) /\ s.phase = "LINK_END"
      /\ ram' = [ram EXCEPT ![d] = Stored(@, s.desc["dst"], s.output)]
      /\ touched' = [touched EXCEPT ![d] = {}]
      /\ Update(d, Landed(s, d, now))
      /\ Arm(d, now + RecordCost(d))
      /\ UNCHANGED <<present, link_free_ns, now, base>>

\* Mutant: success without its record.
FinishedUnrecorded(s, d, t) ==
  [s EXCEPT !.finished = t, !.state = DONE, !.timer = Disarmed]

\* Mutant: the completion overwrites the request it answers.
FinishedInPlace(s, d, t) ==
  [s EXCEPT !.log = IF Gate(d) THEN [@ EXCEPT ![Len(@)] =
                                       Record(s, Completion, s.output, t)]
                    ELSE @,
            !.completions = IF Gate(d) THEN @ + 1 ELSE @,
            !.finished = t, !.state = DONE, !.timer = Disarmed]

\* The completion record, then success.
Finished(s, d, t) ==
  [s EXCEPT !.log = IF Gate(d) THEN Append(@, Record(s, Completion, s.output, t))
                    ELSE @,
            !.completions = IF Gate(d) THEN @ + 1 ELSE @,
            !.finished = t, !.state = DONE, !.timer = Disarmed]

CompletionFault(s, d) == Gate(d) /\ s.desc["fault"] \in {2, 3}

RecordEnd(d) ==
  /\ Fires(d) /\ ep[d].phase = "RECORD_END"
  /\ ~CompletionFault(ep[d], d)
  /\ Update(d, Finished(ep[d], d, now))
  /\ ahead' = Forget(d)
  /\ UNCHANGED <<present, ram, link_free_ns, now, base, touched>>

RecordFault(d) ==
  /\ Fires(d) /\ ep[d].phase = "RECORD_END"
  /\ CompletionFault(ep[d], d)
  /\ Update(d, [Fail(ep[d], "E_COMPLETION", now) EXCEPT !.timer = Disarmed])
  /\ ahead' = Forget(d)
  /\ UNCHANGED <<present, ram, link_free_ns, now, base, touched>>

(***************************************************************************)
(* Environment: the clock, host stores into device memory, hot-plug        *)
(***************************************************************************)
Tick ==
  /\ now < MaxTime \/ \E d \in Dev : Armed(d) /\ now < ep[d].timer
  /\ Late \/ \A d \in Dev : Armed(d) => now < ep[d].timer
  /\ now' = now + 1
  /\ UNCHANGED <<present, ep, ram, link_free_ns, ahead, base, touched>>

HostStore(d, w, v) ==
  /\ d \in present
  /\ ram' = [ram EXCEPT ![d] = [@ EXCEPT ![w] = v]]
  /\ base' = [base EXCEPT ![d] = [@ EXCEPT ![w] = v]]
  /\ touched' = [touched EXCEPT ![d] = @ \cup {w}]
  /\ UNCHANGED <<present, ep, link_free_ns, now, ahead>>

ZeroMemory == [w \in Word |-> 0]

LinkAlwaysReset(users) == 0         \* mutant: any user resets the link

\* The link's schedule while it has users; without any it starts afresh.
LinkAfter(users) == IF users = {} THEN 0 ELSE link_free_ns

\* cxl_type2_realize ends with cxl_slugarch_init: the first user resets the link.
Realize(d) ==
  /\ d \in HotPlug \ present
  /\ present' = present \cup {d}
  /\ link_free_ns' = LinkAfter(present)
  /\ ep' = [ep EXCEPT ![d] = NewEndpoint]
  /\ ram' = [ram EXCEPT ![d] = ZeroMemory]
  /\ base' = [base EXCEPT ![d] = ZeroMemory]
  /\ touched' = [touched EXCEPT ![d] = {}]
  /\ UNCHANGED <<now, ahead>>

\* cxl_type2_exit: the timer is freed, the last user resets the link.
Unplug(d) ==
  /\ d \in HotPlug \cap present
  /\ present' = present \ {d}
  /\ link_free_ns' = LinkAfter(present')
  /\ ep' = [ep EXCEPT ![d] = NewEndpoint]
  /\ ram' = [ram EXCEPT ![d] = ZeroMemory]
  /\ base' = [base EXCEPT ![d] = ZeroMemory]
  /\ touched' = [touched EXCEPT ![d] = {}]
  /\ ahead' = Forget(d)
  /\ UNCHANGED now

Init ==
  /\ present = Boot
  /\ ep = [d \in Dev |-> NewEndpoint]
  /\ ram = [d \in Dev |-> ZeroMemory]
  /\ link_free_ns = 0
  /\ now = 0
  /\ ahead = {}
  /\ base = [d \in Dev |-> ZeroMemory]
  /\ touched = [d \in Dev |-> {}]

TimerStep(d) == ComputeEnd(d) \/ LinkEnd(d) \/ RecordEnd(d) \/ RecordFault(d)

Next ==
  \/ \E d \in Dev :
       \/ \E f \in Field : \E v \in FieldValues[f] : WriteField(d, f, v)
       \/ \E v \in EpochValues : WriteEpoch(d, v)
       \/ \E v \in CapacityValues : WriteCapacity(d, v)
       \/ Refuse(d)
       \/ Submit(d)
       \/ RejectWrite(d)
       \/ ComputeEnd(d)
       \/ LinkEnd(d)
       \/ RecordEnd(d)
       \/ RecordFault(d)
       \/ \E w \in Word : \E v \in StoreValues : HostStore(d, w, v)
       \/ Realize(d)
       \/ Unplug(d)
  \/ Tick

Spec == Init /\ [][Next]_vars

\* Under fairness the clock advances and due timers run: the main loop never
\* stops polling its timer list while QEMU lives.
Fairness == WF_vars(Tick) /\ \A d \in Dev : WF_vars(TimerStep(d))
FairSpec == Spec /\ Fairness

(***************************************************************************)
(* Properties                                                              *)
(***************************************************************************)
\* The fields of CXLSlugArchState, device memory and the timers keep their types.
TypeOK ==
  /\ present \subseteq Dev
  /\ ep \in [Dev -> EndpointType]
  /\ ram \in [Dev -> [Word -> Reg]]
  /\ link_free_ns \in Nat
  /\ now \in Nat
  /\ ahead \subseteq Dev \X Dev
  /\ base \in [Dev -> [Word -> Reg]]
  /\ touched \in [Dev -> SUBSET Word]

Even(i) == i % 2 = 0

\* The record at position i of a log is the one the protocol puts there: in
\* the current epoch, numbered in order, requests and completions in turn.
InPlace(s, i) ==
  LET r == s.log[i]
  IN  /\ r.sequence = i
      /\ r.epoch = s.epoch
      /\ r.kind = IF Even(i) THEN Completion ELSE Request
      /\ r.committed = IF Even(i) THEN 1 ELSE 0

\* A completion answers the request before it: same job, and its output digest
\* is the vector function of the input digest the request froze.
Answers(c, r) ==
  /\ c.job = r.job
  /\ c.digest = VectorJob(r.digest, r.job["scalar"])

TrailOK(s) ==
  LET n == Len(s.log)
  IN  /\ \A i \in 1..n : InPlace(s, i)
      /\ \A i \in 2..n : Even(i) => Answers(s.log[i], s.log[i - 1])
      /\ ~Even(n) <=> s.state \in {BUSY, POSTFAIL}
      /\ ~Even(n) => s.log[n].digest = s.input
      /\ s.state = BUSY => s.log[n].job = Job(s)

\* The log of a gated endpoint is a trail of request/completion pairs; a
\* request without its completion is the last record, and only of a running
\* job or of one whose completion record was lost.  (submit() and complete()
\* write the two halves of a pair in different callbacks, with host stores,
\* register writes and peer callbacks in between.)
EvidenceTrail == \A d \in present \cap Enforced : TrailOK(ep[d])

SuccessOK(d, s) ==
  LET n == Len(s.log)
  IN  s.state = DONE =>
        /\ s.committed = 1
        /\ Gate(d) => n > 0 /\ s.log[n].kind = Completion
                            /\ s.log[n].digest = s.output
                            /\ s.log[n].time = s.finished

\* Success is never reported without its evidence: DONE has a committed output
\* and, under the gate, the completion record of this very job as last record.
SuccessHasEvidence == \A d \in present : SuccessOK(d, ep[d])

RoomOK(d, s) ==
  /\ Len(s.log) <= s.capacity
  /\ s.capacity <= MaxRecords
  /\ Gate(d) /\ s.state = BUSY => Len(s.log) < s.capacity
  /\ ~Gate(d) => s.log = <<>>

\* submit() reserved room for the pair, so the completion record of a running
\* job always fits, whatever the host writes to the capacity register; an
\* endpoint without the gate keeps no log at all.
RoomForCompletion == \A d \in present : RoomOK(d, ep[d])

\* Where the output of the last job went.
OutputAt(s) == IF s.state = BUSY THEN s.desc["dst"] ELSE s.log[Len(s.log)].job["dst"]

\* Memory with the output in it, but for what the host has stored since.
WithOutput(d) ==
  [w \in Word |-> IF w \in touched[d] THEN base[d][w]
                  ELSE Stored(base[d], OutputAt(ep[d]), ep[d].output)[w]]

CommitOK(d) ==
  /\ ep[d].committed = 0 => ram[d] = base[d]
  /\ ep[d].committed = 1 /\ (Gate(d) \/ ep[d].state = BUSY) => ram[d] = WithOutput(d)

\* The committed flag tells the truth about device memory: while it is 0 memory
\* is what the host left there since the doorbell; once it is 1 the output
\* stands at dst, except where the host stored over it since.
CommitTruth == \A d \in present : CommitOK(d)

FailureOK(s) ==
  LET n == Len(s.log)
  IN  /\ s.state = PREFAIL  => /\ s.failure.kind = PreFailure
                               /\ s.failure.committed = 0
                               /\ s.committed = 0
      /\ s.state = POSTFAIL => /\ s.failure.kind = PostFailure
                               /\ s.failure.committed = 1
                               /\ s.committed = 1
                               /\ s.failure.sequence = n + 1
                               /\ Answers(s.failure, s.log[n])
      /\ s.state \notin {PREFAIL, POSTFAIL} => s.failure = ZeroRecord
      /\ s.state \in {PREFAIL, POSTFAIL} <=> s.error # "E_NONE"

\* The reserved failure record is there exactly in the failure states, and says
\* whether the failed job had stored its output, and which: it answers the
\* request that is left without a completion.
FailureTruth == \A d \in present : FailureOK(ep[d])

JobCost(words) == 2 * RecordNs + words * ComputeNs + Serialization(words) + LinkNs

PairsPaid(s) ==
  \A i \in 2..Len(s.log) :
    Even(i) => s.log[i].time >= s.log[i - 1].time + JobCost(s.log[i - 1].job["words"])

\* Every completion record is at least the job's whole cost younger than its
\* request record: no callback may report work before its time has been spent.
CostCharged == \A d \in present \cap Enforced : PairsPaid(ep[d])

\* The window in which an endpoint occupies the shared link.
OnLink(d) == d \in present /\ ep[d].state = BUSY /\ ep[d].phase = "LINK_END"
Sending(d) ==
  LET first == ep[d].link_start
  IN  first..(first + Serialization(ep[d].desc["words"]) - 1)

\* Two transfers never occupy the shared link at once, and the link is not
\* handed out again before the last transfer on it is over.
LinkExclusive ==
  \A d, e \in Dev :
    OnLink(d) =>
      /\ \A t \in Sending(d) : t < link_free_ns
      /\ OnLink(e) /\ d # e => Sending(d) \cap Sending(e) = {}

TimerOK(s) ==
  /\ s.state = BUSY <=> s.timer # Disarmed
  /\ s.state = BUSY /\ s.phase = "COMPUTE_END" => s.timer = s.compute_end
  /\ s.state = BUSY /\ s.phase = "LINK_END" => s.timer = s.link_end
  /\ s.state = BUSY => (s.committed = 1 <=> s.phase = "RECORD_END")

\* A running job always has its timer armed, at the deadline of its phase, and
\* no other endpoint has one: nothing can stop the job from ending, and no
\* callback can hit an endpoint that is not running.
TimerRuns == \A d \in present : TimerOK(ep[d])

KeepsFailure(old, new) ==
  old.state \in {PREFAIL, POSTFAIL} =>
    \/ new.state = old.state /\ new.failure = old.failure /\ new.log = old.log
    \/ new.epoch > old.epoch

KeepsLog(old, new) ==
  \/ /\ new.epoch = old.epoch
     /\ Len(new.log) \in {Len(old.log), Len(old.log) + 1}
     /\ \A i \in DOMAIN old.log : new.log[i] = old.log[i]
  \/ new.epoch > old.epoch /\ old.state # BUSY /\ new.log = <<>>

FailuresKept == \A d \in present \cap present' : KeepsFailure(ep[d], ep'[d])
LogsKept == \A d \in present \cap present' : KeepsLog(ep[d], ep'[d])

\* A failure is sticky: it, its record and the log stay until a higher epoch
\* acknowledges them or the device goes away.
StickyFailure == [][FailuresKept]_vars

\* Evidence is never rewritten: within an epoch the log only grows, by at most
\* one record a step, and epochs never go back.
LogAppendOnly == [][LogsKept]_vars

OutputOK(s) ==
  s.state = BUSY /\ s.phase # "COMPUTE_END" =>
    s.output = VectorJob(s.input, s.desc["scalar"])

\* The inductive invariant behind the properties above: what holds of every
\* device structure, and the output of a running job past its compute phase.
DeviceInv(d, s) ==
  /\ TimerOK(s)
  /\ RoomOK(d, s)
  /\ OutputOK(s)
  /\ FailureOK(s)
  /\ SuccessOK(d, s)
  /\ Gate(d) => TrailOK(s)
  /\ ~Gate(d) => s.state # POSTFAIL
  /\ s.state = IDLE => s.committed = 0

\* Every endpoint, plugged in or not, satisfies the device invariant.
EndpointInv == \A d \in Dev : DeviceInv(d, ep[d])

\* What a running job must have waited for since its request when its timer
\* fires in this phase.
SpentAt(phase, words) ==
  CASE phase = "COMPUTE_END" -> RecordNs + words * ComputeNs
    [] phase = "LINK_END" -> RecordNs + words * ComputeNs + Serialization(words) + LinkNs
    [] phase = "RECORD_END" -> JobCost(words)

CostOK(s) ==
  /\ PairsPaid(s)
  /\ s.state = BUSY =>
       s.timer >= s.log[Len(s.log)].time + SpentAt(s.phase, s.desc["words"])

SentBy(d) == ep[d].link_start + Serialization(ep[d].desc["words"])

LinkOK(d) ==
  OnLink(d) =>
    /\ SentBy(d) <= link_free_ns
    /\ \A e \in Dev \ {d} : OnLink(e) => \/ SentBy(d) <= ep[e].link_start
                                         \/ SentBy(e) <= ep[d].link_start

\* What makes CommitTruth, CostCharged and LinkExclusive inductive with
\* EndpointInv: they hold of devices that are away as well, a running job has
\* paid for its phase, and transfers on the link follow one another.
HistoryInv ==
  /\ \A d \in Dev : CommitOK(d)
  /\ \A d \in Enforced : CostOK(ep[d])
  /\ \A d \in Dev : LinkOK(d)

\* A submitted job always ends: the endpoint leaves BUSY (or is unplugged).
JobEnds ==
  \A d \in Dev : (d \in present /\ ep[d].state = BUSY)
                   ~> (d \notin present \/ ep[d].state # BUSY)
===========================================================================
