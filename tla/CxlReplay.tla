----------------------------- MODULE CxlReplay -----------------------------
(***************************************************************************)
(* Two observers of the CXL host.  CxlTraceRecorder, crates/slugarch-host/ *)
(* src/replay.rs, records each message as the host sends or receives it;   *)
(* eval-cxl and the feasibility report compare the artifacts of two runs.  *)
(* The hardware-JIT pipeline, crates/slugcxl-gen/src/emit_hj_pipeline.rs,  *)
(* sits on the wires between host and endpoint in slugcxl_4x4_hj_top and   *)
(* samples the FLITs that pass.                                            *)
(*                                                                         *)
(* Both run in the same record mode here.  Hashes are injective.  The      *)
(* provenance label of a record follows from its epoch, sequence number,   *)
(* source and destination from its place and direction.                    *)
(***************************************************************************)
EXTENDS CxlHost, FiniteSets, FiniteSetsExt, SequencesExt

CONSTANTS
  HjConfigs,      \* [mode, stride, missed]: record mode, sample stride, and the
                  \* number of the sample the metadata consumer is not ready for
  MaxCycles       \* bound on the counters of clocks

CxlRecordMode == {"Validation", "Delta", "Full"}

\* A stride of 0 never gets past HardwareJitConfig::validate.
HardwareJitConfig == [mode : CxlRecordMode, stride : Nat \ {0}, missed : Nat]

ASSUME HjAssumption == HjConfigs \subseteq HardwareJitConfig /\ MaxCycles \in Nat

VARIABLES
  hj_config,
  records, last_response_tag, cycles,   \* of the run
  left, right,                          \* artifacts of the first and second good run
  trail,                                \* history: records of the host's earlier runs
  hj,                                   \* registers of the pipeline
  metadata                              \* history: what its consumer has received

recorderVars == <<records, last_response_tag, cycles, left, right, trail>>
hjVars == <<hj_config, hj, metadata>>
replayVars == <<vars, recorderVars, hjVars>>

Mode == hj_config.mode
Bit(b) == IF b THEN 1 ELSE 0
Counted(clocks, b) == Min({clocks + Bit(b), MaxCycles})

(***************************************************************************)
(* Records                                                                 *)
(***************************************************************************)
ByteOf(word, i) == (word \div 256^i) % 256
ChangedBytes(word) == {<<i, ByteOf(word, i)>> : i \in {n \in 0..3 : ByteOf(word, n) # 0}}

PayloadCapture(data) ==
  CASE data = None -> [kind |-> "None", value |-> None]
    [] data # None /\ Mode = "Validation" -> [kind |-> "Hash64", value |-> data]
    [] data # None /\ Mode = "Delta" ->
         [kind |-> "Delta", value |-> ChangedBytes(OrElse(data, 0))]
    [] OTHER -> [kind |-> "Full", value |-> data]

captured_bytes(payload) ==
  CASE payload.kind = "None" -> 0
    [] payload.kind = "Hash64" -> 8
    [] payload.kind = "Delta" -> 8 + 2 * Cardinality(payload.value)
    [] OTHER -> 32

classify(msg) ==
  CASE msg.class = "M2SReq" -> IF msg.opcode = "MemInv" THEN "CacheRequest" ELSE "MemRead"
    [] msg.class = "M2SRwD" -> CASE msg.opcode = "MemWr" -> "MemWrite"
                                 [] msg.opcode = "MemWrPtl" -> "MemWritePartial"
                                 [] OTHER -> "MemEviction"
    [] msg.class = "S2MDRS" -> "MemData"
    [] msg.class = "S2MNDR" -> "Completion"
    [] msg.class = "D2HReq" -> "CacheRequest"
    [] msg.class = "D2HResp" -> "CacheResponse"
    [] msg.class = "H2DReq" -> "SnoopRequest"
    [] OTHER -> "SnoopResponse"

\* Of the n-th request of a GEMM.
gemm_epoch(n) ==
  CASE n <= Cells -> 0
    [] n \in Cells + 1..2 * Cells -> 1
    [] n = 2 * Cells + 1 -> 2
    [] OTHER -> 3

ReplayRecord(n, direction, msg) ==
  [epoch |-> gemm_epoch(n), direction |-> direction,
   transaction_class |-> classify(msg), msg_class |-> msg.class, opcode |-> msg.opcode,
   tag |-> msg.tag, address |-> msg.addr,
   dependencies |-> IF direction = "HostToDevice" THEN last_response_tag ELSE Some(msg.tag),
   fence |-> n = 2 * Cells + 1,
   payload |-> PayloadCapture(msg.data)]

\* Mutant: does not remember the answer.
ForgetAnswer(direction, msg) ==
  /\ records' = Append(records, ReplayRecord(k, direction, msg))
  /\ UNCHANGED last_response_tag

record_gemm_msg(direction, msg) ==
  /\ records' = Append(records, ReplayRecord(k, direction, msg))
  /\ last_response_tag' = IF direction = "DeviceToHost" THEN Some(msg.tag) ELSE last_response_tag

PayloadBytes(recs) == FoldSeq(LAMBDA r, sum : captured_bytes(r.payload) + sum, 0, recs)

summarize(recs) ==
  [record_count |-> Len(recs),
   epoch_count |-> IF recs = <<>> THEN 0 ELSE Max({r.epoch : r \in ToSet(recs)}) + 1,
   application_flit_bytes |-> 64 * Len(recs),
   payload_capture_bytes |-> PayloadBytes(recs)]

\* finish, with the job, the host's first tag and the cycles it came from.  The
\* commitment covers the result and the run's counts of cycles and FLITs, of
\* which only the cycles differ between successful runs.
Artifact ==
  [job |-> job, first_tag |-> stream[1].tag, cycles |-> cycles,
   records |-> records,
   final_result_commitment |-> <<answer', cycles>>,
   summary |-> summarize(records)]

validate_equivalent(l, r) ==
  LET both == 1..Min({Len(l.records), Len(r.records)})
  IN  [record_count_matches |-> Len(l.records) = Len(r.records),
       record_mismatches |-> Cardinality({i \in both : l.records[i] # r.records[i]})
                             + Max({Len(l.records), Len(r.records)}) - Cardinality(both),
       final_commitment_matches |-> l.final_result_commitment = r.final_result_commitment]

is_equivalent(v) ==
  v.record_count_matches /\ v.record_mismatches = 0 /\ v.final_commitment_matches

\* The spoilt copy of an artifact that measure_mode expects to be told apart.
Spoilt(artifact) ==
  [artifact EXCEPT !.records[1].tag = (@ + 1) % TagSpace]

(***************************************************************************)
(* The hardware-JIT pipeline, one step per clock, on the wires as they are *)
(* before the edge                                                         *)
(***************************************************************************)
METADATA_RECORD_BYTES == 32

\* Mutant: counts a FLIT for as long as it is on the wires.
WhileValid == flit_in_valid

h2d_fire == flit_in_valid /\ state = "IDLE"
d2h_fire == flit_out_valid

chosen == IF h2d_fire THEN Message(flit_in) ELSE Answer(flit_out_data)

\* What a metadata record says of the FLIT, and the hash of its data field.
MetadataRecord ==
  [direction |-> IF h2d_fire THEN "HostToDevice" ELSE "DeviceToHost",
   class |-> chosen.class, opcode |-> chosen.opcode, tag |-> chosen.tag,
   addr |-> OrElse(chosen.addr, <<0, 0>>), epoch |-> hj.epoch_id,
   hash |-> OrElse(chosen.data, 0)]

\* The pipeline has its own count of the bytes a payload costs.
capture_bytes(msg) ==
  CASE msg.class \notin {"M2SRwD", "S2MDRS", "D2HResp"} -> 0
    [] msg.class \in {"M2SRwD", "S2MDRS", "D2HResp"} /\ Mode = "Validation" -> 8
    [] msg.class \in {"M2SRwD", "S2MDRS", "D2HResp"} /\ Mode = "Delta" ->
         8 + 2 * Cardinality(ChangedBytes(OrElse(msg.data, 0)))
    [] OTHER -> 32

IsCompute == chosen.class = "M2SRwD" /\ (OrElse(chosen.data, 0) \div 2^20) % 2 = 1

NextEpoch ==
  CASE h2d_fire /\ IsCompute -> hj.epoch_id + 1
    [] h2d_fire /\ chosen.class = "M2SReq" /\ hj.epoch_id < 3 -> 3
    [] OTHER -> hj.epoch_id

HjClock ==
  LET any_fire == h2d_fire \/ d2h_fire
      sampled == any_fire /\ hj.sample_ctr = 0
      metadata_ready == hj.record_count + 1 # hj_config.missed
  IN  /\ hj' = [epoch_id |-> IF any_fire THEN NextEpoch ELSE hj.epoch_id,
                sample_ctr |-> IF any_fire THEN (hj.sample_ctr + 1) % hj_config.stride
                               ELSE hj.sample_ctr,
                record_count |-> hj.record_count + Bit(sampled),
                metadata_bytes |-> hj.metadata_bytes
                  + IF sampled THEN METADATA_RECORD_BYTES + capture_bytes(chosen) ELSE 0,
                app_flit_bytes |-> hj.app_flit_bytes + 64 * Bit(any_fire),
                stall_cycles |-> Counted(hj.stall_cycles, flit_in_valid /\ state # "IDLE"),
                metadata_drop_count |-> hj.metadata_drop_count + Bit(sampled /\ ~metadata_ready)]
      /\ metadata' = IF sampled /\ metadata_ready THEN Append(metadata, MetadataRecord)
                     ELSE metadata
      /\ UNCHANGED hj_config

HjReset ==
  [epoch_id |-> 0, sample_ctr |-> 0, record_count |-> 0, metadata_bytes |-> 0,
   app_flit_bytes |-> 0, stall_cycles |-> 0, metadata_drop_count |-> 0]

\* Loads, the compute and the answers to reads.
GEMM_PAYLOAD_FLITS == 3 * Cells + 1

\* estimate_gemm_4x4: the report that goes with the generated pipeline.
DivCeil(x, y) == (x + y - 1) \div y
estimate_gemm(config) ==
  LET record_count == DivCeil(2 * StreamLength, config.stride)
      per_flit == CASE config.mode = "Validation" -> 8
                    [] config.mode = "Delta" -> 8 + 32 * 2
                    [] OTHER -> 32
      payload == DivCeil(GEMM_PAYLOAD_FLITS, config.stride) * per_flit
  IN  [record_count |-> record_count, app_flit_bytes |-> 2 * StreamLength * 64,
       payload_capture_bytes |-> payload,
       metadata_bytes |-> record_count * METADATA_RECORD_BYTES + payload]

(***************************************************************************)
(* A recorded run: the steps of CxlHost with what the observers make of    *)
(* them.  A record is made before the FLIT is sent, and before the tag of  *)
(* an answer is looked at.                                                 *)
(***************************************************************************)
\* Bound: with an artifact in hand no more than two runs in all.
run_gemm_recorded(j) ==
  /\ left = None \/ runs < 2
  /\ run_gemm(j)
  /\ records' = <<>> /\ last_response_tag' = None /\ cycles' = 0
  /\ trail' = trail \o records
  /\ UNCHANGED <<left, right, hjVars>>

RecordStartTick ==
  /\ StartTick
  /\ HjClock
  /\ UNCHANGED recorderVars

RecordSend ==
  /\ SendFlit
  /\ record_gemm_msg("HostToDevice", Message(stream[k]))
  /\ UNCHANGED <<cycles, left, right, trail, hjVars>>

RecordWaitTick ==
  /\ WaitTick
  /\ HjClock
  /\ cycles' = Counted(cycles, TRUE)
  /\ UNCHANGED <<records, last_response_tag, left, right, trail>>

RecordWait ==
  /\ KeepWaiting \/ FlitTimeout
  /\ UNCHANGED <<recorderVars, hjVars>>

RecordResponse ==
  /\ TakeResponse
  /\ record_gemm_msg("DeviceToHost", Answer(Head(outbound_flits)))
  /\ UNCHANGED <<cycles, left, right, trail, hjVars>>

RecordFinish ==
  /\ Finish
  /\ left' = IF left = None /\ result' = "ok" THEN Some(Artifact) ELSE left
  /\ right' = IF left # None /\ result' = "ok" THEN Some(Artifact) ELSE right
  /\ UNCHANGED <<records, last_response_tag, cycles, trail, hjVars>>

RecordNewHost ==
  /\ NewHost
  /\ records' = <<>> /\ trail' = <<>> /\ cycles' = 0 /\ last_response_tag' = None
  /\ hj' = HjReset /\ metadata' = <<>>
  /\ UNCHANGED <<left, right, hj_config>>

RecordStep ==
  \/ RecordStartTick \/ RecordSend \/ RecordWaitTick \/ RecordWait
  \/ RecordResponse \/ RecordFinish

ReplayInit ==
  /\ Init
  /\ records = <<>> /\ last_response_tag = None /\ cycles = 0
  /\ left = None /\ right = None /\ trail = <<>>
  /\ hj_config \in HjConfigs /\ hj = HjReset /\ metadata = <<>>

ReplayNext ==
  (\E j \in Jobs : run_gemm_recorded(j)) \/ RecordNewHost \/ RecordStep

\* run_gemm_inner is a loop of one thread that waits for nobody.
ReplaySpec == ReplayInit /\ [][ReplayNext]_replayVars /\ WF_replayVars(RecordStep)

(***************************************************************************)
(* Properties                                                              *)
(***************************************************************************)
\* Each request depends on the answer to the request before it and on nothing
\* else, each answer carries the tag of its own request.
CausalChain(recs) ==
  \A i \in 1..Len(recs) :
    IF i % 2 = 1
    THEN /\ recs[i].direction = "HostToDevice"
         /\ recs[i].dependencies = IF i = 1 THEN None ELSE Some(recs[i - 1].tag)
    ELSE /\ recs[i].direction = "DeviceToHost"
         /\ recs[i].tag = recs[i - 1].tag /\ recs[i].dependencies = Some(recs[i - 1].tag)

\* Recordings depend on the job and the host's tags only: two runs of one job on
\* fresh hosts yield the same records, whatever the latency of the array was,
\* and validate_equivalent tells every other pair apart, and every pair whose
\* cycles differ, since the commitment covers them.  The records of a run that
\* succeeded form one chain of causes.  (CxlTraceRecorder, eval_cxl)
RecordingsAgree ==
  pc = "idle" =>
  /\ \A artifact \in left \cup right :
       /\ CausalChain(artifact.records)
       /\ Len(artifact.records) = 2 * StreamLength
       /\ artifact.summary.epoch_count = 4
  /\ \A l \in left, r \in right :
       LET twins == l.job = r.job /\ l.first_tag = r.first_tag
       IN  /\ twins => l.records = r.records
           /\ is_equivalent(validate_equivalent(l, r)) <=> twins /\ l.cycles = r.cycles
           /\ ~is_equivalent(validate_equivalent(l, Spoilt(r)))

FlitsPassed == hj.app_flit_bytes \div 64

SameFlit(meta, rec) ==
  /\ meta.direction = rec.direction
  /\ meta.class = rec.msg_class /\ meta.opcode = rec.opcode /\ meta.tag = rec.tag
  /\ meta.addr = OrElse(rec.address, <<0, 0>>)
  /\ rec.payload.kind = "Hash64" => Some(meta.hash) = rec.payload.value

\* The estimate is exact for a recorded GEMM in validation and full mode, and an
\* upper bound in delta mode, at stride 1.
EstimateHolds ==
  pc = "idle" /\ hj_config.stride = 1 =>
    \A artifact \in left \cup right :
      LET estimate == estimate_gemm(hj_config)
          payload == artifact.summary.payload_capture_bytes
      IN  /\ artifact.summary.record_count = estimate.record_count
          /\ artifact.summary.application_flit_bytes = estimate.app_flit_bytes
          /\ payload <= estimate.payload_capture_bytes
          /\ Mode # "Delta" => payload = estimate.payload_capture_bytes

\* The pipeline on the wires and the recorder in the host have seen the same
\* FLITs in the same order when a run is over, but for the last answer, which
\* the pipeline sees a clock later: its samples are every stride-th record of
\* the host's life, less the one its consumer missed and metadata_drop_count
\* owns up to; at stride 1 it charges the bytes the recorder charges; and its
\* stall cycles and FLITs account for every cycle of a host's first result.
\* What the generator estimated for a GEMM holds of the recordings.
HjSeesTrace ==
  LET whole == trail \o records
      sampled == [i \in 1..hj.record_count |-> whole[(i - 1) * hj_config.stride + 1]]
      received == IF hj_config.missed \in 1..hj.record_count
                  THEN RemoveAt(sampled, hj_config.missed) ELSE sampled
  IN  /\ EstimateHolds
      /\ ~timed_out /\ pc = "idle" =>
        /\ Len(whole) - FlitsPassed \in 0..1
        /\ hj.record_count = DivCeil(FlitsPassed, hj_config.stride)
        /\ hj.metadata_drop_count = Len(sampled) - Len(metadata)
        /\ Len(metadata) = Len(received)
        /\ \A i \in 1..Len(metadata) : SameFlit(metadata[i], received[i])
        /\ hj_config.stride = 1 =>
             hj.metadata_bytes = METADATA_RECORD_BYTES * hj.record_count
                                 + PayloadBytes(SubSeq(whole, 1, FlitsPassed))
        /\ trail = <<>> => cycles = hj.stall_cycles + DivCeil(FlitsPassed, 2)
=============================================================================
