# SlugArch: TLA+ models, checks and proofs

SlugArch compiles tensor programs to commands for accelerator IPs, runs them on simulated RTL, attaches one of these
IPs as a CXL Type-2 device, and adds an *endpoint gate* to a QEMU device: work is accepted only with a recorded
request and reported as done only with a recorded completion. This directory holds models of these parts, TLC runs
that check them on small instances, and TLAPS proofs, for every value of the constants, about the endpoint gate and
its campaigns, the token fabric, the compiler, the SlugCXL endpoint and its host, the Type-2 sweep and the nested barrier.

Source paths are relative to the root of the repository.

## 1. Inventory

### Endpoint gate and vector engine (`targets/splash-endpoint/qemu/cxl_slugarch.c`)
* State: per device a register file, an append-only log of 128-byte records, one reserved failure record, a state
  (`IDLE BUSY DONE PREFAIL POSTFAIL`), a phase, a timer, frozen input and output; for all devices together
  `link_free_ns` and `link_users`.
* Operations: MMIO writes (descriptor fields, epoch, capacity, doorbell), the timer callback `complete()` in three
  phases, realize and unplug.
* Hard: the two records of a job are written in different callbacks, with host stores, register writes and other
  devices' callbacks in between; a failure may come before or after the output is stored; the link is shared; a
  device may go away while it holds the link; callbacks may run late.
* Correct when: the log is a trail of matching pairs, `DONE` implies evidence, `committed` tells the truth about
  memory, failures stay until acknowledged, transfers never overlap, every job ends.

### Endpoint campaigns (`targets/splash-endpoint/{driver,experiment,correctness}.py`)
* State: the cell, rounds, submitted jobs, clock steps. Operations: acknowledge and publish, submit, step the clock
  to the next deadline, check, inject a fault, recover.
* Hard: the oracle computes the schedule in closed form, the devices produce it by callbacks.

### Token fabric (`crates/slugarch-fabric`)
* State of `Fabric::run`: pending commands, commands in flight with their ages, retired tokens, cycle counts.
* Hard: `swap_remove` reorders the vector that is being scanned; CPU commands retire in the middle of a scan; one
  `done` level serves all commands of an IP; two budgets bound a run.
* Correct when: every command is run once and after its token, `Ok` means all of them, streams of the compiler are
  never called stuck, every run ends.

### PTX frontend, IR, passes, binding (`crates/slugarch-ptx-frontend`, `crates/slugarch-ir`, `crates/slugarch-backend`)
* State: a module of functions (ops, order, edges, metadata), and what a recorded execution leaves for a replay.
  Operations: lower a PTX text kernel by kernel and block by block, `fuse_decode_ops`, `select_backend`,
  `assign_tokens`, `validate_against_rtlmap`, `emit_dispatches`, run, replay.
* Hard: nested blocks, six lowerers tried in order, instructions no lowerer knows; a validator that compares two
  graphs of different origin; tokens that summarise several predecessors in one number.
* Correct when: no instruction of a kernel is lost, order and tokens respect the edges, fusion changes neither
  operands nor dependencies, a match of the validator means what it says, a replay repeats the recorded run.

### SlugCXL endpoint, shim and host (`targets/agilex-vr2/generated`, `crates/slugarch-verilator-sys`, `crates/slugarch-host`)
* State: registers of the endpoint FSM and the systolic array, two FLIT queues of the shim, and in the host the next
  tag and the position in the stream.
* Hard: the handshake is read after the clock edge, `done` is a level that outlives its command, the host may give up
  on an answer that still comes.
* Correct when: FLITs are served once and in order, a run returns the product of its own matrices, every run ends.

### Wire codec, trace recorder, HJ pipeline (`crates/slugarch-cxl-wire`, `crates/slugarch-host/src/replay.rs`, `slugcxl_hj_pipeline.sv`)
* State: the records of a run (sequence, epoch, cause, payload or its hash), and the registers of the hardware
  observation pipeline, which sits on the same wires and never delays them.
* Hard: two observers, one in software after the fact and one in RTL at the clock, number the same FLITs and close the
  same epochs; the consumer of the hardware's metadata may be busy; latency must not show in what two recordings
  of one job are compared on.
* Correct when: recordings of one job agree, hardware samples are the records of the recorder, losses are counted.

### qemu-type2 sweep (`crates/slugarch-cli` export, `targets/qemu-type2`, `crates/slugarch-host/src/{qemu_type2,sim_feasible}.rs`)
* State: the artifact directory (requests, responses, summaries) that outlives a sweep, the guest helper's position
  and counters, the mailbox registers of the device behind BAR2. Operations: export, transfer, guest run, transfer
  back, validate, report; any step may fail and stop the script, which is then started again.
* Hard: the guest gives up on a command after a number of polls while the device still works on it; files of an earlier
  sweep stand where new ones belong; guest, validator and report each have a verdict of their own.
* Correct when: a pass of the helper means that BAR2 carried every command, the validator accepts exactly the right
  answers, a report rests on answers that were validated, the script ends.

### Nested BSP barrier (`targets/splash-bsp/experiment.py`)
* State: device memory with outputs and certificates, the event log, metrics. Operations: write outputs and
  certificates, read them back level by level, release, recover one group, reduce, validate.
* Hard: old certificates stand where new ones belong; recovery mixes two attempts; devices can fail at any read.
* Correct when: nothing is released on stale or corrupted evidence, healthy cells pass, passing cells validate.

### Not modelled
* splash-type2 transport, campaign, replay and validation; Zettai hot-plug: in the plan.
* `audit.py` and `scale256.py`: they check JSON that has been recorded, by changing it.
* Benches and plots: timing, arithmetic on measurements, drawing. Argument parsing of the CLI, the DAX probe, the
  wording of reports.
* RTL text generators, except for what the endpoint, the HJ pipeline and its overhead estimate do; the tops, the Quartus
  project and vendored RTL, except for the systolic array.

### How the parts interact
PTX frontend -> `SlugIr` -> passes -> `DispatchCmd` stream -> `Fabric::run` -> IPs. `CxlHost` -> shim -> SlugCXL
endpoint -> systolic array, all by calls of one thread that also is the clock; the recorder sees what the host sends
and receives, the HJ pipeline the wires. Sweep: export -> guest -> BAR2 device, then back to validator and report, all
through files. Campaign -> QEMU qtest -> endpoint gates, which meet each other only at the link and on the virtual
clock.

## 2. Modules

| module | models | composition |
|---|---|---|
| `SlugEndpoint` | `cxl_slugarch.c`, a set of devices | base |
| `EndpointContract` | what a gated endpoint promises | abstract specification |
| `SlugEndpointRefinement` | the mapping between the two | `INSTANCE EndpointContract` |
| `EndpointCampaign` | `driver.py`, `experiment.py` workload, `correctness.py` cases | extends `SlugEndpoint` |
| `TokenFabric` | `engine.rs`, `cpu_emu.rs` | base |
| `SlugIr` | IR, the passes, the rtlmap validator, binding, as operators | base |
| `PtxFrontend` | the walk over PTX and its lowerers, as operators | extends `SlugIr` |
| `SlugPipeline` | lower, compile, run, record, replay | composes `PtxFrontend` and `TokenFabric` |
| `CxlWire` | `slugarch-cxl-wire`: classes, opcodes, `encode`, `decode` | base |
| `GemmWire` | the GEMM protocol on the wire: stream of a job, answers, product | extends `CxlWire`; base of endpoint and guest |
| `SlugCxlEndpoint` | `slugcxl_endpoint.sv`, systolic array, `ip_shim.cpp` | extends `GemmWire` |
| `GemmDevice` | a device that serves requests in order, at one instant each | abstract specification |
| `SlugCxlClient` | the endpoint under an arbitrary client | `INSTANCE GemmDevice` |
| `CxlHost` | `host.rs`, `dispatch.rs`, `result.rs` | extends `SlugCxlEndpoint` |
| `CxlReplay` | `replay.rs`, `slugcxl_hj_pipeline.sv` | extends `CxlHost` with the two observers |
| `Type2Guest` | `slugarch_type2_guest.c` and, external, the device behind BAR2 | extends `GemmWire` |
| `Type2Sweep` | export, sweep script, validator, BAR2 part of the report | extends `Type2Guest` |
| `NestedBsp` | `run_cell`, `Barrier`, `validate` | alone |
| `MC*` | values of the constants for TLC | |
| `SlugEndpointProofs` | theorems about `SlugEndpoint`: invariants, action properties, histories, refinement | extends `SlugEndpointRefinement` |
| `EndpointCampaignProofs` | theorems about `EndpointCampaign` | extends it and `DataLemmas` |
| `TokenFabricProofs` | theorems about `TokenFabric` | extends it |
| `SlugPipelineProofs` | theorems about `SlugIr`, `PtxFrontend`, `SlugPipeline` | extends `SlugPipeline`, `TokenFabricProofs`, `DataLemmas` |
| `CxlHostProofs` | theorems about `SlugCxlClient`, `CxlHost`, `CxlReplay` | extends these |
| `Type2Proofs` | theorems about `Type2Guest` and `Type2Sweep` | extends `Type2Sweep`, `DataLemmas` |
| `NestedBspProofs` | theorems about `NestedBsp` | extends it and `DataLemmas` |
| `DataLemmas` | induction, recursion and summation over the naturals | alone |

### How state and actions correspond to the code
* `SlugEndpoint`: `ep[d]` is `struct CXLSlugArchState` field by field, `ram[d]` device memory by word. MMIO handlers
  and timer callbacks hold QEMU's big lock, so each is one action. `submit()` is `Submit` or `Refuse`, `complete()`
  is `ComputeEnd`, `LinkEnd`, `RecordEnd` or `RecordFault`. Each way a write is turned down leads to the same change,
  `RejectWrite`. A digest is the vector it digests. `base` and `touched` are history variables: what the host alone
  has done to memory. The timer list of QEMU (`Armed`, `Fires`, `Arm`, `Forget`), the clock and host stores are
  external. `MaxReg` stands for 2^64-1 and arithmetic on data is modulo `MaxReg + 1`.
* `EndpointCampaign`: the clock stands still between two `clock_step`s, so the register writes of a submission are one
  action; a `clock_step` is `ClockStep` followed by every timer that is due. A round that injects a fault serves the
  target first (`correctness.py:28-29`); every other round, the recovery of a fault among them (`correctness.py:46`),
  may serve the endpoints in any order. `DrainLimit` stands for the 1000 steps after which `drain` raises: the stage is
  then `raised`.
* `TokenFabric`: one action per pass through an inner branch of `run()`. After a clock each IP with a command in
  flight shows done or not, freely.
* `SlugCxlEndpoint`: one action `Tick` is one call of `tick_slugcxl_4x4`, that is one edge of endpoint and array, then
  the two handshakes. The array in the repository answers at the next clock; `Late` lets it take longer, which is what
  the host's `FlitTimeout` is there for. The branches of the host for `DispatchFailed` and for too few read answers
  are kept, although no stream of `run_gemm` leads to them.
* `SlugPipeline`: a PTX text is a list of statements, in which a block holds a list of them, and the parser, a library,
  is external. `Statements` is what it may yield and `Levels` bounds the nesting; `collect_instructions`, which calls
  itself on a block, opens one level at a time. `WellFormed` is what the Rust types and `FunctionBuilder` give: notes on
  every op, edges between ops of the function. Kahn's queue and the order it leaves are one growing sequence, of
  which turn n visits the n-th op. Edges are a set, so a Data and a Token edge may run in parallel, two equal ones not.
  A token word is reduced to what tells commands apart. A recorded execution is the
  stream and its outcome; `Replay` runs it again.
* `CxlWire`, `CxlReplay`: a FLIT is its fields, not its bytes; a hash is the value it is taken of, so collisions are
  left out. `CxlReplay` adds the recorder to the host's steps and the registers of the pipeline to `Tick`; which sample
  the consumer is not ready for is part of a configuration.
* `Type2Guest`: the device is a queue of commands that are its own or late ones of an earlier wait; it may delay,
  complete, fail or forget each. STATUS and RESULT are two reads, with the device free to move in between. A write of
  CMD shows RUNNING at once. Counters are zero or not; error codes are taken to be non-zero. `signaller`,
  `clean` and `carried` are history variables: whose completion is in the registers, whether the device was idle at the
  start, and whether each command succeeded by its own completion.
* `Type2Sweep`: one action per step of the script. A step may fail, and a transfer may damage a file, at most
  `MaxFaults` times. While the guest runs, the script can be stopped before its start or after its files are written.
* `NestedBsp`: the host is one thread of nested loops; `at` is the operation it does next (its loop, tile and index),
  `After` the one that follows, `Loop` the turn of a loop, and an exception ends the cell or puts `at` at the retry. A
  digest is the values it digests and a bit that corruption flips. `output_bytes`, its reduction and the serial
  oracle are computed, modulo `Modulus`. A device that fails returns a certificate with one of the fields that
  `check_certificate` looks at falsified (`Falsified`). A write always arrives: an old certificate is found where a new
  one belongs only by the injected `stale_epoch` or by such a read. `validate` is `ValidCounts` and
  `ValidEvidence`, every check of its loop over the supersteps (`experiment.py:285-331`); the digest of a payload is the
  payload. Left out are the seal of the manifest, run ids and topology, and the digest of the event file.

## 3. Runs

Every run finishes within two minutes on two workers.

| run | question | bounds |
|---|---|---|
| `endpoint_gate` | does one gated endpoint keep its evidence, whatever the host does between its callbacks? | 1 device, 2 words of memory, 2 epochs, 4 records: two jobs in an epoch, refused jobs, faults before and after the store, source and target that overlap |
| `endpoint_link` | does the shared link stay exclusive, does every job pay and end? | a gated and a bare device, late callbacks, one device unplugged and replugged at any moment |
| `campaign` | do the callbacks produce the schedule of the oracle, and do faults show as what they are? | 3 devices, 2 sizes, 4 rounds, 5 fault cases and every pair of them in sequence, any order of submission but that a fault round serves its target first; a drain of at most `DrainLimit` = 9 clock steps |
| `fabric` | does the event loop keep every command, respect tokens, and end? | every stream of up to 3 commands on 2 RTL IPs and the CPU, well-tokened or not, tokens that restart; budget of 2 cycles |
| `pipeline` | do compiled modules run as their edges say, and is nothing lost from PTX to fabric and replay? | every graph on 3 ops of 3 kinds, rows of MlpSteps with forward edges, modules of 2 functions, PTX texts with nested blocks and unknown instructions, hinted modules against oracles, both policies |
| `cxl_client` | is the endpoint an in-order device for any client? | 1x1 matrices, 2 tags, 2 FLITs queued, any latency |
| `cxl_host` | does a run return its own product, how can it fail, and do the observers agree? | 2x2 matrices, 2 jobs, up to 3 runs on one host or on new ones, timeout of 5 clocks, 32 tags so that they wrap (within `TagsFit`: a tag that comes round never meets an old one here), 3 configurations of the HJ pipeline, at most `MaxCycles` = 80 clocks of it |
| `type2` | can slow devices, damaged files, failing steps or an old directory lead to a false verdict? | 2x2 matrices, 2 runs in a sweep, 2 sweeps on one directory, 2 polls, 1 fault; a device that is slow, fails or forgets |
| `bsp` | is a superstep ever released on wrong evidence? | 1, 2, 4 and 8 tiles, 1 or 2 blocks, 4 modes, 4 faults, 3 supersteps, devices that fail at any read |

The bounds suffice for what can go wrong here: two jobs meet every reset between jobs, two devices every contention
for the link, three commands every move of `swap_remove`, one timeout every misplaced answer, two sweeps every file that
is left over. In `endpoint_gate` and `endpoint_link` the clock runs on only while a timer is pending (`MaxTime` bounds
it otherwise) and `MaxRejected` bounds a counter that nothing reads.

What they show, by property:

* `EvidenceTrail`, `SuccessHasEvidence`, `RoomForCompletion`, `FailureTruth`, `CommitTruth`: the log is pairs that
  answer one another, success has its record, the record always fits, and failure record and `committed` say what
  happened to memory. `StickyFailure` and `LogAppendOnly` say what no step may do; `ImplementsContract` is refinement.
* `LinkExclusive`, `CostCharged`, `JobEnds`, `EndpointInv`: see the names; the last is the inductive invariant.
* `ScheduleAgrees`, `RoundEvidence`, `FaultEvidence`: the campaign's own checks never fail, and no drain reaches its
  limit (`ScheduleAgrees`).
* `ExactlyOnce`, `TokenWait`, `NeverStuck`, `GlobalCapLoose`, `FabricEnds`: the event loop. That
  `GlobalCapLoose` holds means that the global cap is dead code as long as single budgets exist.
* `TopoSound`, `CompiledNeverStuck`, `LastPredecessorFirst`: the compiler. `KernelRunsWhole`: a text that parses
  compiles, and a run of it that ends well has completed one command for each instruction of its kernels, nested blocks
  and unknown instructions included; the instructions are counted on the text level by level (`InstructionCount`), not
  by `collect_instructions`. `MatchMeans`: when the validator says match, every node of the oracle is on an op of the
  right IP and the token edges between them are the oracle's. `ReplayRepeats`: a replay dispatches the recorded
  commands again and, where no RTL is involved, ends as the recorded run did.
* `WorksOnHead`, `ServesInOrder`: the endpoint. `RightAnswer`, `OnlyTimeoutsFail`, `RunEnds`: the host. That the second
  is an equivalence is worth knowing rather than wanting: after one `FlitTimeout` a host never returns a result again,
  since the late answer stays one ahead of every later request.
* `RecordingsAgree`: two recordings of one job on new hosts have the same records whatever the latency was, each a chain
  of causes, and `validate_equivalent` tells all others apart. `HjSeesTrace`: the hardware samples are the records at its
  stride, in order, only the counted drops are missing, and bytes and stall cycles add up.
* `PassMeansCarried`: a helper that found the device idle and passes saw each command succeed by that command's own
  completion. `ValidatorExact`: the helper answers every undamaged request rightly, and a summary says pass exactly for
  right answers. `EvidenceSound`: a report that says measured rests on right answers in every run it counts, and the
  report of the script on all runs of this very sweep. `SweepEnds`: the script ends, whatever the device does.
* `NoFalseRelease`, `HealthyPasses`, `PassValidates`: the barrier. The last: what a passing cell has recorded passes all
  checks the offline validator makes of a superstep.

### Disagreements between code and comments
Three runs expect a violation.

* `dependency_order`: `graph.rs` says the target of a Token edge waits for the source. `assign_tokens` keeps only the
  highest token of all predecessors, and the fabric retires in the order IPs finish, so an op with two predecessors
  starts while one is in flight. `LastPredecessorFirst` is what does hold.
* `fusion_edges`: `fuse_mlp_chain` deletes the edges of the op it fuses away, so consumers lose their dependency.
* `bar2_evidence`: the feasibility report says that BAR2 carried the command stream when all runs pass. The answers the
  validator passes are computed by the guest helper in its own memory, a command that failed on BAR2 shows only in
  `guest-summary.json`, which the report does not read, and the helper exits with 0.

Seen while modelling, without a run of their own:

* Fabric and compiler. `engine.rs` opens with "retires completions in token order", which line 126 does not do. A
  chain of three dependent MlpSteps is left as two ops by `fuse_mlp_chain`. The default policy sends Elementwise tiles
  to an IP whose binding refuses them. With everything on the emulation core an op with several predecessors can still
  start before one with a lower token, in modules of five ops or more.
* Frontend and validator. Unknown PTX ops carry no hint, so the validator, which "fails hard", cannot see them. The
  CLI's `validate` takes `AllEmuPolicy`, so an oracle that names another IP never matches. The validator compares all
  edges where its comment says token edges. The comment on `EntryView` (`slugarch-ptx-frontend/src/lib.rs:89-91`) says
  that `Block` statements are skipped; `extract_entry` flattens them, as its own comment (107-109) says. BF16 becomes
  F16, signed types I32, and a vector load counts as one element.
* Endpoint and observers. The comment at `ip_shim.cpp:86-88` pops the queue when `flit_in_ready` was high in the cycle
  before; the code pops by `flit_in_ready` after the edge, with the FLIT still on the wires, and `WorksOnHead` and
  `ServesInOrder` depend on it. In `slugcxl_endpoint.sv` the load path clears `cmd_valid` in the block that sets it, so
  it is never seen high there (the array does not look at it). The HJ pipeline sets a phase boundary at the start of
  the readback only in the first GEMM after a reset, unlike the comment in `emit_hj_pipeline.rs:135`. The overhead
  estimate at stride 2 counts fewer payload FLITs than are sampled. Two artifacts of one job are not equivalent when
  the latency differs, since the commitment covers cycles; `validate_equivalent` ignores the policy. The fit harness
  skips FLIT 1 of its stimulus.
* Sweep. `summary.json` of an earlier sweep survives a failing validation, and a report made by hand then counts it. A
  late completion of one guest run shifts the acknowledgements of the next: `PassMeansCarried` assumes a device that is
  idle at the start. ERROR with result 0 counts as success (`slugarch_type2_guest.c:265`). `decode_results` keeps three
  bytes of an answer.
* Resets. The shim's reset clears the RTL and not its queues; no caller resets with something queued. An epoch register
  at 2^64-1 accepts no higher epoch.

### Fairness
Liveness is checked in four runs, each under the weakest fairness the code gives. `endpoint_link`: the clock advances
and due timers run (QEMU's main loop polls its timer list for as long as it lives); the host owes nothing. `fabric`
and `cxl_host`: `run()` and `run_gemm` are loops of a single thread that blocks on nothing, so a step that can be taken
is taken; IPs and array owe nothing, they may never answer. `type2`: script and guest are sequential programs whose
waits are bounded by a number of polls; the device owes nothing.

`CHECK_DEADLOCK FALSE` is set where the program really ends: after the last round, run, sweep or cell, and in the
pipeline.

## 4. Proofs

All constants are arbitrary within the assumptions the modules name (`DevAssumption`, `SizeAssumption`,
`CostAssumption`, `InputAssumption`; `CampaignAssumption`; `FabricAssumption`; `WireAssumption`, `EndpointAssumption`,
`ClientAssumption`, `HostAssumption`, `HjAssumption`; `GuestAssumption`, `SweepAssumption`; `StatementAssumption`,
`WorkAssumption`; `BspAssumption`), which TLC evaluates in every run that uses them. The bounds of the runs (`MaxTime`,
`MaxRuns`, `MaxPolls`, ...) are constants too: a theorem holds for all of them.

### Endpoint gate
* `SlugEndpointProofs`: `TypeCorrect`, `Spec => []TypeOK`, for any number of devices, any width, memory and cost;
  `EndpointSafe`, `Spec => []EndpointInv`, and from it `TrailSafe`, `SuccessSafe`, `RoomSafe`,
  `FailureSafe`, `TimerSafe`. `EvidenceTrail` is not inductive alone: that a completion answers its request needs that
  the output of a running job past its compute phase is the function of the frozen input (`OutputOK`); that the
  failure record is right needs that `committed` follows the phase (`TimerOK`); that a record fits needs the room
  reserved at the doorbell (`RoomOK`). Their conjunction per device, `DeviceInv`, is inductive with `TypeOK`. Since no
  conjunct looks at two devices, the proof considers one device and one step: either the step leaves its structure
  alone, or it is one of the operators `Fail`, `Accept`, `Finished`, ..., each with a lemma.
* Over time: one lemma per action says once what the action does to the device it is about; everything
  else follows from these. The action properties `StickyFailure` (`FailureSticks`) and `LogAppendOnly` (`LogOnlyGrows`)
  need `EndpointInv` before the step. `HistorySafe` is `Spec => []HistoryInv`, and from it come `CommitTruth`
  (`CommitSafe`), `CostCharged` (`CostSafe`) and `LinkExclusive` (`LinkSafe`). `HistoryInv` strengthens them in three
  ways: `CommitOK` speaks of devices that are away too, since they may come back; `CostOK` says what a running job has
  paid by the phase it is in, since a completion is only written at its end; `LinkOK` orders transfers instead of
  saying that they are disjoint, and bounds them by `link_free_ns`, from which the next one starts.
* There too, `GateImplementsContract`: `Spec => ImplementsContract`. Each kind of step has a lemma that
  maps it to a step of `EndpointContract`, or to one the contract does not see; bare devices are never seen.

### Endpoint campaigns
* `EndpointCampaignProofs`: `RoundSafe` for `RoundInv`, and from it `RoundEvidence` (`RoundEvidenceSafe`) and
  `FaultEvidence` (`FaultEvidenceSafe`), for any number of endpoints, both schedules, gated and bare, any sequence of
  fault cases and any order of submission, but that the round of a fault serves its target first. Both
  properties look at the end of a round only. `RoundInv` follows each endpoint through it: while its job is in the
  queue it waits, idle, with its input in place and its target untouched (`Waiting`); then it is at work on this
  round's job, with the log, output and memory of its phase (`Running`), or has ended as the driver expects (`Ended`).
  A fault other than that of the completion ends the job at the doorbell, so a running job has no other. A drain that
  has raised leaves the endpoints as they are; that none does is not proved but checked (`ScheduleAgrees`). That the
  drain waits for all, and in a serial round for the one before, is `DrainedInv`. `CampaignAssumption` asks for room
  for two records, registers that hold every byte address of memory, and the gate wherever faults are injected
  (`experiment.py` gives the cells of kind `correctness` `enforce=True`).

### Token fabric
* `TokenFabricProofs`: `FabricSafe` for `FabricInv` and from it `FabricTyped`, `CommandsExactlyOnce`,
  `TokensRespected`, `OkIsComplete`, `WellTokenedNeverStuck`, `GlobalCapNeverFires`. Two strengthenings carry it. For
  `NeverStuck`: while a scan has launched nothing, every command it has passed waits for a token that has not retired;
  at its end all pending ones do, and the least of them, in stream order, contradicts well-tokenedness. For the global
  cap: the cycles spent are bounded by what the retired commands have paid plus the age of one of the commands in
  flight, and ages stay within the budget.

### SlugCXL endpoint and host
* `CxlHostProofs`: `ClientSafe` for `ClientInv` and from it `HeadSafe` (`WorksOnHead`). `WorksOnHead` alone does
  not survive a clock: whether the endpoint takes its FLIT again depends on the answer being on the wires exactly in the
  holding states, and what it answers on the array having settled once the FLIT's effect is visible. `EndpointServes`:
  the endpoint implements `GemmDevice`. The mapping (`asked`, `answered`) moves a FLIT from the device's requests to its
  answers at the clock the array does what it asks for, while the shim still holds it. `ClientAssumption` restricts
  clients to the FLITs the protocol has: an `M2SReq` the endpoint claims is a read, the only use `dispatch.rs` has of it.
* The host is a client, so the theorems above let its steps be reasoned about on the two queues of
  `GemmDevice` instead of the registers. `HostSafe` proves `HostInv`, which has two halves. A host that has never timed
  out is in step: nothing is under way but the FLIT it waits for or its answer, and the array's memories are those of
  the stream up to there. A host that has timed out is behind for good: before the answer to the first FLIT of a run
  comes one with another tag, so that the run ends there. `AnswerSafe` and `TimeoutSafe` are `RightAnswer` and
  `OnlyTimeoutsFail`. They assume `TagsFit`, that the runs of a host but its last use fewer FLITs than there are tags:
  2^16 of them suffice for 1338 runs of 4 x 4 products, and the run `cxl_host` satisfies it. It is sufficient and not
  necessary, but something is needed: a host that is behind keeps old tags in its queue, and tags that come round
  meet them. `ObserversPassive`: `ReplaySpec => Spec`, so both theorems hold with recorder and HJ pipeline on.
* The recorder: `RecordsSafe` proves `RecInv`, that a host in step has recorded the first records of its run, and that
  every artifact holds all of them. `RecordAt` gives them as a function of job, first tag and record mode alone, so
  latency and retried polls cannot show. `HostInv` is needed where an answer is recorded: the recorder sees it before
  the host looks at its tag, and only a host in step gets the right one. `RecordingsSafe` is `RecordingsAgree`. That
  `validate_equivalent` tells all other pairs apart needs that a captured payload tells its word in every mode: hashes
  are injective by assumption, and a delta capture (`ChangedBytes`) is by proof, for the words of load tokens
  (`BytesTell`, `LoadTells`); that it tells a spoilt copy needs more than one tag. `EndpointAssumption` has operands of
  one byte, `WireAssumption` a matrix of at most 16 x 16 and at least two tags, as in the code.

### Compiler
* `SlugPipelineProofs`: `PipelineSafe` for `PipelineInv` and from it `TopoIsSound`, `CompiledIsNeverStuck`,
  `LastPredecessorRetires`, `KernelsRunWhole`, `ReplaysRepeat`, `MatchIsMeant`, for every module, text and
  oracle. The argument goes pass by pass.
  - Order. `TurnInv` holds after every turn of Kahn's loop (`TopoFacts`, by induction over the turns): no op is in the
    sequence twice, an op comes after all of its predecessors, and an op whose predecessors have all been visited is in
    it. In the end either every op is in it (`TopoSorts`) or those that are missing depend on one another
    (`CycleFound`); so `TokenGraphCycle` is reported exactly for cycles.
  - Passes. `FuseKeeps`, `SelectKeeps` and `AssignKeeps`: each pass leaves a well-formed function. What a pass has
    established stays true to the end (`PassInv`).
  - Stream. The stream is the concatenation of the functions' dispatches (`EmitFacts`), each waiting for a token that an
    earlier command of its own function yields, so it is well-tokened although tokens restart with every function, and
    the theorems of the fabric apply: `PipelineInv` has `FabricInv` as a conjunct.
  - Kernels. `LowerFacts`: a lowered module has one op per instruction, no edges, and only ops every policy of the
    command line can bind, so that neither a cycle nor a missing binding can occur; the number of commands is the number
    of instructions.
  - Replay. A run without RTL commands takes the sum of the costs of those that have retired (`CpuRun`, `CostGrows`),
    in whatever order they retire, so that two complete runs of one stream take the same cycles.

### Type-2 guest and sweep
* `Type2Proofs`: `CarriedSafe` for `CarriedInv` and from it `PassSafe` (`PassMeansCarried`). What has to be shown is that
  no completion but the own one can be in the registers when the helper reads them, and the two reads of STATUS and
  RESULT make this a matter of the whole wait: from the write of CMD to RESULT the device has the own command or
  none. `AnswersSafe`: request by request the helper's memories are those of the stream up to there, so its answers are
  the right ones; with it `ValidatorSafe` (`ValidatorExact`), which needs that a sum of products computed modulo 2^24 in
  one place is the one computed as a whole in another, an induction over its terms. `SweepSafe` for `SweepInv`: what the
  summaries in the directories say of this sweep at each step of the script; with both, `EvidenceSafe` (`EvidenceSound`).

### Nested BSP barrier
* `NestedBspProofs`: `BspSafe` for `BspInv` and from it `HealthySafe` (`HealthyPasses`) and `ReleaseSafe`
  (`NoFalseRelease`), for any number of tiles, blocks and supersteps. `BspInv` says for each place in the loops how far
  memory is what it should be: outputs before `at` are written and right (`DataInv`), leaf certificates before `at` are
  those of these outputs but for the injected fault (`LeafInv`), the certificates collected are those of the group being
  read (`ChildrenInv`), the groups before have their parent (`ParentInv`). The injected fault does not get past the read
  of its leaf (`CaughtInv`). That the release of a failed epoch is never found in the log is `ReleaseInv`; that the
  seed is the oracle's needs that `serial_oracle`, a recursive function, satisfies its equation (`OracleSteps`).
* `CountSafe` for `CountInv`, which rests on `BspInv`. `CountInv` says what
  has been counted when the host is at a given place: the metrics of the barrier in work (`MetricsInv`), the output
  writes of both attempts (`WritesInv`), and that the log of this superstep has exactly as many outputs, reads by level
  and mismatches, the reads of the barrier that raised included (`LogInv`). A second attempt exists only for the injected
  fault (`FaultInv`); a finished superstep keeps its counts because its entries of the log no longer change (`PastInv`).
  `BspInv` is needed where a read is accepted only if it is the expected one, and where no fault gets past the release.
* `EvidenceSafe` for `EvidenceInv`, which rests on both: every output in the log is the one of its tile and block in its
  superstep (`PayloadInv`); the retry redoes the group of the injected fault, and what has been recorded of it says so
  (`RetryInv`); a finished superstep has the reduction and the outputs of the oracle and keeps its evidence
  (`PastEvidence`). From `CountInv` and `EvidenceInv` follows `ValidateSafe` (`PassValidates`).

### Induction over data
The library's induction theorems take an operator as a parameter, which the provers cannot instantiate. `DataLemmas` goes
around this with sets: a set of numbers that has 0 and is closed under successor has all of them (`SetInduction`, from
the well-foundedness of < and `WFMin`), the same up to a bound (`BoundedInduction`), a function on 0..n exists with a
given first value and step (`Recursion`), and partial sums are naturals (`Summation`). A recursive function of a
model is then the `CHOOSE` of such a function, and what it computes follows by `BoundedInduction`.

Theorems without a property (`TypeCorrect`, `TimerSafe`, `FabricSafe`, `PipelineSafe`, `BspSafe`, `CountSafe`,
`EvidenceSafe` of `NestedBspProofs`, ...) are the inductive invariants and what follows from them that no run of the
project repeats. The invariants have been checked with TLC on the instances of the runs before they were proved.

### Only model-checked
* Liveness under fairness, which is beyond the prover: `JobEnds`, `FabricEnds`, `RunEnds`, `SweepEnds`.
* `HjSeesTrace`: it compares sums over the records of all runs of a host with the registers of the pipeline, clock by
  clock; `RecInv` covers the recorder, an invariant of both observers at once is missing.
* `ScheduleAgrees`: the oracle sorts the jobs and adds up the link; that timers fire in this order is an induction over
  the sorted sequence and over the clock steps.

## 5. Plan

Done, in this order: endpoint gate; fabric and its proofs; compiler; SlugCXL endpoint and host; BSP barrier; campaign;
PTX frontend, validator and execution record; wire codec, recorder and HJ pipeline; guest helper and sweep.

Next modules:
1. splash-type2: `transport.py`, the recorder and phases of `campaign.py`, `replay.py` against `validate.py`.
2. Zettai hot-plug order on the `Realize` and `Unplug` of `SlugEndpoint`.

Next theorems: what the HJ pipeline counts (bytes, stalls, drops), a part of `HjSeesTrace` without folds; the firing order
of `ScheduleAgrees`.
