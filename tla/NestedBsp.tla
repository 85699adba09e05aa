----------------------------- MODULE NestedBsp -----------------------------
(***************************************************************************)
(* The replay-checked nested BSP barrier, targets/splash-bsp/experiment.py *)
(* run_cell, Barrier and validate: a host that computes the outputs of all *)
(* tiles, publishes them and their certificates in device memory, reads    *)
(* the certificates back and releases a superstep only when each is the    *)
(* expected one; after an injected fault it redoes the group concerned.    *)
(*                                                                         *)
(* The host is one thread of nested loops, modelled by the operation it    *)
(* does next; a raised error ends the cell or starts the retry.            *)
(*                                                                         *)
(* Abstractions.  A SHA-256 digest is what it digests, in a certificate   *)
(* with one bit that a corruption flips.  An output block is one word      *)
(* modulo Modulus for its eight lanes modulo 2^64.  The devices are QEMU   *)
(* objects outside this repository: memory that a read may return          *)
(* falsified, and a command that may fail, when Flaky says so.             *)
(***************************************************************************)
EXTENDS Integers, Sequences, SequencesExt, FiniteSetsExt

CONSTANTS
  Cells,      \* cells of the experiment's matrix
  Steps,      \* args.steps
  Modulus,    \* MASK64 + 1
  Flaky       \* may a device fail?

Mode == {"event", "tile", "nested2", "nested4"}
FAULTS == {"missing_record", "stale_epoch", "wrong_tile", "corrupt_digest"}
None == "none"

ASSUME BspAssumption ==
  /\ Cells \subseteq [devices : Nat \ {0}, blocks : Nat \ {0}, mode : Mode,
                      fault : FAULTS \cup {None}]
  /\ Steps \in Nat \ {0} /\ Modulus \in Nat \ {0} /\ Flaky \in BOOLEAN

VARIABLES
  cell, status, why,       \* the cell, its result, and why it failed
  epoch, seed,
  at,                      \* the operation that is next
  attempt,                 \* 1, or 2 after a caught fault
  values,                  \* outputs received, by tile and block, or NoWord
  children,                \* certificates read for the parent in work
  metrics,                 \* of the barrier in work
  data_writes,
  initial, fault,          \* of the step in work: initial_output_writes, fault,
  retry_tiles, preserved,  \* retry_tiles and preserved_blocks_checked
  output, leaf, group,     \* device memory
  events, steps,           \* events.jsonl, and result["steps"]
  broken                   \* history: has a device failed?

retryVars == <<attempt, fault, retry_tiles>>
stepVars == <<epoch, seed, retryVars, initial, preserved, steps>>
deviceVars == <<output, leaf, group>>
vars == <<cell, status, why, at, stepVars, values, children, metrics, data_writes,
          deviceVars, events, broken>>

(***************************************************************************)
(* Tiles, groups and outputs                                               *)
(***************************************************************************)
Tiles == 0..cell.devices - 1
Blocks == 0..cell.blocks - 1
Target == cell.devices - 1
Nested == cell.mode \in {"nested2", "nested4"}

GroupSize == CASE cell.mode = "nested2" -> 2
               [] cell.mode = "nested4" -> 4
               [] OTHER -> cell.devices
\* groups_for: runs of GroupSize tiles, of which the last may be shorter.
GroupOf(t) == t \div GroupSize
GroupCount == GroupOf(Target) + 1
Groups == 0..GroupCount - 1
FirstOf(g) == g * GroupSize
LastOf(g) == IF g = GroupOf(Target) THEN Target ELSE FirstOf(g) + GroupSize - 1
SizeOf(g) == LastOf(g) - FirstOf(g) + 1
Members(g) == FirstOf(g)..LastOf(g)
Representative(g) == FirstOf(g) + (epoch % SizeOf(g))

\* Mutant: redoes the faulty tile only.
FromTarget == Target

\* The first tile that a retry redoes: those of the target's group.
RetryFrom == FirstOf(GroupOf(Target))

output_bytes(s, e, tile, block) == (s * 3 + (e + 1) * 1009 + tile * 131 + block * 17) % Modulus
Outcome(s, e) == [t \in Tiles |-> [b \in Blocks |-> output_bytes(s, e, t, b)]]
Total(term, count) ==
  LET sum[n \in 0..count] == IF n = 0 THEN 0 ELSE sum[n - 1] + term[n - 1] IN sum[count]
Reduce(f) == Total([t \in Tiles |-> Total(f[t], cell.blocks)], cell.devices) % Modulus

\* serial_oracle: the seed after each superstep, computed without devices.
serial_oracle ==
  LET after[e \in 0..Steps] == IF e = 0 THEN 7 ELSE Reduce(Outcome(after[e - 1], e - 1))
  IN  after

(***************************************************************************)
(* Certificates                                                            *)
(***************************************************************************)
MAGIC == "SBSP"
Digest(hashes) == [of |-> hashes, flipped |-> FALSE]
certificate(e, kind, owner, members, hashes, count) ==
  [magic |-> MAGIC, epoch |-> e, kind |-> kind, owner |-> owner, members |-> members,
   digest |-> Digest(hashes), count |-> count]
NoCert == certificate(-1, -1, -1, {}, <<>>, 0)

corrupt(cert, f) ==
  CASE f = "missing_record" -> [cert EXCEPT !.count = @ - 1]
    [] f = "stale_epoch" -> [cert EXCEPT !.epoch = @ - 1]
    [] f = "wrong_tile" -> [cert EXCEPT !.owner = @ + 1]
    [] f = "corrupt_digest" -> [cert EXCEPT !.digest.flipped = ~@]

Fields(c) == <<c.magic, c.epoch, c.kind, c.owner, c.members, c.digest, c.count>>
FieldFault == <<"bad_magic", "stale_epoch", "wrong_kind", "wrong_tile", "wrong_membership",
                "corrupt_digest", "missing_record">>
Differing(actual, expected) == {i \in 1..7 : Fields(actual)[i] # Fields(expected)[i]}

\* Mutant: does not look at the number of records.
CheckAllButCount(actual, expected) ==
  LET differing == Differing(actual, expected) \ {7}
  IN  IF differing = {} THEN None ELSE FieldFault[Min(differing)]

\* Mutant: blames the certificate's owner for a stale epoch.
CheckOwnerFirst(actual, expected) ==
  LET differing == Differing(actual, expected)
  IN  IF differing = {} THEN None
      ELSE IF differing \subseteq {2, 4} THEN "wrong_tile" ELSE FieldFault[Min(differing)]

\* What is wrong with a certificate: the first field that differs.
check_certificate(actual, expected) ==
  LET differing == Differing(actual, expected)
  IN  IF differing = {} THEN None ELSE FieldFault[Min(differing)]

\* event mode certifies every block, the others every tile.
Indices == IF cell.mode = "event" THEN cell.blocks ELSE 1
Hashes(tile) == [i \in 1..cell.blocks |-> values[tile][i - 1]]
LeafCert(tile, index) ==
  IF cell.mode = "event"
  THEN certificate(epoch, 0, tile, {tile}, <<values[tile][index]>>, 1)
  ELSE certificate(epoch, 1, tile, {tile}, Hashes(tile), cell.blocks)
ParentCert(g, certs) ==
  certificate(epoch, 2, Representative(g), Members(g), certs,
              cell.blocks * SizeOf(g))

(***************************************************************************)
(* The loops                                                               *)
(***************************************************************************)
Do(op, tile, index) == [op |-> op, tile |-> tile, index |-> index]

\* The next turn of a loop up to tile last with count indices each.
Loop(last, count, then) ==
  CASE at.index + 1 < count -> Do(at.op, at.tile, at.index + 1)
    [] at.index + 1 >= count /\ at.tile < last -> Do(at.op, at.tile + 1, 0)
    [] OTHER -> then

\* work, the sibling check and Barrier.execute, whose members are read group by
\* group if it is nested.
After ==
  CASE at.op = "output" ->
         Loop(Target, cell.blocks,
              IF attempt = 2 /\ RetryFrom > 0 THEN Do("sibling", 0, 0) ELSE Do("barrier", 0, 0))
    [] at.op = "sibling" -> Loop(RetryFrom - 1, cell.blocks, Do("barrier", 0, 0))
    [] at.op = "barrier" -> Do("put_leaf", 0, 0)
    [] at.op = "put_leaf" -> Loop(Target, Indices, Do("read_leaf", 0, 0))
    [] at.op = "read_leaf" ->
         IF Nested /\ at.tile = LastOf(GroupOf(at.tile))
         THEN Do("put_parent", GroupOf(at.tile), 0)
         ELSE Loop(Target, Indices, Do("release", 0, 0))
    [] at.op = "put_parent" ->
         IF LastOf(at.tile) < Target THEN Do("read_leaf", LastOf(at.tile) + 1, 0)
         ELSE Do("read_parent", 0, 0)
    [] at.op = "read_parent" -> Loop(GroupCount - 1, 1, Do("release", 0, 0))
    [] OTHER -> Do("reduce", 0, 0)

FirstAttempt == Do("output", 0, 0)
Retry == Do("output", RetryFrom, 0)

(***************************************************************************)
(* The host                                                                *)
(***************************************************************************)
NoMetrics == [root_reads |-> 0, group_reads |-> 0, certificate_writes |-> 0,
              certificate_bytes_read |-> 0, certificate_bytes_written |-> 0, released |-> FALSE]
NoFault == [fault |-> None, tile |-> 0, epoch |-> 0, completion_only_would_release |-> FALSE,
            replay_barrier_released |-> FALSE, attempted_barrier |-> NoMetrics]
NoWord == -1
NoValues == [t \in Tiles |-> [b \in Blocks |-> NoWord]]

\* The fault the barrier in work injects.
Injected == IF epoch = 1 /\ attempt = 1 THEN cell.fault ELSE None

\* payload: the output received; ok: is the certificate read the expected one?
Event(action, tile, block, payload, ok) ==
  [action |-> action, epoch |-> epoch, tile |-> tile, block |-> block,
   retry |-> attempt = 2, payload |-> payload, ok |-> ok]
Log(event) == events' = Append(events, event)

ReadWord(w) == {w} \cup (IF Flaky THEN {(w + 1) % Modulus} ELSE {})
Falsified(c) ==
  {corrupt(c, f) : f \in FAULTS}
  \cup {[c EXCEPT !.magic = None], [c EXCEPT !.kind = @ + 1], [c EXCEPT !.members = {}]}
ReadCert(c) == {c} \cup (IF Flaky THEN Falsified(c) ELSE {})

Ready(op) == status = "running" /\ at.op = op
Advance == at' = After /\ UNCHANGED <<status, why>>
Abort(reason) == status' = "fail" /\ why' = reason /\ UNCHANGED at

\* work: one block of one tile.
Output ==
  LET t == at.tile
      b == at.index
      data == output_bytes(seed, epoch, t, b)
      missing == /\ cell.fault = "missing_record" /\ epoch = 1 /\ attempt = 1
                 /\ t = Target /\ b = cell.blocks - 1
  IN  /\ Ready("output")
      /\ output' = [output EXCEPT ![t][b] = data]
      /\ \E received \in ReadWord(data) :
           /\ broken' = (broken \/ received # data)
           /\ IF received # data
              THEN Abort("output mismatch") /\ UNCHANGED <<values, data_writes, events>>
              ELSE /\ values' = [values EXCEPT ![t][b] = received]
                   /\ data_writes' = data_writes + 1
                   /\ Log(Event(IF missing THEN "record_missing" ELSE "output_record", t, b,
                             received, TRUE))
                   /\ Advance
      /\ UNCHANGED <<cell, stepVars, children, metrics, leaf, group>>

Received(tiles) == {x \in tiles \X Blocks : values[x[1]][x[2]] # NoWord}

\* Barrier.__init__, and what the step's entry gets before it.
StartBarrier ==
  /\ Ready("barrier")
  /\ metrics' = NoMetrics
  /\ children' = <<>>
  /\ IF attempt = 1
     THEN initial' = data_writes /\ UNCHANGED preserved
     ELSE preserved' = Cardinality(Received(Tiles \ retry_tiles)) /\ UNCHANGED initial
  /\ Advance
  /\ UNCHANGED <<cell, epoch, seed, retryVars, steps, values, data_writes, deviceVars, events,
                 broken>>

\* Barrier.put and Barrier.get count the certificates and their bytes.
CertBytes == 64
WriteCounted(m) ==
  [m EXCEPT !.certificate_writes = @ + 1, !.certificate_bytes_written = @ + CertBytes]
ReadCounted(m, role) ==
  IF role = "read_root"
  THEN [m EXCEPT !.root_reads = @ + 1, !.certificate_bytes_read = @ + CertBytes]
  ELSE [m EXCEPT !.group_reads = @ + 1, !.certificate_bytes_read = @ + CertBytes]

PutLeaf ==
  LET t == at.tile
      i == at.index
      expected == LeafCert(t, i)
      last == t = Target /\ i = Indices - 1
  IN  /\ Ready("put_leaf")
      /\ leaf' = [leaf EXCEPT ![t][i] =
                    IF Injected # None /\ last THEN corrupt(expected, Injected) ELSE expected]
      /\ metrics' = WriteCounted(metrics)
      /\ Log(Event("certificate_write", t, i, 0, TRUE))
      /\ Advance
      /\ UNCHANGED <<cell, stepVars, values, children, data_writes, output, group, broken>>

Released == \E n \in DOMAIN events : events[n].action = "release" /\ events[n].epoch = epoch

\* The except branch of run_cell: only the injected fault, at its tile, once.
Recover(tile, name, seen) ==
  CASE attempt = 2 -> Abort("barrier") /\ UNCHANGED retryVars
    [] attempt = 1 /\ (name # Injected \/ tile # Target) ->
         Abort("misattributed") /\ UNCHANGED retryVars
    [] attempt = 1 /\ name = Injected /\ tile = Target /\ Released ->
         Abort("failed epoch was released") /\ UNCHANGED retryVars
    [] OTHER ->
         IF seen # values[Target][cell.blocks - 1]
         THEN Abort("lost evidence") /\ UNCHANGED retryVars
         ELSE /\ attempt' = 2
              /\ fault' = [fault |-> name, tile |-> tile, epoch |-> epoch,
                           completion_only_would_release |->
                             Cardinality(Received(Tiles)) = cell.devices * cell.blocks,
                           replay_barrier_released |-> FALSE,
                           attempted_barrier |-> metrics']
              /\ retry_tiles' = RetryFrom..Target
              /\ at' = Retry
              /\ UNCHANGED <<status, why>>

\* Barrier.get, and what follows when it raises.
Get(stored, expected, role, owner) ==
  \E actual \in ReadCert(stored) : \E seen \in ReadWord(output[Target][cell.blocks - 1]) :
    LET name == check_certificate(actual, expected)
    IN  /\ name = None => seen = output[Target][cell.blocks - 1]
        /\ broken' = (broken \/ actual # stored \/ seen # output[Target][cell.blocks - 1])
        /\ metrics' = ReadCounted(metrics, role)
        /\ Log(Event(role, owner, 0, 0, actual = expected))
        /\ IF name = None
           THEN /\ children' = IF role = "read_group" THEN Append(children, actual) ELSE children
                /\ Advance
                /\ UNCHANGED retryVars
           ELSE Recover(owner, name, seen) /\ UNCHANGED children
        /\ UNCHANGED <<cell, epoch, seed, initial, preserved, steps, values, data_writes,
                       deviceVars>>

ReadLeaf ==
  LET t == at.tile
      i == at.index
  IN  /\ Ready("read_leaf")
      /\ Get(leaf[t][i], LeafCert(t, i), IF Nested THEN "read_group" ELSE "read_root", t)

PutParent ==
  LET g == at.tile
  IN  /\ Ready("put_parent")
      /\ group' = [group EXCEPT ![Representative(g)] = ParentCert(g, children)]
      /\ children' = <<>>
      /\ metrics' = WriteCounted(metrics)
      /\ Log(Event("certificate_write", Representative(g), 0, 0, TRUE))
      /\ Advance
      /\ UNCHANGED <<cell, stepVars, values, data_writes, output, leaf, broken>>

Children(g) == [i \in 1..SizeOf(g) |-> LeafCert(FirstOf(g) + i - 1, 0)]

ReadParent ==
  LET g == at.tile
      r == Representative(g)
  IN  /\ Ready("read_parent")
      /\ Get(group[r], ParentCert(g, Children(g)), "read_root", r)

Release ==
  /\ Ready("release")
  /\ metrics' = [metrics EXCEPT !.released = TRUE]
  /\ Log(Event("release", epoch % cell.devices, 0, 0, TRUE))
  /\ IF Injected # None THEN Abort("silently accepted") ELSE Advance
  /\ UNCHANGED <<cell, stepVars, values, children, data_writes, deviceVars, broken>>

\* After a retry: the outputs of the other groups are still what they were.
Sibling ==
  LET t == at.tile
      b == at.index
  IN  /\ Ready("sibling")
      /\ \E seen \in ReadWord(output[t][b]) :
           /\ broken' = (broken \/ seen # output[t][b])
           /\ IF seen # values[t][b] THEN Abort("sibling changed") ELSE Advance
      /\ UNCHANGED <<cell, stepVars, values, children, metrics, data_writes, deviceVars, events>>

\* The end of a superstep: the next seed, the oracle, the step's entry. The next
\* one starts with nothing received.
ReduceStep ==
  LET reduction == Reduce(values)
      step == [epoch |-> epoch, initial_output_writes |-> initial, barrier |-> metrics,
               fault |-> fault, retry_tiles |-> retry_tiles,
               preserved_blocks_checked |-> preserved, output_sha256 |-> values,
               reduction |-> reduction, retry_output_writes |-> data_writes - initial]
  IN  /\ Ready("reduce")
      /\ IF values # Outcome(serial_oracle[epoch], epoch) \/ reduction # serial_oracle[epoch + 1]
         THEN Abort("oracle disagrees") /\ UNCHANGED <<stepVars, values, data_writes>>
         ELSE /\ steps' = Append(steps, step)
              /\ seed' = reduction
              /\ epoch' = epoch + 1
              /\ attempt' = 1 /\ fault' = NoFault /\ retry_tiles' = {}
              /\ initial' = 0 /\ preserved' = 0 /\ values' = NoValues /\ data_writes' = 0
              /\ IF epoch + 1 = Steps
                 THEN status' = "pass" /\ UNCHANGED <<why, at>>
                 ELSE at' = FirstAttempt /\ UNCHANGED <<status, why>>
      /\ UNCHANGED <<cell, children, metrics, deviceVars, events, broken>>

\* Device.command raises when the device reports an error.
CommandError ==
  /\ Flaky /\ status = "running"
  /\ at.op \in {"output", "put_leaf", "read_leaf", "put_parent", "read_parent", "sibling"}
  /\ Abort("command")
  /\ broken' = TRUE
  /\ UNCHANGED <<cell, stepVars, values, children, metrics, data_writes, deviceVars, events>>

Init ==
  /\ cell \in Cells
  /\ status = "running" /\ why = None
  /\ epoch = 0 /\ seed = 7 /\ attempt = 1 /\ fault = NoFault /\ retry_tiles = {}
  /\ initial = 0 /\ preserved = 0 /\ steps = <<>>
  /\ values = NoValues /\ children = <<>>
  /\ metrics = NoMetrics /\ data_writes = 0
  /\ output = [t \in Tiles |-> [b \in Blocks |-> 0]]
  /\ leaf = [t \in Tiles |-> [b \in Blocks |-> NoCert]]
  /\ group = [t \in Tiles |-> NoCert]
  /\ events = <<>> /\ broken = FALSE
  /\ at = FirstAttempt

Next ==
  \/ Output \/ StartBarrier \/ PutLeaf \/ ReadLeaf \/ PutParent \/ ReadParent
  \/ Release \/ Sibling \/ ReduceStep \/ CommandError

Spec == Init /\ [][Next]_vars

\* One thread of a Python program that waits for nobody.
FairSpec == Spec /\ WF_vars(Next)

(***************************************************************************)
(* validate: the offline check of a recorded cell                          *)
(***************************************************************************)
ExpectedRoot == CASE cell.mode = "event" -> cell.devices * cell.blocks
                  [] cell.mode = "tile" -> cell.devices
                  [] OTHER -> GroupCount
ExpectedGroup == IF Nested THEN cell.devices ELSE 0
Outputs == {"output_record", "record_missing"}

\* The entries of events.jsonl of one superstep, by their place in the file.
Entries(e) == {n \in DOMAIN events : events[n].epoch = e}
Doing(e, actions) == {n \in Entries(e) : events[n].action \in actions}
Mismatches(e) == {n \in Entries(e) : ~events[n].ok}
Originals(e) ==
  {<<events[n].tile, events[n].block>> : n \in {m \in Doing(e, Outputs) : ~events[m].retry}}

\* The seed of a superstep, from the recorded reduction of the one before.
SeedOf(e) == IF e = 0 THEN 7 ELSE steps[e].reduction

Counters(root, grouped, writes, released) ==
  [root_reads |-> root, group_reads |-> grouped, certificate_writes |-> writes,
   certificate_bytes_read |-> CertBytes * (root + grouped),
   certificate_bytes_written |-> CertBytes * writes, released |-> released]
Retries(e) ==
  IF cell.fault # None /\ e = 1 THEN SizeOf(GroupOf(Target)) * cell.blocks ELSE 0

\* The counters of the barrier against those of the mode, and the log against both.
ValidCounts(step) ==
  LET e == step.epoch
  IN  /\ step.barrier = Counters(ExpectedRoot, ExpectedGroup, ExpectedRoot + ExpectedGroup, TRUE)
      /\ Cardinality(Doing(e, {"release"})) = 1
      /\ cell.fault # None /\ e = 1 => Cardinality(Mismatches(e)) = 1
      /\ Cardinality(Doing(e, Outputs)) = cell.devices * cell.blocks + Retries(e)
      /\ Cardinality(Originals(e)) = cell.devices * cell.blocks
      /\ Cardinality(Doing(e, {"read_root"})) =
           step.barrier.root_reads + step.fault.attempted_barrier.root_reads
      /\ Cardinality(Doing(e, {"read_group"})) =
           step.barrier.group_reads + step.fault.attempted_barrier.group_reads
      /\ \A n \in Doing(e, {"release"}), m \in Entries(e) : m <= n

\* What was computed and redone: outputs, payloads, the fault and its retry.
ValidEvidence(step) ==
  LET e == step.epoch
  IN  /\ step.reduction = serial_oracle[e + 1]
      /\ step.output_sha256 = Outcome(serial_oracle[e], e)
      /\ \A n \in Doing(e, Outputs) :
           events[n].payload = output_bytes(SeedOf(e), e, events[n].tile, events[n].block)
      /\ cell.fault # None /\ e = 1 =>
           /\ step.fault.fault = cell.fault /\ step.fault.tile = Target /\ step.fault.epoch = e
           /\ ~step.fault.replay_barrier_released /\ step.fault.completion_only_would_release
           /\ step.retry_tiles = Members(GroupOf(Target))
           /\ step.preserved_blocks_checked =
                (cell.devices - SizeOf(GroupOf(Target))) * cell.blocks
      /\ step.retry_output_writes = Retries(e)
      /\ step.initial_output_writes = cell.devices * cell.blocks

ValidStep(step) == ValidCounts(step) /\ ValidEvidence(step)

validate ==
  Len(steps) = Steps /\ \A n \in DOMAIN steps : steps[n].epoch = n - 1 /\ ValidStep(steps[n])

(***************************************************************************)
(* Properties                                                              *)
(***************************************************************************)
\* The last event is the release of this superstep.
JustReleased == events # <<>> /\ Last(events).action = "release" /\ Last(events).epoch = epoch

\* When a superstep is released, and the release stands, device memory holds the
\* outputs of every tile and exactly the certificates of these outputs, of this
\* epoch and no earlier one: no stale and no corrupted certificate gets past the
\* barrier, at whatever level of the hierarchy.
NoFalseRelease ==
  JustReleased /\ (~broken \/ status = "running") =>
    /\ output = values
    /\ \A t \in Tiles, i \in 0..Indices - 1 : leaf[t][i] = LeafCert(t, i)
    /\ Nested => \A g \in Groups : group[Representative(g)] = ParentCert(g, Children(g))

\* As long as the devices work, no cell fails: an injected fault is caught,
\* blamed on its tile and its kind, and repaired by one retry of its group.
HealthyPasses == ~broken => status # "fail"

\* Every cell that passes is accepted by the offline validator, also when a
\* device returned wrong data on the way.
PassValidates == status = "pass" => validate

(***************************************************************************)
(* The inductive invariant                                                 *)
(***************************************************************************)
Action == Outputs \cup {"certificate_write", "read_root", "read_group", "release"}
EventRecord == [action : Action, epoch : Nat, tile : Nat, block : Nat, retry : BOOLEAN,
                payload : Nat, ok : BOOLEAN]
IsMatrix(m) == m = [t \in Tiles |-> [b \in Blocks |-> m[t][b]]]

TypeInv ==
  /\ cell \in Cells /\ status \in {"running", "pass", "fail"} /\ broken \in BOOLEAN
  /\ epoch \in 0..Steps /\ attempt \in {1, 2} /\ events \in Seq(EventRecord)
  /\ IsMatrix(values) /\ IsMatrix(output) /\ IsMatrix(leaf)
  /\ group = [t \in Tiles |-> group[t]]

\* Where the host is.
Single(op) == {Do(op, 0, 0)}
Turns(op, tiles, indices) == {Do(op, t, i) : t \in tiles, i \in indices}
AtInv ==
  \/ at \in Turns("output", Tiles, Blocks)
  \/ attempt = 2 /\ at \in Turns("sibling", 0..RetryFrom - 1, Blocks)
  \/ at \in Single("barrier") \cup Single("release") \cup Single("reduce")
  \/ at \in Turns("put_leaf", Tiles, 0..Indices - 1) \cup Turns("read_leaf", Tiles, 0..Indices - 1)
  \/ Nested /\ at \in Turns("put_parent", Groups, {0}) \cup Turns("read_parent", Groups, {0})

\* Turns of the loop in work that are over.
Over(t, i) == t < at.tile \/ (t = at.tile /\ i < at.index)

\* What the host has received is what the devices hold, and right.
DataInv ==
  \A t \in Tiles, b \in Blocks :
    (at.op = "output" /\ attempt = 1 => Over(t, b)) =>
       output[t][b] = values[t][b] /\ values[t][b] = output_bytes(seed, epoch, t, b)

\* The leaf certificates are those of these outputs but for the injected fault.
Reading == {"read_leaf", "put_parent", "read_parent", "release", "reduce"}
Faulty(t, i) == Injected # None /\ t = Target /\ i = Indices - 1
Published(t, i) == IF Faulty(t, i) THEN corrupt(LeafCert(t, i), Injected) ELSE LeafCert(t, i)
LeafInv ==
  \A t \in Tiles, i \in 0..Indices - 1 :
    at.op \in Reading \/ (at.op = "put_leaf" /\ Over(t, i)) => leaf[t][i] = Published(t, i)

\* Children collects one group's certificates, and the groups before have theirs.
Collected(g, count) == [i \in 1..count |-> LeafCert(FirstOf(g) + i - 1, 0)]
ChildrenInv ==
  Nested =>
    /\ at.op \in {"put_leaf", "read_parent"} => children = <<>>
    /\ at.op = "read_leaf" =>
         children = Collected(GroupOf(at.tile), at.tile - FirstOf(GroupOf(at.tile)))
    /\ at.op = "put_parent" => children = Children(at.tile)
Grouped(g) ==
  /\ at.op \in Reading
  /\ at.op = "read_leaf" => g < GroupOf(at.tile)
  /\ at.op = "put_parent" => g < at.tile
ParentInv ==
  Nested => \A g \in Groups :
              Grouped(g) => group[Representative(g)] = ParentCert(g, Children(g))

\* While the devices work, an injected fault does not get past the read of its
\* leaf; no injected fault gets past the release.
CaughtInv ==
  /\ ~broken /\ Injected # None =>
       \/ at.op \in {"output", "barrier", "put_leaf", "read_leaf"}
       \/ at.op = "put_parent" /\ at.tile < GroupOf(Target)
  /\ at.op = "reduce" => Injected = None

\* The releases recorded are of earlier supersteps, but for the one just done.
ReleaseInv ==
  \A n \in DOMAIN events :
    /\ events[n].epoch <= epoch
    /\ status = "running" /\ events[n].action = "release" /\ events[n].epoch = epoch =>
         at.op = "reduce"
    /\ status = "pass" => events[n].epoch < epoch

RunInv == epoch < Steps /\ seed = serial_oracle[epoch] /\ AtInv /\ DataInv /\ LeafInv /\ ChildrenInv
          /\ ParentInv /\ CaughtInv

BspInv == TypeInv /\ ReleaseInv /\ HealthyPasses /\ (status = "running" => RunInv)
=============================================================================
