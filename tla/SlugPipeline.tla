---------------------------- MODULE SlugPipeline ----------------------------
(***************************************************************************)
(* From a PTX text, or a module built by hand as the tests do, to a        *)
(* finished run: lower, fuse, select, assign, then validate against an     *)
(* oracle or emit and run on the fabric, record and replay, as lower(),    *)
(* run(), validate() and replay() of crates/slugarch-cli/src/main.rs chain *)
(* them.  lower() is deterministic, so one module serves the commands that *)
(* a user gives for one kernel after one another.                          *)
(***************************************************************************)
EXTENDS PtxFrontend, TokenFabric

CONSTANTS
  Work          \* what a user may ask for, see WorkType

\* text: the PTX text that parse_ptx returned, if it is a PTX text that was
\* given; built: the module built by hand otherwise.  oracle: at most one
\* oracle and its hints.  record: is the run recorded?
WorkFields == {"kind", "text", "built", "policy", "oracle", "record"}

Catalog == {"SystolicArray4x4", "SystolicArray16x16", "SystolicArray32x32", "NpuArrayV4SeedG",
            "NpuClusterV4", "NoCMesh", "GemmIp", "PtxEmulationCore"}
IsText(text) ==
  /\ Len(text) \in Nat /\ text = [n \in 1..Len(text) |-> text[n]]
  /\ \A n \in 1..Len(text) :
       LET body == text[n].body
           insts == collect_instructions(body)
       IN  body \in Seq(Statements) /\ \A m \in DOMAIN insts : insts[m].kind = "Instruction"
IsModule(m) ==
  Len(m) \in Nat /\ m = [k \in 1..Len(m) |-> m[k]] /\ \A k \in 1..Len(m) : WellFormed(m[k])
IsOracle(rtlmap) ==
  /\ \A n \in rtlmap.nodes : n = <<n[1], n[2]>>
  /\ \A e \in rtlmap.edges : e = <<e[1], e[2], e[3]>>

\* The command line compiles PTX texts for the emulation core, the tests under
\* DefaultPolicy as well.
ASSUME WorkAssumption ==
  /\ Rtl \cup Cpu = Catalog
  /\ \A w \in Work :
       /\ DOMAIN w = WorkFields /\ w.kind \in {"ptx", "malformed", "built"}
       /\ w.policy \in Catalog \cup {"SlugCxl4x4", "default_v1"}
       /\ w.kind = "ptx" => w.policy \in {"PtxEmulationCore", "default_v1"}
       /\ IsText(w.text) /\ IsModule(w.built) /\ w.record \in BOOLEAN
       /\ \A k \in DOMAIN w.built : w.built[k].order \in Seq(DOMAIN w.built[k].ops)
       /\ w.oracle # <<>> => w.oracle = <<w.oracle[1]>> /\ IsOracle(w.oracle[1])

VARIABLES
  stage,        \* "text", "built", "fused", "selected", "assigned", "emitted",
                \* "recorded", "replayed" or an error
  work,         \* what was asked for
  source,       \* the module as built
  module,       \* the module as the passes have left it
  verdict,      \* of the validator
  artifact      \* what a recorded run has left: at most one artifact

irVars == <<stage, work, source, module, verdict, artifact>>
vars == <<irVars, fabricVars>>
policy == work.policy

Goes(from, to) == stage = from /\ stage' = to

Lower ==
  /\ work.kind = "ptx"
  /\ Goes("text", "built")
  /\ source' = lower_to_slugir(work.text)
  /\ module' = source'
  /\ UNCHANGED <<work, verdict, artifact, fabricVars>>

\* A pass rewrites every function of the module.
Pass(from, to, rewritten) ==
  /\ Goes(from, to)
  /\ module' = rewritten
  /\ UNCHANGED <<work, source, verdict, artifact, fabricVars>>

Fuse == Pass("built", "fused", [k \in DOMAIN module |-> FuseMlpChain(module[k])])

Select ==
  Pass("fused", "selected", [k \in DOMAIN module |-> SelectBackend(module[k], policy)])

Assign ==
  /\ \A k \in DOMAIN module : ~HasCycle(module[k])
  /\ Pass("selected", "assigned", [k \in DOMAIN module |-> AssignTokens(module[k])])

Fails(from, error) ==
  /\ Goes(from, error)
  /\ UNCHANGED <<work, source, module, verdict, artifact, fabricVars>>

ParseFails == work.kind = "malformed" /\ Fails("text", "ParseError")

AssignFails ==
  /\ \E k \in DOMAIN module : HasCycle(module[k])
  /\ Fails("selected", "TokenGraphCycle")

\* validate(): the first function against the oracle.
Validate ==
  /\ stage = "assigned" /\ verdict = "none" /\ work.oracle # <<>>
  /\ LET rtlmap == work.oracle[1]
         op_to_node == OpToNode(module[1], rtlmap.hints)
     IN  IF module = <<>> THEN verdict' = "NoFunctions"
         ELSE \E node_to_op \in NodeToOps(op_to_node) :
                verdict' = IF Matches(module[1], rtlmap, op_to_node, node_to_op)
                           THEN "match" ELSE "OracleMismatch"
  /\ UNCHANGED <<stage, work, source, module, artifact, fabricVars>>

Emit ==
  /\ Goes("assigned", "emitted")
  /\ \A k \in DOMAIN module : ~BindError(module[k])
  /\ Run(emit_dispatches(module, policy))
  /\ UNCHANGED <<work, source, module, verdict, artifact>>

EmitFails ==
  /\ Fails("assigned", "NoBindingForChoice")
  /\ \E k \in DOMAIN module : BindError(module[k])

\* Mutant: the tokens an op waits for are not saved.
LosesTokens ==
  [slugir |-> [k \in DOMAIN module |->
                 [module[k] EXCEPT !.meta =
                    [id \in DOMAIN @ |-> [@[id] EXCEPT !.token_in = NoToken]]]],
   policy_name |-> policy]

\* ReplayArtifact::from_module, through bincode and back.
FromModule == [slugir |-> module, policy_name |-> policy]

\* run(): the artifact is written once the fabric is done and only if it is ok.
Record ==
  /\ Goes("emitted", "recorded")
  /\ pc = "idle" /\ result = "ok" /\ work.record
  /\ artifact' = <<[saved |-> FromModule, ran |-> stream, cycles |-> total_cycles,
                    completed |-> completions]>>
  /\ UNCHANGED <<work, source, module, verdict, fabricVars>>

Replay ==
  /\ Goes("recorded", "replayed")
  /\ Run(emit_dispatches(artifact[1].saved.slugir, artifact[1].saved.policy_name))
  /\ UNCHANGED <<work, source, module, verdict, artifact>>

Init ==
  /\ work \in Work
  /\ stage = IF work.kind = "built" THEN "built" ELSE "text"
  /\ source = work.built
  /\ module = source
  /\ verdict = "none" /\ artifact = <<>>
  /\ FabricInit

Next ==
  \/ Lower \/ ParseFails \/ Fuse \/ Select \/ Assign \/ AssignFails
  \/ Validate \/ Emit \/ EmitFails \/ Record \/ Replay
  \/ FabricStep /\ UNCHANGED irVars

Spec == Init /\ [][Next]_vars

(***************************************************************************)
(* Properties                                                              *)
(***************************************************************************)
Ids(f) == DOMAIN f.ops

\* Every nonempty set of ops of an acyclic graph has an op with no predecessor
\* in the set.
Acyclic(f) ==
  \A S \in (SUBSET Ids(f)) \ {{}} : \E id \in S : Predecessors(f, id) \cap S = {}

\* assign_tokens fails exactly on the graphs with a cycle; the order it leaves
\* puts every op after the ops it depends on, parallel edges or not.
TopoSound ==
  /\ stage = "selected" => \A k \in DOMAIN module :
                             HasCycle(module[k]) <=> ~Acyclic(module[k])
  /\ stage = "assigned" =>
       \A k \in DOMAIN module :
         LET f == module[k]
         IN  /\ ToSet(f.order) = Ids(f) /\ Len(f.order) = Cardinality(Ids(f))
             /\ \A m, n \in DOMAIN f.order :
                  DependsOn(f, f.order[n], f.order[m]) => m < n

\* No stream the compiler emits can stop the fabric with TokenResolutionStuck.
CompiledNeverStuck ==
  stage = "emitted" => WellTokened(stream) /\ result # "stuck"

\* The op that command c of a one-function module dispatches.
OpOf(c) == module[1].order[c]
CmdOf(id) == CHOOSE c \in Cmds : OpOf(c) = id
Launched1(id) == CmdOf(id) \notin PendingSet
Retired1(id) == CmdOf(id) \in done

Single == stage = "emitted" /\ Len(module) = 1

\* An op is launched only after the predecessor that comes last in the order
\* has retired.
LastPredecessorFirst ==
  Single => \A id \in Ids(module[1]) :
    LET preds == Predecessors(module[1], id)
        last == CHOOSE p \in preds : \A q \in preds : CmdOf(q) <= CmdOf(p)
    IN  Launched1(id) /\ preds # {} => Retired1(last)

\* A validator that says match has found every node of the oracle on an op,
\* and where two ops have the same node and one policy picked one IP for all,
\* on each of them, whichever op its map kept; and exactly the oracle's token
\* edges between them.
MatchMeans ==
  LET rtlmap == work.oracle[1]
      f == module[1]
      AtNode(node) == {id \in Ids(f) : /\ f.meta[id].source_hint \in DOMAIN rtlmap.hints
                                       /\ rtlmap.hints[f.meta[id].source_hint] = node}
  IN  verdict = "match" =>
        /\ \A n \in rtlmap.nodes :
             /\ \E id \in AtNode(n[1]) : f.meta[id].backend = n[2]
             /\ policy # "default_v1" =>
                  \A id \in AtNode(n[1]) : f.meta[id].backend = n[2]
        /\ \A m, n \in rtlmap.nodes :
             <<m[1], n[1], "token">> \in rtlmap.edges <=>
               \E a \in AtNode(m[1]), b \in AtNode(n[1]) : DependsOn(f, b, a)

\* The instructions of a text, counted on its tree: one for an instruction, those
\* of its body for a block, those of its body for a defined kernel.
SumSeq(terms) ==
  LET sum[n \in 0..Len(terms)] == IF n = 0 THEN 0 ELSE sum[n - 1] + terms[n] IN sum[Len(terms)]
Weigh(weight, list) == SumSeq([n \in DOMAIN list |-> weight[list[n]]])
CountOver(inner) ==
  [s \in Statements |-> CASE s.kind = "Instruction" -> 1
                        [] s.kind = "Block" -> Weigh(inner, s.body)
                        [] OTHER -> 0]
StatementCount ==
  LET count[d \in 0..Levels] ==
        CountOver(IF d = 0 THEN [s \in Statements |-> 0] ELSE count[d - 1])
  IN  count
InstructionCount(text) ==
  SumSeq([n \in DOMAIN text |-> IF text[n].kind = "Kernel" /\ text[n].defined
                                THEN Weigh(StatementCount[Levels], text[n].body) ELSE 0])

\* "lowering is never a silent drop but also never a fatal error", lib.rs:28-29:
\* a text that parses compiles under either policy, and a run of it that ends
\* well has completed one command for every instruction of its kernels, nested
\* blocks included, and of nothing else.
KernelRunsWhole ==
  work.kind = "ptx" =>
    /\ stage \notin {"TokenGraphCycle", "NoBindingForChoice"}
    /\ stage \in {"emitted", "recorded", "replayed"} /\ result = "ok" =>
         completions = InstructionCount(work.text)

\* A replay dispatches the commands of the recorded run again, in their order;
\* where no RTL is involved it also ends as the recorded run did, with the same
\* cycles.
ReplayRepeats ==
  stage = "replayed" =>
    /\ stream = artifact[1].ran
    /\ pc = "idle" /\ (\A c \in Cmds : stream[c].ip \in Cpu) =>
         /\ result = "ok"
         /\ total_cycles = artifact[1].cycles
         /\ completions = artifact[1].completed

(***************************************************************************)
(* Claims of the source that the code does not keep                        *)
(***************************************************************************)
\* graph.rs:9: the dst op of a Token edge waits for the src op's retirement.
DependencyOrder ==
  Single => \A e \in module[1].edges :
              e[1] = "Token" /\ Launched1(Dst(e)) => Retired1(Src(e))

\* graph.rs:7: the dst op of an edge consumes the src op's value, so an op that
\* depends on a fused op still depends on the op it was fused into.
FusionKeepsDependencies ==
  stage = "fused" =>
    \A k \in DOMAIN source :
      LET f == source[k]
          g == module[k]
          Home(id) == IF id \in Ids(g) THEN id
                      ELSE f.order[(CHOOSE n \in DOMAIN f.order : f.order[n] = id) - 1]
      IN  \A e \in f.edges :
            LET a == Home(Src(e))
                b == Home(Dst(e))
            IN  a # b => DependsOn(g, b, a)
=============================================================================
