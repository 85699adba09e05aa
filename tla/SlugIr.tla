------------------------------- MODULE SlugIr -------------------------------
(***************************************************************************)
(* SlugIR and its passes, crates/slugarch-ir, and the binding of an        *)
(* annotated module to a dispatch stream, crates/slugarch-backend.  A      *)
(* function is its name, its ops by id, its edges, the order of its ops    *)
(* and what the passes note about each op.                                 *)
(***************************************************************************)
EXTENDS Integers, Sequences, FiniteSets, SequencesExt

NoToken == -1
NoBackend == "none"

\* An op: its kind, its numbers (the shape of a tile, the opcode of an Emu op,
\* source, destination and bytes of a Dma), its operands and its dtype.
Op(kind, arg, operands) ==
  [kind |-> kind, arg |-> arg, operands |-> operands, dtype |-> "none"]
StateKind == {"RmsNorm", "AttnDecode", "MlpStep", "DecodeGeneric"}
OpKind == StateKind \cup {"Gemm", "Elementwise", "Dma", "Emu", "Arith"}

\* A source hint is a kernel and a place in it.
NoHint == <<"", -1>>
DefaultMeta == [backend |-> NoBackend, token_in |-> NoToken, token_out |-> NoToken,
                source_hint |-> NoHint]

\* An edge <<class, src, dst>> of class Data or Token: dst depends on src.
Src(e) == e[2]
Dst(e) == e[3]

\* FunctionBuilder: fresh ids in the order in which the ops were added, then
\* finish_meta with the source hint of each.
Build(name, first, body, edges, hints) ==
  LET ids == first..(first + Len(body) - 1)
  IN  [name |-> name,
       ops |-> [id \in ids |-> body[id - first + 1]],
       meta |-> [id \in ids |-> [DefaultMeta EXCEPT !.source_hint = hints[id - first + 1]]],
       edges |-> edges,
       order |-> [k \in 1..Len(body) |-> first + k - 1]]

\* What holds of every function: finitely many ops, notes on each of them, and
\* finitely many edges between them.
IsOp(op) ==
  /\ op = [kind |-> op.kind, arg |-> op.arg, operands |-> op.operands, dtype |-> op.dtype]
  /\ op.kind \in OpKind /\ op.operands \in Seq(Nat)
  /\ op.kind = "Emu" => op.arg[1] \in Nat
IsMeta(m) == m = [backend |-> m.backend, token_in |-> m.token_in, token_out |-> m.token_out,
                  source_hint |-> m.source_hint]
WellFormed(f) ==
  /\ f = [name |-> f.name, ops |-> f.ops, meta |-> f.meta, edges |-> f.edges, order |-> f.order]
  /\ DOMAIN f.ops \in SUBSET Nat /\ IsFiniteSet(DOMAIN f.ops)
  /\ f.ops = [id \in DOMAIN f.ops |-> f.ops[id]]
  /\ f.meta = [id \in DOMAIN f.ops |-> f.meta[id]]
  /\ \A id \in DOMAIN f.ops : IsOp(f.ops[id]) /\ IsMeta(f.meta[id])
  /\ IsFiniteSet(f.edges) /\ \A e \in f.edges : {Src(e), Dst(e)} \subseteq DOMAIN f.ops

Predecessors(f, id) == {Src(e) : e \in {x \in f.edges : Dst(x) = id}}
DependsOn(f, b, a) == \E e \in f.edges : Src(e) = a /\ Dst(e) = b

(***************************************************************************)
(* fuse_decode_ops                                                         *)
(***************************************************************************)
IsMlp(ops, id) == id \in DOMAIN ops /\ ops[id].kind = "MlpStep"

\* b's operands move into a, b goes.
Merge(ops, a, b) ==
  [id \in DOMAIN ops \ {b} |->
     IF id = a THEN [ops[a] EXCEPT !.operands = @ \o ops[b].operands]
     ELSE ops[id]]

\* The ops after the walk has passed position n of the order.  The order keeps
\* the ops that went, so the op after a merged pair is not looked at again.
FusePair(f, ops, n) ==
  LET a == f.order[n]
      b == f.order[n + 1]
  IN  IF n < Len(f.order) /\ IsMlp(ops, a) /\ IsMlp(ops, b) /\ DependsOn(f, b, a)
      THEN Merge(ops, a, b) ELSE ops

FusedOps(f) ==
  LET walk[n \in 0..Len(f.order)] == IF n = 0 THEN f.ops ELSE FusePair(f, walk[n - 1], n)
  IN  walk[Len(f.order)]

\* Removed ops leave the order, and every edge that names one is dropped.
FuseMlpChain(f) ==
  LET ops == FusedOps(f)
  IN  [name |-> f.name,
       ops |-> ops,
       meta |-> [id \in DOMAIN ops |-> f.meta[id]],
       edges |-> {e \in f.edges : Src(e) \in DOMAIN ops /\ Dst(e) \in DOMAIN ops},
       order |-> SelectSeq(f.order, LAMBDA id : id \in DOMAIN ops)]

(***************************************************************************)
(* select_backend                                                          *)
(***************************************************************************)
GemmTileIp(shape) ==
  LET max_dim == Max(ToSet(shape) \cup {0})
  IN  CASE max_dim >= 128 -> "SystolicArray32x32"
        [] max_dim \in 32..127 -> "SystolicArray16x16"
        [] OTHER -> "SystolicArray4x4"

\* DefaultPolicy, or the name of the one IP that a ForceIp policy picks.
Pick(policy, op) ==
  IF policy # "default_v1" THEN policy
  ELSE CASE op.kind = "Gemm" -> GemmTileIp(op.arg)
         [] op.kind \in StateKind \cup {"Elementwise"} -> "NpuArrayV4SeedG"
         [] op.kind = "Dma" -> "NoCMesh"
         [] op.kind \in {"Emu", "Arith"} -> "PtxEmulationCore"

SelectBackend(f, policy) ==
  [f EXCEPT !.meta = [id \in DOMAIN f.ops |->
                        [@[id] EXCEPT !.backend = Pick(policy, f.ops[id])]]]

(***************************************************************************)
(* assign_tokens                                                           *)
(***************************************************************************)
InDegree(f, id) == Cardinality({e \in f.edges : Dst(e) = id})
Ascending(ids) ==
  CHOOSE s \in [1..Cardinality(ids) -> ids] : \A m, n \in DOMAIN s : m < n => s[m] < s[n]

\* Mutant: an op is released by its first visited predecessor.
FirstEdge(f, id, visited) == IF Predecessors(f, id) \cap visited = {} THEN 1 ELSE 0

\* What is left of an op's in-degree once these ops have been visited.
EdgesLeft(f, id, visited) ==
  InDegree(f, id) - Cardinality({e \in f.edges : Dst(e) = id /\ Src(e) \in visited})

\* Kahn's loop.  The queue is first in, first out, so the topological order and
\* the queue behind it are one growing sequence: turn n visits its n-th op and
\* appends, in ascending order, the ops that waited only for that one.
Freed(f, seq, n) ==
  {id \in DOMAIN f.ops : /\ DependsOn(f, id, seq[n]) /\ id \notin ToSet(seq)
                         /\ EdgesLeft(f, id, {seq[m] : m \in 1..n}) = 0}

Visit(f, seq, n) == IF n > Len(seq) THEN seq ELSE seq \o Ascending(Freed(f, seq, n))

Topo(f) ==
  LET count == Cardinality(DOMAIN f.ops)
      kahn[n \in 0..count] ==
        IF n = 0 THEN Ascending({id \in DOMAIN f.ops : InDegree(f, id) = 0})
        ELSE Visit(f, kahn[n - 1], n)
  IN  kahn[count]

\* TokenGraphCycle: some op is never released.
HasCycle(f) == Len(Topo(f)) # Cardinality(DOMAIN f.ops)

\* Mutant: waits for the first predecessor instead of the last one.
WaitsForFirst(tokens) == IF tokens = {} THEN 0 ELSE Min(tokens)

\* Mutant: waits for the token after the one of the last predecessor.
WaitsForNext(tokens) == Max(tokens \cup {0}) + 1

\* The token an op waits for, given the tokens of its predecessors.
WaitsFor(tokens) == Max(tokens \cup {0})

AssignTokens(f) ==
  LET topo == Topo(f)
      token == [id \in DOMAIN f.ops |-> CHOOSE k \in DOMAIN topo : topo[k] = id]
  IN  [f EXCEPT !.order = topo,
                !.meta = [id \in DOMAIN f.ops |->
                  [@[id] EXCEPT
                     !.token_in = WaitsFor({token[p] : p \in Predecessors(f, id)}),
                     !.token_out = token[id]]]]

(***************************************************************************)
(* emit_dispatches                                                         *)
(***************************************************************************)
\* What a binding makes of an op: the opcode and the words of the token the IP
\* is started with, or nothing if it has no binding for the op.
Start(opcode, token) == <<[opcode |-> opcode, token |-> token]>>
NoBinding == <<>>

\* The product of a shape, for shapes whose product is a u32.
NumElements(shape) ==
  LET times[n \in 0..Len(shape)] == IF n = 0 THEN 1 ELSE times[n - 1] * shape[n]
  IN  times[Len(shape)]

SystolicBinding(op) ==
  IF op.kind = "Gemm" THEN Start(1, <<NumElements(op.arg)>>) ELSE NoBinding
GemmIpBinding(op) == SystolicBinding(op)

NoCMeshBinding(op) == IF op.kind = "Dma" THEN Start(0, op.arg) ELSE NoBinding

NpuOpcode == [RmsNorm |-> 1, AttnDecode |-> 2, MlpStep |-> 3, DecodeGeneric |-> 4]
NpuSeedGBinding(op) ==
  IF op.kind \in StateKind THEN Start(NpuOpcode[op.kind], <<Len(op.operands)>>)
  ELSE NoBinding
NpuClusterBinding(op) == NpuSeedGBinding(op)

\* The emulation core gets any op, without its operands.
PtxEmulationBinding(op) == Start(IF op.kind = "Emu" THEN op.arg[1] ELSE 253, <<0>>)

Bind(ip, op) ==
  CASE ip = "PtxEmulationCore" -> PtxEmulationBinding(op)
    [] ip = "NoCMesh" -> NoCMeshBinding(op)
    [] ip \in {"SystolicArray4x4", "SystolicArray16x16", "SystolicArray32x32"} ->
         SystolicBinding(op)
    [] ip = "NpuArrayV4SeedG" -> NpuSeedGBinding(op)
    [] ip = "NpuClusterV4" -> NpuClusterBinding(op)
    [] ip = "GemmIp" -> GemmIpBinding(op)
    [] ip = "SlugCxl4x4" -> NoBinding

BindError(f) == \E id \in DOMAIN f.ops : Bind(f.meta[id].backend, f.ops[id]) = NoBinding

OrZero(token) == IF token = NoToken THEN 0 ELSE token

Dispatch(f, id, policy_name) ==
  LET ip == f.meta[id].backend
      start == Bind(ip, f.ops[id])[1]
  IN  [ip |-> ip, opcode |-> start.opcode, token |-> start.token,
       token_in |-> OrZero(f.meta[id].token_in), token_out |-> OrZero(f.meta[id].token_out),
       source_hint |-> f.meta[id].source_hint, policy |-> policy_name]

Dispatches(f, policy_name) ==
  [k \in 1..Len(f.order) |-> Dispatch(f, f.order[k], policy_name)]

\* The functions of a module follow one another in the stream.
emit_dispatches(module, policy_name) ==
  FlattenSeq([k \in DOMAIN module |-> Dispatches(module[k], policy_name)])

(***************************************************************************)
(* validate_against_rtlmap.  An oracle: nodes <<node, ip>> and edges       *)
(* <<from, to, channel>>; hints map source hints to nodes.                 *)
(***************************************************************************)
OpToNode(f, hints) ==
  [id \in {x \in DOMAIN f.ops : f.meta[x].source_hint \in DOMAIN hints} |->
     hints[f.meta[id].source_hint]]

\* The inverse map, which keeps one op of each node: the last one that the
\* iteration over a HashMap happens to meet.
NodeToOps(op_to_node) ==
  {m \in [Range(op_to_node) -> DOMAIN op_to_node] :
     \A node \in DOMAIN m : op_to_node[m[node]] = node}

OracleEdges(oracle) ==
  {<<e[1], e[2]>> : e \in {x \in oracle.edges : x[3] = "token"}}

\* Edges of every class, between ops that have a node.
ActualEdges(f, op_to_node) ==
  {<<op_to_node[Src(e)], op_to_node[Dst(e)]>> :
     e \in {x \in f.edges : {Src(x), Dst(x)} \subseteq DOMAIN op_to_node}}

\* Mutant: does not look for the edges the function lacks.
ExtraOnly(expected, actual) == actual \ expected

Difference(expected, actual) == (expected \ actual) \cup (actual \ expected)

\* Is RtlmapDiff empty?
Matches(f, oracle, op_to_node, node_to_op) ==
  /\ Difference({n[1] : n \in oracle.nodes}, DOMAIN node_to_op) = {}
  /\ \A n \in oracle.nodes :
       n[1] \in DOMAIN node_to_op => f.meta[node_to_op[n[1]]].backend = n[2]
  /\ Difference(OracleEdges(oracle), ActualEdges(f, op_to_node)) = {}
=============================================================================
