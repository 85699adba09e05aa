--------------------------- MODULE MCSlugPipeline ---------------------------
(***************************************************************************)
(* Small modules and texts for the compiler and the fabric.                *)
(***************************************************************************)
EXTENDS SlugPipeline

Mlp(k) == Op("MlpStep", <<>>, <<k>>)
Gemm(k) == Op("Gemm", <<128, 8>>, <<k>>)
Emu(k) == Op("Emu", <<17>>, <<k>>)
Elementwise(k) == Op("Elementwise", <<4>>, <<k>>)
Dma(k) == Op("Dma", <<0, 0, 4>>, <<>>)

Data(pairs) == {<<"Data", p[1], p[2]>> : p \in pairs}
Token(pairs) == {<<"Token", p[1], p[2]>> : p \in pairs}

\* A function whose ops have no source hint.
Plain(first, body, edges) ==
  Build("f", first, body, edges, [n \in DOMAIN body |-> NoHint])

\* Three ops of every mix, every directed graph of Data edges between them, and
\* some Token edges, which may run beside a Data edge.
Bodies == {<<x, y, z>> : x \in {Mlp(1), Gemm(1), Emu(1)},
                         y \in {Mlp(2), Gemm(2), Emu(2)},
                         z \in {Mlp(3), Gemm(3), Emu(3)}}
Pairs == {p \in (1..3) \X (1..3) : p[1] # p[2]}
Triples == {<<Plain(1, body, Data(d) \cup Token(t))>> :
              body \in Bodies, d \in SUBSET Pairs, t \in {{}, {<<1, 2>>}, {<<1, 3>>, <<2, 3>>}}}

\* Four MlpSteps in a row, with any forward edges.
Forward == {p \in (1..4) \X (1..4) : p[1] < p[2]}
MlpRows == {<<Plain(1, <<Mlp(1), Mlp(2), Mlp(3), Mlp(4)>>, Data(d))>> :
              d \in SUBSET Forward}

\* Two functions, whose tokens both start at 1.
Halves(first) ==
  {Plain(first, <<x, y>>, Data(d)) : x \in {Mlp(first), Dma(first)},
                                     y \in {Gemm(first + 1), Emu(first + 1)},
                                     d \in SUBSET {<<first, first + 1>>}}
Twins == {<<f, g>> : f \in Halves(1), g \in Halves(3)}

\* Ops whose backend has no binding for them.
Misfits == {<<Plain(1, <<Emu(1), Elementwise(2)>>, Data(d))>> : d \in SUBSET {<<1, 2>>}}

Built(modules, policies, oracle, record) ==
  {[kind |-> "built", text |-> <<>>, built |-> m, policy |-> p, oracle |-> oracle,
    record |-> record] : m \in modules, p \in policies}

RtlIps == {"SystolicArray4x4", "SystolicArray16x16", "SystolicArray32x32",
           "NpuArrayV4SeedG", "NpuClusterV4", "NoCMesh", "GemmIp"}
Emulation == "PtxEmulationCore"
Both == {"default_v1", Emulation}

(***************************************************************************)
(* Modules with source hints, for the validator                            *)
(***************************************************************************)
Hinted(body, edges) ==
  <<Build("k", 1, body, edges, [n \in DOMAIN body |-> <<"k", n - 1>>])>>
HintedModules == {Hinted(<<Gemm(1), y, Emu(3)>>, e \cup t) :
                    y \in {Gemm(2), Emu(2)}, e \in {{}, Data({<<1, 2>>})},
                    t \in {{}, Token({<<2, 3>>})}}

\* Maps of the three hints to nodes, one op to a node or two.
Hints(nodes) == [h \in {<<"k", n - 1>> : n \in DOMAIN nodes} |-> nodes[h[2] + 1]]
Oracles == {<<[nodes |-> n, edges |-> e, hints |-> Hints(h)]>> :
              n \in {{<<"a", Emulation>>, <<"b", Emulation>>, <<"c", Emulation>>},
                     {<<"a", "SystolicArray32x32">>, <<"b", Emulation>>},
                     {<<"a", Emulation>>, <<"b", Emulation>>}},
              e \in {{<<"a", "b", "token">>},
                     {<<"a", "b", "token">>, <<"b", "c", "token">>},
                     {<<"a", "b", "data">>, <<"b", "b", "token">>}},
              h \in {<<"a", "b", "c">>, <<"a", "b", "b">>, <<"a", "a", "b">>}}
Checked == UNION {Built(HintedModules, Both, o, FALSE) : o \in Oracles}

(***************************************************************************)
(* PTX texts: kernels beside functions, variables and declarations, nested *)
(* blocks, labels, and instructions of every lowerer and of none           *)
(***************************************************************************)
Samples == {Inst("Add", {"F32"}), Inst("Mov", {"BF16"}), Inst("Shl", {"B32"}),
            Inst("Ex2", {"F32"}), Inst("Ld", {"U16"}), Inst("Mma", {"F32"}),
            Inst("Ret", {}), Inst("Vote", {})}
Kernel(name, body) == Directive("Kernel", name, TRUE, body)
Tails == {Inst("St", {"F64"}), Inst("Vote", {})}
Inner == {Block(<<z>>) : z \in Tails}
Outer == {Block(<<y, z>>) : y \in Samples, z \in Inner}
MCStatements == Samples \cup Tails \cup Inner \cup Outer \cup {Label}
MCLevels == 3
Texts == {<<Kernel("k", <<x, Label, y>>)>> : x \in Samples, y \in Outer}
         \cup {<<Directive("Variable", "v", TRUE, <<>>), Kernel("k", <<x>>),
                 Directive("Func", "g", TRUE, <<x, x>>), Directive("Kernel", "d", FALSE, <<>>),
                 Kernel("l", <<y>>)>> : x \in Samples, y \in Samples}
         \cup {<<>>}
NoNodes == <<[nodes |-> {}, edges |-> {}, hints |-> Hints(<<"a", "b">>)]>>

Ptx(kind, texts, policies, oracles) ==
  {[kind |-> kind, text |-> t, built |-> <<>>, policy |-> p, oracle |-> o, record |-> TRUE] :
     t \in texts, p \in policies, o \in oracles}

MCWork == Built(Triples \cup MlpRows \cup Twins \cup Misfits, Both, <<>>, FALSE)
          \cup Built(Twins, {Emulation}, <<>>, TRUE)
          \cup Built(Twins, {"NpuClusterV4", "GemmIp", "SlugCxl4x4"}, <<>>, FALSE)
          \cup Checked
          \cup Ptx("ptx", Texts, Both, {<<>>})
          \cup Ptx("ptx", {<<>>}, {Emulation}, {NoNodes})
          \cup Ptx("malformed", {<<>>}, {Emulation}, {<<>>})
=============================================================================
