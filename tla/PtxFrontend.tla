---------------------------- MODULE PtxFrontend ----------------------------
(***************************************************************************)
(* The PTX frontend, crates/slugarch-ptx-frontend: a parsed PTX text       *)
(* becomes a SlugIR module, one function per .entry kernel, one op per     *)
(* instruction and no edges.  The parser is external: a text is what it    *)
(* makes of it, a sequence of directives, or malformed.  An instruction is *)
(* its name and the scalar types that its data shows.                      *)
(***************************************************************************)
EXTENDS SlugIr

Statement(kind, name, types, body) ==
  [kind |-> kind, name |-> name, types |-> types, body |-> body]
Inst(name, types) == Statement("Instruction", name, types, <<>>)
Label == Statement("Label", "", {}, <<>>)
Block(body) == Statement("Block", "", {}, body)

\* A directive: a Kernel, a Func or a Variable; the body of a declaration is
\* missing.
Directive(kind, name, defined, body) ==
  [kind |-> kind, name |-> name, defined |-> defined, body |-> body]

CONSTANTS
  Statements,     \* that the parser may yield
  Levels          \* bound on how deep lists of them are nested

ASSUME StatementAssumption ==
  /\ Levels \in Nat
  /\ \A s \in Statements : s.kind = "Block" => s.body \in Seq(Statements)

\* Mutant: skips blocks, as the notes on the AST have it.
SkipsBlocks(stmts) == SelectSeq(stmts, LAMBDA s : s.kind = "Instruction")

\* collect_instructions, which calls itself on the body of a block, level by
\* level: blocks are opened, labels and variables go.
Opened(stmts) ==
  FlattenSeq([n \in DOMAIN stmts |-> CASE stmts[n].kind = "Instruction" -> <<stmts[n]>>
                                       [] stmts[n].kind = "Block" -> stmts[n].body
                                       [] OTHER -> <<>>])
collect_instructions(stmts) ==
  LET level[d \in 0..Levels] == IF d = 0 THEN stmts ELSE Opened(level[d - 1]) IN level[Levels]

\* extract_entry gives a kernel with a body, or nothing.
extract_entry(directive) ==
  IF directive.kind = "Kernel" /\ directive.defined THEN <<directive>> ELSE <<>>
Entries(text) == FlattenSeq([n \in DOMAIN text |-> extract_entry(text[n])])

(***************************************************************************)
(* The lowerers, in the order in which they are asked                      *)
(***************************************************************************)
ArithKind == {"Add", "Sub", "Mul", "Mad", "Div", "Rem", "Fma", "Min", "Max", "Abs",
              "Cvt", "Mov"}

\* The types that dtype_via_debug looks for, first match first; it finds the
\* text F16 in BF16 too, and none of them in the signed types.
Dtypes == <<"F16", "BF16", "F32", "F64", "U8", "I8", "U16", "I16", "U32", "I32",
            "U64", "I64">>
Shows(type, dtype) == dtype \in {type, IF type = "BF16" THEN "F16" ELSE type}

dtype_via_debug(types) ==
  LET hits == {n \in DOMAIN Dtypes : \E t \in types : Shows(t, Dtypes[n])}
  IN  IF hits = {} THEN "I32" ELSE Dtypes[Min(hits)]

BitOpcode == [Not |-> 1, And |-> 2, Or |-> 3, Xor |-> 4, Shl |-> 5, Shr |-> 6,
              Popc |-> 7, Clz |-> 8, Brev |-> 9, Bfe |-> 10, Bfi |-> 11,
              Prmt |-> 12, Shf |-> 13]

TranscendentalOpcode == [Sqrt |-> 17, Rsqrt |-> 18, Sin |-> 19, Cos |-> 20,
                         Tanh |-> 21, Lg2 |-> 22, Ex2 |-> 23]

Wide == {"B64", "U64", "S64", "F64"}
Middle == {"B32", "U32", "S32", "F32"}
Short == {"B16", "U16", "S16", "F16", "BF16"}
Byte == {"B8", "U8", "S8"}

bytes_via_debug(types) ==
  CASE types \cap Wide # {} -> 8
    [] types \cap Wide = {} /\ types \cap Middle # {} -> 4
    [] types \cap (Wide \cup Middle) = {} /\ types \cap Short # {} -> 2
    [] types \cap (Wide \cup Middle \cup Short) = {} /\ types \cap Byte # {} -> 1
    [] OTHER -> 4

mma_shape == <<16, 8, 16>>
mma_dtype(types) ==
  LET known == types \cap {"F16", "BF16", "F32"}
  IN  IF known = {} THEN "F16" ELSE CHOOSE t \in known : TRUE

ControlInst == {"Bra", "Call", "Ret", "Bar", "BarWarp", "BarRed"}

Emulated(opcode) == Op("Emu", <<opcode>>, <<>>)
UnknownOpcode == 255

\* The op of an instruction.
Lowered(inst) ==
  CASE inst.name \in ArithKind ->
         [Op("Arith", <<>>, <<>>) EXCEPT !.dtype = dtype_via_debug(inst.types)]
    [] inst.name \in DOMAIN BitOpcode -> Emulated(BitOpcode[inst.name])
    [] inst.name \in DOMAIN TranscendentalOpcode ->
         Emulated(TranscendentalOpcode[inst.name])
    [] inst.name \in {"Ld", "St"} -> Op("Dma", <<0, 0, bytes_via_debug(inst.types)>>, <<>>)
    [] inst.name = "Mma" ->
         [Op("Gemm", mma_shape, <<>>) EXCEPT !.dtype = mma_dtype(inst.types)]
    [] inst.name \in ControlInst -> Emulated(254)
    [] OTHER -> Emulated(UnknownOpcode)

\* Every op but an unknown one remembers its kernel and its place in it.
HintOf(name, n, op) == IF op = Emulated(UnknownOpcode) THEN NoHint ELSE <<name, n - 1>>

Lowering(first, name, insts) ==
  LET ops == [n \in DOMAIN insts |-> Lowered(insts[n])]
  IN  Build(name, first, ops, {}, [n \in DOMAIN ops |-> HintOf(name, n, ops[n])])

LowerEntry(first, entry) == Lowering(first, entry.name, collect_instructions(entry.body))

\* Op ids are fresh across the kernels of a text.
lower_to_slugir(text) ==
  LET entries == Entries(text)
      first[n \in 0..Len(entries)] ==
        IF n = 0 THEN 0 ELSE first[n - 1] + Len(collect_instructions(entries[n].body))
  IN  [n \in DOMAIN entries |-> LowerEntry(first[n - 1], entries[n])]
=============================================================================
