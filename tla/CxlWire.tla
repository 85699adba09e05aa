------------------------------ MODULE CxlWire ------------------------------
(***************************************************************************)
(* crates/slugarch-cxl-wire: CXL messages, the fields of a FLIT, encode    *)
(* and decode.  A message field that its class does not have is the empty  *)
(* set, one it has is a singleton.  An address is its two 32-bit halves,   *)
(* low first; data is the number in its first bytes, the rest being zero.  *)
(***************************************************************************)
EXTENDS Integers, Sequences, TLC

None == {}
Some(x) == {x}
OrElse(option, default) == IF option = None THEN default ELSE CHOOSE x \in option : TRUE

\* MsgClass, at its nibble.
MsgClass == <<"M2SReq", "M2SRwD", "S2MDRS", "S2MNDR", "D2HReq", "D2HResp", "H2DReq", "H2DResp">>

Numbered(names) == [n \in 0..Len(names) - 1 |-> names[n + 1]]

\* Opcodes of a class, each at its nibble.
Opcodes ==
  [M2SReq  |-> Numbered(<<"MemRd", "MemRdData", "MemInv">>),
   M2SRwD  |-> Numbered(<<"MemWr", "MemWrPtl", "MemClnEvct">>),
   S2MDRS  |-> Numbered(<<"MemData", "MemDataNxm">>),
   S2MNDR  |-> [n \in 0..4 \cup {15} |->
                  IF n = 15 THEN "DispatchFailed"
                  ELSE <<"Cmp", "CmpS", "CmpE", "CmpI", "MemPassDirty">>[n + 1]],
   D2HReq  |-> Numbered(<<"RdShared", "RdOwn", "Inval">>),
   D2HResp |-> Numbered(<<"RspIFwdM", "RspSFwdM", "RspV">>),
   H2DReq  |-> Numbered(<<"SnpData", "SnpInv", "SnpCur">>),
   H2DResp |-> Numbered(<<"GoWritePull", "GoErr", "Go">>)]

HasAddress == {"M2SReq", "M2SRwD", "D2HReq", "H2DReq"}
HasData == {"M2SRwD", "S2MDRS", "D2HResp"}

Msg(class, opcode, tag, addr, data) ==
  [class |-> class, opcode |-> opcode, tag |-> tag,
   addr |-> IF class \in HasAddress THEN Some(addr) ELSE None,
   data |-> IF class \in HasData THEN Some(data) ELSE None]

encode(msg) ==
  [class |-> CHOOSE n \in DOMAIN MsgClass : MsgClass[n] = msg.class,
   opcode |-> CHOOSE n \in DOMAIN Opcodes[msg.class] : Opcodes[msg.class][n] = msg.opcode,
   tag |-> msg.tag,
   addr |-> OrElse(msg.addr, <<0, 0>>),
   data |-> OrElse(msg.data, 0),
   reserved |-> 0]

Decoded(error, msg) == [error |-> error, msg |-> msg]

\* A D2HResp always comes out with data, whether it went in with any or not.
decode(flit) ==
  CASE flit.reserved # 0 -> Decoded("ReservedBitsSet", None)
    [] flit.reserved = 0 /\ flit.class \notin DOMAIN MsgClass -> Decoded("UnknownClass", None)
    [] OTHER ->
       LET class == MsgClass[flit.class]
       IN  IF flit.opcode \in DOMAIN Opcodes[class]
           THEN Decoded("none", Some(Msg(class, Opcodes[class][flit.opcode],
                                         flit.tag, flit.addr, flit.data)))
           ELSE Decoded("UnknownOpcode", None)
=============================================================================
