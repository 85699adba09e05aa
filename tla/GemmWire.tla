------------------------------ MODULE GemmWire ------------------------------
(***************************************************************************)
(* The GEMM protocol on the wire, crates/slugarch-host/src/dispatch.rs: a  *)
(* product is a stream of FLITs that load A, load B, compute and read C.   *)
(*                                                                         *)
(* A FLIT is its fields: whether its address is the dispatch address, its  *)
(* class, tag and token; Message is the CXL message it stands for.  The    *)
(* token of an M2SRwD travels in the data, that of an M2SReq in the high   *)
(* address bits.  A matrix is Dim x Dim; the rest of the 16 x 16 array is  *)
(* never loaded and stays zero.                                            *)
(***************************************************************************)
EXTENDS CxlWire

CONSTANTS
  Dim,          \* rows and columns of the matrices in use
  TagSpace      \* number of tags, 2^16 in the code

ASSUME WireAssumption == Dim \in 1..16 /\ TagSpace \in Nat \ {0, 1}

Cell == (0..Dim - 1) \X (0..Dim - 1)
Tags == 0..TagSpace - 1
Matrix(S) == [Cell -> S]

NoToken == [op |-> "none", sel |-> 0, addr |-> <<0, 0>>, data |-> 0]

make_load_token(sel, addr, data) == [op |-> "load", sel |-> sel, addr |-> addr, data |-> data]
make_compute_token == [NoToken EXCEPT !.op = "compute"]
make_read_token(addr) == [NoToken EXCEPT !.op = "read", !.addr = addr]

\* The bits of a token.
ArrayAddr(cell) == cell[1] * 16 + cell[2]
TokenWord(token) ==
  CASE token.op = "load" ->
         2^2 + 2^3 * token.sel + 2^4 * ArrayAddr(token.addr) + 2^12 * token.data
    [] token.op = "compute" -> 2^20
    [] token.op = "read" -> 2^21 + 2^22 * ArrayAddr(token.addr)
    [] OTHER -> 0

Flit(claimed, class, tag, token) ==
  [claimed |-> claimed, class |-> class, tag |-> tag, token |-> token]

M2SRwD(tag, token) == Flit(TRUE, "RwD", tag, token)
M2SReq(tag, token) == Flit(TRUE, "Req", tag, token)

DISPATCH_ADDR == 8192

Message(flit) ==
  IF flit.class = "RwD"
  THEN Msg("M2SRwD", "MemWr", flit.tag, <<DISPATCH_ADDR, 0>>, TokenWord(flit.token))
  ELSE Msg("M2SReq", "MemRd", flit.tag, <<DISPATCH_ADDR, TokenWord(flit.token)>>, 0)

Response(kind, tag, data) == [kind |-> kind, tag |-> tag, data |-> data]

Answer(resp) ==
  Msg(IF resp.kind = "MemData" THEN "S2MDRS" ELSE "S2MNDR", resp.kind, resp.tag, <<0, 0>>, resp.data)

Cells == Dim * Dim
StreamLength == 3 * Cells + 1
CellAt(n) == <<(n - 1) \div Dim, (n - 1) % Dim>>

\* build_gemm_dispatch_stream: load A, load B, compute, read C.
DispatchStream(j, first_tag) ==
  [n \in 1..StreamLength |->
     LET tag == (first_tag + n - 1) % TagSpace
     IN  CASE n <= Cells ->
                M2SRwD(tag, make_load_token(0, CellAt(n), j.a[CellAt(n)]))
           [] n \in Cells + 1..2 * Cells ->
                M2SRwD(tag, make_load_token(1, CellAt(n - Cells), j.b[CellAt(n - Cells)]))
           [] n = 2 * Cells + 1 -> M2SRwD(tag, make_compute_token)
           [] OTHER -> M2SReq(tag, make_read_token(CellAt(n - 2 * Cells - 1)))]
=============================================================================
