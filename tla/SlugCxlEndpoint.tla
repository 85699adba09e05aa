-------------------------- MODULE SlugCxlEndpoint --------------------------
(***************************************************************************)
(* The SlugCXL Type-2 endpoint as the host simulates it: the endpoint's    *)
(* state machine (crates/slugcxl-gen/src/emit_endpoint.rs), the systolic   *)
(* array behind it, and the FLIT queues and clock of                       *)
(* crates/slugarch-verilator-sys/shim/ip_shim.cpp.                         *)
(***************************************************************************)
EXTENDS GemmWire

CONSTANTS
  Bytes,        \* operand values
  Late          \* may the array answer later than the next clock?

ASSUME EndpointAssumption ==
  /\ Bytes \subseteq 0..255 /\ 0 \in Bytes
  /\ Late \subseteq BOOLEAN /\ FALSE \in Late

Zero == [x \in Cell |-> 0]

VARIABLES
  \* registers of the endpoint
  state, cmd_valid, token_in, pend_tag, pend_is_read, pend_read_data,
  flit_out_valid, flit_out_data,
  \* registers of the systolic array
  a_mem, b_mem, c_mem, out_valid, read_data,
  \* FLIT queues of the shim
  inbound_flits, outbound_flits

arrayVars == <<a_mem, b_mem, c_mem, out_valid, read_data>>
rtlVars == <<state, cmd_valid, token_in, pend_tag, pend_is_read, pend_read_data,
             flit_out_valid, flit_out_data, arrayVars>>
endpointVars == <<rtlVars, inbound_flits, outbound_flits>>

(***************************************************************************)
(* The systolic array: one step per clock on whatever token it is shown,   *)
(* again and again while the token stays.  late: an array that needs more  *)
(* than one clock to compute or read.                                      *)
(***************************************************************************)
Dot(a, b, row, col) ==
  LET sum[k \in 0..Dim] ==
        IF k = 0 THEN 0 ELSE sum[k - 1] + a[<<row, k - 1>>] * b[<<k - 1, col>>]
  IN  sum[Dim] % 2^24

Product(a, b) == [x \in Cell |-> Dot(a, b, x[1], x[2])]

Loaded(mem, sel) ==
  IF token_in.op = "load" /\ token_in.sel = sel
  THEN [mem EXCEPT ![token_in.addr] = token_in.data] ELSE mem

ArrayClock(late) ==
  /\ a_mem' = Loaded(a_mem, 0)
  /\ b_mem' = Loaded(b_mem, 1)
  /\ c_mem' = IF token_in.op = "compute" /\ ~late THEN Product(a_mem, b_mem) ELSE c_mem
  /\ read_data' = IF token_in.op = "read" /\ ~late THEN c_mem[token_in.addr] ELSE read_data
  /\ out_valid' = (token_in.op \in {"compute", "read"} /\ ~late)

(***************************************************************************)
(* The endpoint's state machine, one operator per state                    *)
(***************************************************************************)
flit_in_valid == inbound_flits # <<>>
flit_in == Head(inbound_flits)

\* Mutant: starts to wait for done while the array still shows the last one.
NoDriveState(flit) ==
  CASE ~flit.claimed -> "EMIT_FAIL_SETUP"
    [] flit.claimed /\ flit.token.op = "load" -> "DRIVE_CMD_NO_DONE"
    [] OTHER -> "AWAIT_DONE"

\* Where an accepted FLIT takes the endpoint.  Pure loads never show done.
AcceptState(flit) ==
  CASE ~flit.claimed -> "EMIT_FAIL_SETUP"
    [] flit.claimed /\ flit.class = "RwD" /\ flit.token.op = "load" -> "DRIVE_CMD_NO_DONE"
    [] OTHER -> "DRIVE_CMD"

Idle ==
  /\ state = "IDLE"
  /\ cmd_valid' = FALSE
  /\ flit_out_valid' = FALSE
  /\ IF flit_in_valid
     THEN /\ state' = AcceptState(flit_in)
          /\ pend_tag' = flit_in.tag
          /\ pend_is_read' = IF flit_in.claimed THEN flit_in.class = "Req" ELSE pend_is_read
          /\ token_in' = IF flit_in.claimed THEN flit_in.token ELSE token_in
     ELSE UNCHANGED <<state, pend_tag, pend_is_read, token_in>>
  /\ UNCHANGED <<pend_read_data, flit_out_data>>

\* cmd_ready is always high.
DriveCmd ==
  /\ state = "DRIVE_CMD"
  /\ state' = "AWAIT_DONE"
  /\ cmd_valid' = TRUE
  /\ UNCHANGED <<token_in, pend_tag, pend_is_read, pend_read_data,
                 flit_out_valid, flit_out_data>>

\* The second assignment to cmd_valid wins.
DriveCmdNoDone ==
  /\ state = "DRIVE_CMD_NO_DONE"
  /\ state' = "EMIT_CMP_SETUP"
  /\ cmd_valid' = FALSE
  /\ UNCHANGED <<token_in, pend_tag, pend_is_read, pend_read_data,
                 flit_out_valid, flit_out_data>>

AwaitDone ==
  /\ state = "AWAIT_DONE"
  /\ cmd_valid' = FALSE
  /\ IF out_valid
     THEN /\ state' = IF pend_is_read THEN "EMIT_DATA_SETUP" ELSE "EMIT_CMP_SETUP"
          /\ pend_read_data' = IF pend_is_read THEN read_data ELSE pend_read_data
     ELSE UNCHANGED <<state, pend_read_data>>
  /\ UNCHANGED <<token_in, pend_tag, pend_is_read, flit_out_valid, flit_out_data>>

Emit(setup, hold, kind, data) ==
  /\ state = setup
  /\ state' = hold
  /\ flit_out_valid' = TRUE
  /\ flit_out_data' = Response(kind, pend_tag, data)
  /\ UNCHANGED <<cmd_valid, token_in, pend_tag, pend_is_read, pend_read_data>>

EmitCmp == Emit("EMIT_CMP_SETUP", "EMIT_CMP_HOLD", "Cmp", 0)
EmitData == Emit("EMIT_DATA_SETUP", "EMIT_DATA_HOLD", "MemData", pend_read_data)
EmitFail == Emit("EMIT_FAIL_SETUP", "EMIT_FAIL_HOLD", "DispatchFailed", 0)

Holding == {"EMIT_CMP_HOLD", "EMIT_DATA_HOLD", "EMIT_FAIL_HOLD"}

\* The shim keeps flit_out_ready high.
Hold ==
  /\ state \in Holding
  /\ state' = "IDLE"
  /\ flit_out_valid' = FALSE
  /\ UNCHANGED <<cmd_valid, token_in, pend_tag, pend_is_read, pend_read_data, flit_out_data>>

EndpointClock ==
  \/ Idle \/ DriveCmd \/ DriveCmdNoDone \/ AwaitDone
  \/ EmitCmp \/ EmitData \/ EmitFail \/ Hold

(***************************************************************************)
(* The shim                                                                *)
(***************************************************************************)
\* Mutant: never takes an answered FLIT off the wires.
NeverPop == FALSE

\* Mutant: takes the FLIT off the wires at the edge that accepts it.
PopOnAccept == flit_in_valid /\ state = "IDLE"

\* flit_in_ready, read after the edge: high when the endpoint is idle again.
Popped == flit_in_valid /\ state' = "IDLE"

\* tick: one clock, then a look at both handshakes.
Tick ==
  /\ EndpointClock
  /\ \E late \in Late : ArrayClock(late)
  /\ inbound_flits' = IF Popped THEN Tail(inbound_flits) ELSE inbound_flits
  /\ outbound_flits' = IF flit_out_valid' THEN Append(outbound_flits, flit_out_data')
                       ELSE outbound_flits

send_flit(flit) ==
  /\ inbound_flits' = Append(inbound_flits, flit)
  /\ UNCHANGED <<rtlVars, outbound_flits>>

recv_flit ==
  /\ outbound_flits # <<>>
  /\ outbound_flits' = Tail(outbound_flits)
  /\ UNCHANGED <<rtlVars, inbound_flits>>

EndpointInit ==
  /\ state = "IDLE" /\ cmd_valid = FALSE /\ token_in = NoToken
  /\ pend_tag = 0 /\ pend_is_read = FALSE /\ pend_read_data = 0
  /\ flit_out_valid = FALSE /\ flit_out_data = Response("Cmp", 0, 0)
  /\ a_mem = Zero /\ b_mem = Zero /\ c_mem = Zero
  /\ out_valid = FALSE /\ read_data = 0
  /\ inbound_flits = <<>> /\ outbound_flits = <<>>

\* A new shim, with new queues, and its reset.
EndpointReset ==
  /\ state' = "IDLE" /\ cmd_valid' = FALSE /\ token_in' = NoToken
  /\ pend_tag' = 0 /\ pend_is_read' = FALSE /\ pend_read_data' = 0
  /\ flit_out_valid' = FALSE /\ flit_out_data' = Response("Cmp", 0, 0)
  /\ a_mem' = Zero /\ b_mem' = Zero /\ c_mem' = Zero
  /\ out_valid' = FALSE /\ read_data' = 0
  /\ inbound_flits' = <<>> /\ outbound_flits' = <<>>
=============================================================================
