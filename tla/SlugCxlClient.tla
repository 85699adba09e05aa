--------------------------- MODULE SlugCxlClient ---------------------------
(***************************************************************************)
(* The SlugCXL endpoint under a client that sends what it likes, when it   *)
(* likes, without waiting for answers, and the claim that it then still   *)
(* is a GemmDevice.                                                        *)
(***************************************************************************)
EXTENDS SlugCxlEndpoint

CONSTANTS
  ClientFlits,     \* FLITs a client may send
  MaxFlits         \* bound on the FLITs in both queues

\* Of a token in use the operation, the operand, the cell and the value.
Token ==
  [op : {"none", "load", "compute", "read"}, sel : {0, 1}, addr : Cell, data : Bytes]

\* Clients build an M2SReq for reading only: dispatch.rs has no other use of it.
Flits ==
  {flit \in [claimed : BOOLEAN, class : {"RwD", "Req"}, tag : Tags, token : Token] :
     flit.claimed /\ flit.class = "Req" => flit.token.op = "read"}

ASSUME ClientAssumption == ClientFlits \subseteq Flits /\ MaxFlits \in Nat

Send(flit) ==
  /\ Len(inbound_flits) + Len(outbound_flits) < MaxFlits
  /\ send_flit(flit)

ClientNext ==
  \/ \E flit \in ClientFlits : Send(flit)
  \/ Tick
  \/ recv_flit

ClientSpec == EndpointInit /\ [][ClientNext]_endpointVars

(***************************************************************************)
(* Properties                                                              *)
(***************************************************************************)
\* The FLIT the endpoint works on is the one the shim still holds at the head of
\* its queue: the shim takes it away only when the endpoint is idle again, and
\* the endpoint looks at the wires only then.
WorksOnHead ==
  state # "IDLE" => /\ flit_in_valid
                    /\ pend_tag = flit_in.tag
                    /\ flit_in.claimed => token_in = flit_in.token
                    /\ flit_in.claimed => pend_is_read = (flit_in.class = "Req")

\* Has the array done what the FLIT in work asks for?
Effected ==
  \/ state = "AWAIT_DONE" /\ out_valid
  \/ state \in {"EMIT_CMP_SETUP", "EMIT_DATA_SETUP", "EMIT_FAIL_SETUP"} \cup Holding

\* The answer that is decided but not in the queue yet.
Decided ==
  CASE state = "AWAIT_DONE" /\ pend_is_read -> Response("MemData", pend_tag, read_data)
    [] state = "EMIT_DATA_SETUP" -> Response("MemData", pend_tag, pend_read_data)
    [] state = "EMIT_FAIL_SETUP" -> Response("DispatchFailed", pend_tag, 0)
    [] OTHER -> Response("Cmp", pend_tag, 0)

\* The two queues the device is seen to have.
asked == IF Effected THEN Tail(inbound_flits) ELSE inbound_flits
answered == IF Effected /\ state \notin Holding
            THEN Append(outbound_flits, Decided) ELSE outbound_flits

Device == INSTANCE GemmDevice WITH
  Requests <- ClientFlits, requests <- asked, responses <- answered,
  a <- a_mem, b <- b_mem, c <- c_mem

\* The endpoint, its array and the shim together serve every FLIT once, in
\* order and at one instant, although the array sees a token for many clocks
\* and its done of the last FLIT is still up when the next one starts.
ServesInOrder == Device!DeviceSpec

(***************************************************************************)
(* The inductive invariant behind both                                     *)
(***************************************************************************)
States == {"IDLE", "DRIVE_CMD", "DRIVE_CMD_NO_DONE", "AWAIT_DONE", "EMIT_CMP_SETUP",
           "EMIT_DATA_SETUP", "EMIT_FAIL_SETUP"} \cup Holding

QueueOK(q) == q \in Seq({q[n] : n \in DOMAIN q})

\* What each state knows of the FLIT in work.
InWork ==
  /\ state \in {"EMIT_FAIL_SETUP", "EMIT_FAIL_HOLD"} => ~flit_in.claimed
  /\ state \notin {"IDLE", "EMIT_FAIL_SETUP", "EMIT_FAIL_HOLD"} => flit_in.claimed
  /\ state = "DRIVE_CMD_NO_DONE" => flit_in.class = "RwD" /\ flit_in.token.op = "load"
  /\ state \in {"DRIVE_CMD", "AWAIT_DONE"} => flit_in.token.op # "load"
  /\ state \in {"EMIT_CMP_SETUP", "EMIT_CMP_HOLD"} => flit_in.class = "RwD"
  /\ state \in {"EMIT_DATA_SETUP", "EMIT_DATA_HOLD"} => flit_in.class = "Req"

\* The array has yet to do what the FLIT in work asks for.
Pending ==
  \/ state \in {"DRIVE_CMD", "DRIVE_CMD_NO_DONE"}
  \/ state = "AWAIT_DONE" /\ ~out_valid

\* Seeing its token once more changes nothing in the array's memories.
Settled ==
  /\ Loaded(a_mem, 0) = a_mem /\ Loaded(b_mem, 1) = b_mem
  /\ token_in.op = "compute" => c_mem = Product(a_mem, b_mem)

\* The value a read is answered with is the cell it asked for.
ReadOK ==
  /\ state = "AWAIT_DONE" /\ out_valid /\ pend_is_read => read_data = c_mem[token_in.addr]
  /\ state = "EMIT_DATA_SETUP" => pend_read_data = c_mem[token_in.addr]

\* An answer is on the wires exactly in the holding states, queues are queues,
\* the FLIT in work is the head, and the array has settled once it is effected.
ClientInv ==
  /\ state \in States
  /\ flit_out_valid <=> state \in Holding
  /\ inbound_flits \in Seq(Flits) /\ QueueOK(outbound_flits)
  /\ WorksOnHead /\ InWork
  /\ ~Pending => Settled
  /\ ReadOK
=============================================================================
