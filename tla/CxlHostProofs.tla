-------------------------- MODULE CxlHostProofs ---------------------------
(***************************************************************************)
(* The GEMM endpoint and the host that drives it: first the endpoint under *)
(* an arbitrary client, then the host on top of what its client may rely   *)
(* on, then what the recorder makes of its runs.                           *)
(***************************************************************************)
EXTENDS CxlReplay, SlugCxlClient, FiniteSetTheorems, TLAPS

(***************************************************************************)
(* The SlugCXL endpoint, its array and the shim serve every client FLIT    *)
(* once, in order and at one instant, for every matrix size, every set of  *)
(* FLITs and an array of any latency.                                      *)
(***************************************************************************)

(***************************************************************************)
(* Queues                                                                  *)
(***************************************************************************)
\* What clocks and calls do to a queue that is not empty.
LEMMA QueueFacts ==
  ASSUME NEW S, NEW q \in Seq(S)
  PROVE  /\ \A x \in S : /\ Append(q, x) \in Seq(S) /\ Append(q, x) # <<>>
                         /\ q # <<>> => /\ Head(Append(q, x)) = Head(q)
                                        /\ Tail(Append(q, x)) = Append(Tail(q), x)
         /\ q # <<>> => Tail(q) \in Seq(S) /\ Head(q) \in S
<1>1. ASSUME NEW x \in S, q # <<>>
      PROVE  Head(Append(q, x)) = Head(q) /\ Tail(Append(q, x)) = Append(Tail(q), x)
  <2>1. Len(q) \in Nat /\ Len(q) > 0 /\ Append(q, x) \in Seq(S)
        /\ Len(Append(q, x)) = Len(q) + 1
    BY <1>1
  <2>2. Head(Append(q, x)) = Head(q)
    BY <2>1, <1>1
  <2>3. /\ Tail(Append(q, x)) \in Seq(S) /\ Append(Tail(q), x) \in Seq(S)
        /\ Len(Tail(Append(q, x))) = Len(q) /\ Len(Append(Tail(q), x)) = Len(q)
    BY <2>1, <1>1
  <2>4. \A n \in 1..Len(q) : Tail(Append(q, x))[n] = Append(Tail(q), x)[n]
    BY <2>1, <1>1
  <2>5. Tail(Append(q, x)) = Append(Tail(q), x)
    <3> DEFINE u == Tail(Append(q, x))
               w == Append(Tail(q), x)
    <3>1. /\ u \in Seq(S) /\ w \in Seq(S) /\ Len(u) = Len(q) /\ Len(w) = Len(q)
          /\ \A n \in 1..Len(q) : u[n] = w[n]
      BY <2>3, <2>4
    <3> HIDE DEF u, w
    <3>2. u = [n \in 1..Len(q) |-> u[n]] /\ w = [n \in 1..Len(q) |-> w[n]]
      BY <3>1
    <3>3. u = w
      BY <3>1, <3>2
    <3>4. QED BY <3>3 DEF u, w
  <2>6. QED BY <2>2, <2>5
<1>2. ASSUME NEW x \in S PROVE Append(q, x) \in Seq(S) /\ Append(q, x) # <<>>
  <2>1. Append(q, x) \in Seq(S) /\ Len(Append(q, x)) = Len(q) + 1 /\ Len(q) \in Nat
    OBVIOUS
  <2>2. Len(<<>>) = 0
    OBVIOUS
  <2>3. QED BY <2>1, <2>2
<1>3. q # <<>> => Tail(q) \in Seq(S) /\ Head(q) \in S
  OBVIOUS
<1>4. QED BY <1>1, <1>2, <1>3

LEMMA QueueOfAny ==
  ASSUME NEW S, NEW q \in Seq(S)
  PROVE  QueueOK(q)
<1>1. Len(q) \in Nat /\ DOMAIN q = 1..Len(q) /\ q = [n \in 1..Len(q) |-> q[n]]
  OBVIOUS
<1>2. \A n \in 1..Len(q) : q[n] \in {q[m] : m \in DOMAIN q}
  BY <1>1
<1>3. QED BY <1>1, <1>2 DEF QueueOK

LEMMA QueueKept ==
  ASSUME NEW q, QueueOK(q)
  PROVE  /\ \A x : QueueOK(Append(q, x))
         /\ q # <<>> => QueueOK(Tail(q))
<1> DEFINE S == {q[n] : n \in DOMAIN q}
<1>1. q \in Seq(S)
  BY DEF QueueOK
<1> HIDE DEF S
<1>2. ASSUME NEW x PROVE QueueOK(Append(q, x))
  <2>1. q \in Seq(S \cup {x}) /\ x \in S \cup {x}
    <3>1. Len(q) \in Nat /\ \A n \in 1..Len(q) : q[n] \in S \cup {x}
      BY <1>1
    <3>2. QED BY <1>1, <3>1
  <2>2. Append(q, x) \in Seq(S \cup {x})
    BY <2>1
  <2>3. QED BY <2>2, QueueOfAny
<1>3. ASSUME q # <<>> PROVE QueueOK(Tail(q))
  BY <1>1, <1>3, QueueFacts, QueueOfAny
<1>4. QED BY <1>2, <1>3

LEMMA FlitFacts ==
  ASSUME NEW flit \in Flits
  PROVE  /\ flit.claimed \in BOOLEAN /\ flit.class \in {"RwD", "Req"}
         /\ flit.token \in Token
         /\ flit.claimed /\ flit.class = "Req" => flit.token.op = "read"
BY DEF Flits

(***************************************************************************)
(* The array                                                               *)
(***************************************************************************)
\* A settled array sees its token again without effect.
LEMMA ArrayRests ==
  ASSUME Settled, NEW late, ArrayClock(late)
  PROVE  a_mem' = a_mem /\ b_mem' = b_mem /\ c_mem' = c_mem
BY DEF Settled, ArrayClock

LEMMA StaysSettled ==
  ASSUME Settled, NEW late, ArrayClock(late), token_in' = token_in
  PROVE  Settled'
<1>1. a_mem' = a_mem /\ b_mem' = b_mem /\ c_mem' = c_mem
  BY ArrayRests
<1>2. QED BY <1>1 DEF Settled, Loaded

\* The clock at which the array does what its token says.
LEMMA BecomesSettled ==
  ASSUME NEW late \in BOOLEAN, ArrayClock(late), token_in' = token_in,
         token_in.op = "compute" => out_valid'
  PROVE  Settled'
<1>1. a_mem' = Loaded(a_mem, 0) /\ b_mem' = Loaded(b_mem, 1)
  BY DEF ArrayClock
<1>2. Loaded(a_mem, 0)' = a_mem' /\ Loaded(b_mem, 1)' = b_mem'
  BY <1>1 DEF Loaded
<1>3. ASSUME token_in.op = "compute" PROVE c_mem' = Product(a_mem', b_mem')
  <2>1. ~late
    BY <1>3 DEF ArrayClock
  <2>2. a_mem' = a_mem /\ b_mem' = b_mem
    BY <1>1, <1>3 DEF Loaded
  <2>3. QED BY <2>1, <2>2, <1>3 DEF ArrayClock
<1>4. QED BY <1>2, <1>3 DEF Settled

(***************************************************************************)
(* The invariant                                                           *)
(***************************************************************************)
\* The FLIT in work is a client's.
LEMMA HeadFacts ==
  ASSUME ClientInv, flit_in_valid
  PROVE  /\ flit_in \in Flits
         /\ flit_in.claimed \in BOOLEAN /\ flit_in.class \in {"RwD", "Req"}
         /\ flit_in.claimed /\ flit_in.class = "Req" => flit_in.token.op = "read"
<1>1. flit_in \in Flits
  BY QueueFacts DEF ClientInv, flit_in, flit_in_valid
<1>2. QED BY <1>1, FlitFacts

LEMMA WorkFacts ==
  ASSUME ClientInv, state # "IDLE"
  PROVE  /\ flit_in_valid /\ flit_in \in Flits
         /\ flit_in.claimed \in BOOLEAN /\ flit_in.class \in {"RwD", "Req"}
         /\ flit_in.claimed /\ flit_in.class = "Req" => flit_in.token.op = "read"
         /\ pend_tag = flit_in.tag
         /\ flit_in.claimed => token_in = flit_in.token
         /\ flit_in.claimed => (pend_is_read <=> flit_in.class = "Req")
<1>1. flit_in_valid
  BY DEF ClientInv, WorksOnHead
<1>2. QED BY <1>1, HeadFacts DEF ClientInv, WorksOnHead

\* A clock with the FLIT in work before and after it.
LEMMA WorkStays ==
  ASSUME ClientInv, state # "IDLE", inbound_flits' = inbound_flits,
         UNCHANGED <<pend_tag, token_in, pend_is_read>>
  PROVE  WorksOnHead' /\ flit_in' = flit_in
BY DEF ClientInv, WorksOnHead, flit_in, flit_in_valid

\* What a clock does to the queues.
LEMMA TickQueues ==
  ASSUME ClientInv, Tick, flit_out_valid' <=> state' \in Holding
  PROVE  /\ state' # "IDLE" => inbound_flits' = inbound_flits
         /\ state' = "IDLE" /\ flit_in_valid => inbound_flits' = Tail(inbound_flits)
         /\ state' \in Holding => outbound_flits' = Append(outbound_flits, flit_out_data')
         /\ state' \notin Holding => outbound_flits' = outbound_flits
         /\ inbound_flits' \in Seq(Flits) /\ QueueOK(outbound_flits')
<1>1. /\ state' # "IDLE" => inbound_flits' = inbound_flits
      /\ state' = "IDLE" /\ flit_in_valid => inbound_flits' = Tail(inbound_flits)
      /\ ~flit_in_valid => inbound_flits' = inbound_flits
  BY DEF Tick, Popped
<1>2. /\ state' \in Holding => outbound_flits' = Append(outbound_flits, flit_out_data')
      /\ state' \notin Holding => outbound_flits' = outbound_flits
  BY DEF Tick
<1>3. inbound_flits' \in Seq(Flits)
  BY <1>1, QueueFacts DEF ClientInv, flit_in_valid
<1>4. QueueOK(outbound_flits')
  BY <1>2, QueueKept DEF ClientInv
<1>5. QED BY <1>1, <1>2, <1>3, <1>4

\* Idle with nothing on the wires.
LEMMA IdleWaits ==
  ASSUME ClientInv, Tick, Idle, ~flit_in_valid
  PROVE  ClientInv'
<1>1. PICK late \in BOOLEAN : ArrayClock(late)
  BY EndpointAssumption DEF Tick
<1>2. /\ state = "IDLE" /\ state' = "IDLE" /\ ~flit_out_valid'
      /\ token_in' = token_in
  BY DEF Idle
<1>3. Settled'
  BY <1>1, <1>2, StaysSettled DEF ClientInv, Pending
<1>4. inbound_flits' \in Seq(Flits) /\ QueueOK(outbound_flits')
  BY <1>2, TickQueues DEF Holding
<1>5. QED BY <1>2, <1>3, <1>4 DEF ClientInv, States, Holding, WorksOnHead, InWork,
                                  Pending, ReadOK

\* Idle takes a FLIT: the array has seen only the token before it.
LEMMA IdleAccepts ==
  ASSUME ClientInv, Tick, Idle, flit_in_valid
  PROVE  /\ ClientInv' /\ UNCHANGED <<a_mem, b_mem, c_mem, inbound_flits, outbound_flits>>
         /\ flit_in' = flit_in
         /\ flit_in.claimed => state' \in {"DRIVE_CMD", "DRIVE_CMD_NO_DONE"}
         /\ ~flit_in.claimed => state' = "EMIT_FAIL_SETUP"
<1>1. PICK late \in BOOLEAN : ArrayClock(late)
  BY EndpointAssumption DEF Tick
<1>2. /\ flit_in.claimed \in BOOLEAN /\ flit_in.class \in {"RwD", "Req"}
      /\ flit_in.claimed /\ flit_in.class = "Req" => flit_in.token.op = "read"
  BY HeadFacts
<1>3. /\ state = "IDLE" /\ state' = AcceptState(flit_in) /\ ~flit_out_valid'
      /\ pend_tag' = flit_in.tag
      /\ flit_in.claimed => /\ pend_is_read' = (flit_in.class = "Req")
                            /\ token_in' = flit_in.token
      /\ ~flit_in.claimed => token_in' = token_in
  BY DEF Idle
<1>4. /\ ~flit_in.claimed => state' = "EMIT_FAIL_SETUP"
      /\ flit_in.claimed /\ flit_in.class = "RwD" /\ flit_in.token.op = "load" =>
           state' = "DRIVE_CMD_NO_DONE"
      /\ flit_in.claimed /\ ~(flit_in.class = "RwD" /\ flit_in.token.op = "load") =>
           state' = "DRIVE_CMD"
  BY <1>2, <1>3 DEF AcceptState
<1>5. /\ state' \in States /\ state' # "IDLE" /\ state' \notin Holding
      /\ state' \notin {"AWAIT_DONE", "EMIT_DATA_SETUP", "EMIT_CMP_SETUP"}
  BY <1>2, <1>4 DEF States, Holding
<1>6. Settled
  BY <1>3 DEF ClientInv, Pending
<1>7. UNCHANGED <<a_mem, b_mem, c_mem>>
  BY <1>1, <1>6, ArrayRests
<1>8. /\ inbound_flits' = inbound_flits /\ outbound_flits' = outbound_flits
      /\ inbound_flits' \in Seq(Flits) /\ QueueOK(outbound_flits')
  BY <1>3, <1>5, TickQueues
<1>9. flit_in' = flit_in /\ flit_in_valid'
  BY <1>8 DEF flit_in, flit_in_valid
<1>10. WorksOnHead'
  BY <1>3, <1>9 DEF WorksOnHead
<1>11. InWork'
  BY <1>2, <1>4, <1>9 DEF InWork
<1>12. ~Pending' => Settled'
  <2>1. CASE flit_in.claimed
    BY <2>1, <1>2, <1>4 DEF Pending
  <2>2. CASE ~flit_in.claimed
    BY <2>2, <1>1, <1>3, <1>6, StaysSettled
  <2>3. QED BY <2>1, <2>2
<1>13. ReadOK'
  BY <1>5 DEF ReadOK
<1>14. ClientInv'
  BY <1>3, <1>5, <1>8, <1>10, <1>11, <1>12, <1>13 DEF ClientInv
<1>15. QED BY <1>2, <1>4, <1>7, <1>8, <1>9, <1>14

\* A load reaches the array at the clock that drives it.
LEMMA DriveLoads ==
  ASSUME ClientInv, Tick, DriveCmdNoDone
  PROVE  /\ ClientInv' /\ UNCHANGED <<c_mem, inbound_flits, outbound_flits, pend_tag>>
         /\ state' = "EMIT_CMP_SETUP" /\ flit_in' = flit_in
         /\ a_mem' = Loaded(a_mem, 0) /\ b_mem' = Loaded(b_mem, 1)
<1>1. PICK late \in BOOLEAN : ArrayClock(late)
  BY EndpointAssumption DEF Tick
<1>2. /\ state = "DRIVE_CMD_NO_DONE" /\ state' = "EMIT_CMP_SETUP"
      /\ UNCHANGED <<token_in, pend_tag, pend_is_read, flit_out_valid>>
  BY DEF DriveCmdNoDone
<1>3. flit_in.claimed /\ flit_in.class = "RwD" /\ token_in.op = "load"
  BY <1>2, WorkFacts DEF ClientInv, InWork
<1>4. ~flit_out_valid'
  BY <1>2 DEF ClientInv, Holding
<1>5. /\ inbound_flits' = inbound_flits /\ outbound_flits' = outbound_flits
      /\ inbound_flits' \in Seq(Flits) /\ QueueOK(outbound_flits')
  BY <1>2, <1>4, TickQueues DEF Holding
<1>6. WorksOnHead' /\ flit_in' = flit_in
  BY <1>2, <1>5, WorkStays
<1>7. Settled'
  BY <1>1, <1>2, <1>3, BecomesSettled
<1>8. /\ a_mem' = Loaded(a_mem, 0) /\ b_mem' = Loaded(b_mem, 1) /\ c_mem' = c_mem
  BY <1>1, <1>3 DEF ArrayClock
<1>9. InWork' /\ ReadOK'
  BY <1>2, <1>3, <1>6 DEF InWork, ReadOK
<1>10. ClientInv'
  BY <1>2, <1>4, <1>5, <1>6, <1>7, <1>9 DEF ClientInv, States, Holding
<1>11. QED BY <1>2, <1>5, <1>6, <1>8, <1>10

\* The array works on a compute or a read, and is done at this clock or later.
LEMMA ArrayWorks ==
  ASSUME ClientInv, Tick, DriveCmd \/ (AwaitDone /\ ~out_valid)
  PROVE  /\ ClientInv'
         /\ UNCHANGED <<a_mem, b_mem, inbound_flits, outbound_flits, pend_tag, pend_is_read>>
         /\ state' = "AWAIT_DONE" /\ flit_in' = flit_in
         /\ flit_in.claimed /\ flit_in.token.op # "load"
         /\ ~out_valid' => c_mem' = c_mem
         /\ out_valid' => /\ flit_in.token.op = "compute" => c_mem' = Product(a_mem, b_mem)
                          /\ flit_in.token.op # "compute" => c_mem' = c_mem
                          /\ flit_in.class = "Req" => read_data' = c_mem[flit_in.token.addr]
<1>1. PICK late \in BOOLEAN : ArrayClock(late)
  BY EndpointAssumption DEF Tick
<1>2. /\ state \in {"DRIVE_CMD", "AWAIT_DONE"} /\ state' = "AWAIT_DONE"
      /\ UNCHANGED <<token_in, pend_tag, pend_is_read, flit_out_valid>>
  BY DEF DriveCmd, AwaitDone
<1>3. /\ flit_in.claimed /\ token_in = flit_in.token /\ flit_in.token.op # "load"
      /\ flit_in.class = "Req" => flit_in.token.op = "read"
      /\ pend_is_read <=> flit_in.class = "Req"
  BY <1>2, WorkFacts DEF ClientInv, InWork
<1>4. ~flit_out_valid'
  BY <1>2 DEF ClientInv, Holding
<1>5. /\ inbound_flits' = inbound_flits /\ outbound_flits' = outbound_flits
      /\ inbound_flits' \in Seq(Flits) /\ QueueOK(outbound_flits')
  BY <1>2, <1>4, TickQueues DEF Holding
<1>6. WorksOnHead' /\ flit_in' = flit_in
  BY <1>2, <1>5, WorkStays
<1>7. a_mem' = a_mem /\ b_mem' = b_mem
  BY <1>1, <1>3 DEF ArrayClock, Loaded
<1>8. /\ out_valid' <=> token_in.op \in {"compute", "read"} /\ ~late
      /\ token_in.op = "compute" /\ ~late => c_mem' = Product(a_mem, b_mem)
      /\ ~(token_in.op = "compute" /\ ~late) => c_mem' = c_mem
      /\ token_in.op = "read" /\ ~late => read_data' = c_mem[token_in.addr]
  BY <1>1 DEF ArrayClock
<1>9. ASSUME out_valid' PROVE Settled'
  BY <1>1, <1>2, <1>9, BecomesSettled
<1>10. InWork'
  BY <1>2, <1>3, <1>6 DEF InWork
<1>11. ReadOK'
  <2> SUFFICES ASSUME out_valid', pend_is_read' PROVE read_data' = c_mem'[token_in'.addr]
    BY <1>2 DEF ReadOK
  <2>1. token_in.op = "read" /\ ~late
    BY <1>2, <1>3, <1>8
  <2>2. QED BY <2>1, <1>2, <1>8
<1>12. ~Pending' => Settled'
  BY <1>2, <1>9 DEF Pending
<1>13. ClientInv'
  BY <1>2, <1>4, <1>5, <1>6, <1>10, <1>11, <1>12 DEF ClientInv, States, Holding
<1>14. QED BY <1>2, <1>3, <1>5, <1>6, <1>7, <1>8, <1>13

\* The endpoint sees done; the array keeps what it has.
LEMMA SeesDone ==
  ASSUME ClientInv, Tick, AwaitDone, out_valid
  PROVE  /\ ClientInv'
         /\ UNCHANGED <<a_mem, b_mem, c_mem, inbound_flits, outbound_flits, pend_tag>>
         /\ pend_is_read => state' = "EMIT_DATA_SETUP" /\ pend_read_data' = read_data
         /\ ~pend_is_read => state' = "EMIT_CMP_SETUP"
<1>1. PICK late \in BOOLEAN : ArrayClock(late)
  BY EndpointAssumption DEF Tick
<1>2. /\ state = "AWAIT_DONE"
      /\ pend_is_read => state' = "EMIT_DATA_SETUP" /\ pend_read_data' = read_data
      /\ ~pend_is_read => state' = "EMIT_CMP_SETUP"
      /\ UNCHANGED <<token_in, pend_tag, pend_is_read, flit_out_valid>>
  BY DEF AwaitDone
<1>3. /\ flit_in.claimed /\ flit_in.class \in {"RwD", "Req"}
      /\ pend_is_read <=> flit_in.class = "Req"
  BY <1>2, WorkFacts DEF ClientInv, InWork
<1>4. ~flit_out_valid'
  BY <1>2 DEF ClientInv, Holding
<1>5. state' \in {"EMIT_DATA_SETUP", "EMIT_CMP_SETUP"}
  BY <1>2
<1>6. /\ inbound_flits' = inbound_flits /\ outbound_flits' = outbound_flits
      /\ inbound_flits' \in Seq(Flits) /\ QueueOK(outbound_flits')
  BY <1>4, <1>5, TickQueues DEF Holding
<1>7. WorksOnHead' /\ flit_in' = flit_in
  BY <1>2, <1>6, WorkStays
<1>8. Settled
  BY <1>2 DEF ClientInv, Pending
<1>9. Settled' /\ UNCHANGED <<a_mem, b_mem, c_mem>>
  BY <1>1, <1>2, <1>8, StaysSettled, ArrayRests
<1>10. InWork'
  BY <1>2, <1>3, <1>5, <1>7 DEF InWork
<1>11. ReadOK'
  BY <1>2, <1>5, <1>9 DEF ReadOK, ClientInv
<1>12. ClientInv'
  BY <1>4, <1>5, <1>6, <1>7, <1>9, <1>10, <1>11 DEF ClientInv, States, Holding
<1>13. QED BY <1>2, <1>6, <1>9, <1>12

\* The answer goes onto the wires, and the shim takes it at the same clock.
LEMMA EmitAnswers ==
  ASSUME ClientInv, Tick, EmitCmp \/ EmitData \/ EmitFail
  PROVE  /\ ClientInv'
         /\ UNCHANGED <<a_mem, b_mem, c_mem, inbound_flits, pend_tag>>
         /\ state \in {"EMIT_CMP_SETUP", "EMIT_DATA_SETUP", "EMIT_FAIL_SETUP"}
         /\ state' \in Holding
         /\ outbound_flits' = Append(outbound_flits, Decided)
<1>1. PICK late \in BOOLEAN : ArrayClock(late)
  BY EndpointAssumption DEF Tick
<1>2. /\ flit_out_valid' /\ UNCHANGED <<token_in, pend_tag, pend_is_read, pend_read_data>>
      /\ \/ /\ state = "EMIT_CMP_SETUP" /\ state' = "EMIT_CMP_HOLD"
            /\ flit_out_data' = Response("Cmp", pend_tag, 0)
         \/ /\ state = "EMIT_DATA_SETUP" /\ state' = "EMIT_DATA_HOLD"
            /\ flit_out_data' = Response("MemData", pend_tag, pend_read_data)
         \/ /\ state = "EMIT_FAIL_SETUP" /\ state' = "EMIT_FAIL_HOLD"
            /\ flit_out_data' = Response("DispatchFailed", pend_tag, 0)
  BY DEF EmitCmp, EmitData, EmitFail, Emit
<1>3. state' \in Holding /\ state' \in States /\ state' # "IDLE" /\ state # "IDLE"
      /\ ~Pending'
  BY <1>2 DEF Holding, States, Pending
<1>4. flit_out_data' = Decided
  BY <1>2 DEF Decided
<1>5. /\ inbound_flits' = inbound_flits
      /\ outbound_flits' = Append(outbound_flits, flit_out_data')
      /\ inbound_flits' \in Seq(Flits) /\ QueueOK(outbound_flits')
  BY <1>2, <1>3, TickQueues
<1>6. WorksOnHead' /\ flit_in' = flit_in
  BY <1>2, <1>3, <1>5, WorkStays
<1>7. Settled
  BY <1>2 DEF ClientInv, Pending
<1>8. Settled' /\ UNCHANGED <<a_mem, b_mem, c_mem>>
  BY <1>1, <1>2, <1>7, StaysSettled, ArrayRests
<1>9. InWork'
  <2>1. InWork
    BY DEF ClientInv
  <2>2. QED BY <1>2, <1>6, <2>1 DEF InWork
<1>10. ReadOK'
  BY <1>2 DEF ReadOK
<1>11. ClientInv'
  BY <1>2, <1>3, <1>5, <1>6, <1>8, <1>9, <1>10 DEF ClientInv
<1>12. QED BY <1>2, <1>3, <1>4, <1>5, <1>8, <1>11

\* The endpoint is idle again and the shim drops the FLIT it served.
LEMMA HoldEnds ==
  ASSUME ClientInv, Tick, Hold
  PROVE  /\ ClientInv' /\ UNCHANGED <<a_mem, b_mem, c_mem, outbound_flits>>
         /\ state' = "IDLE" /\ inbound_flits' = Tail(inbound_flits)
<1>1. PICK late \in BOOLEAN : ArrayClock(late)
  BY EndpointAssumption DEF Tick
<1>2. /\ state \in Holding /\ state' = "IDLE" /\ ~flit_out_valid'
      /\ token_in' = token_in
  BY DEF Hold
<1>3. state # "IDLE" /\ ~Pending /\ "IDLE" \notin Holding
  BY <1>2 DEF Holding, Pending
<1>4. flit_in_valid
  BY <1>3, WorkFacts
<1>5. /\ inbound_flits' = Tail(inbound_flits) /\ outbound_flits' = outbound_flits
      /\ inbound_flits' \in Seq(Flits) /\ QueueOK(outbound_flits')
  BY <1>2, <1>3, <1>4, TickQueues
<1>6. Settled' /\ UNCHANGED <<a_mem, b_mem, c_mem>>
  BY <1>1, <1>2, <1>3, StaysSettled, ArrayRests DEF ClientInv
<1>7. ClientInv'
  BY <1>2, <1>5, <1>6 DEF ClientInv, States, Holding, WorksOnHead, InWork, ReadOK
<1>8. QED BY <1>2, <1>5, <1>6, <1>7

\* A client's call changes a queue, and not the FLIT in work.
LEMMA CallKeeps ==
  ASSUME ClientInv, (\E flit \in Flits : send_flit(flit)) \/ recv_flit
  PROVE  ClientInv'
<1>1. UNCHANGED rtlVars
  BY DEF send_flit, recv_flit
<1>2. /\ inbound_flits' \in Seq(Flits) /\ QueueOK(outbound_flits')
      /\ flit_in_valid => flit_in_valid' /\ flit_in' = flit_in
  <2>1. CASE recv_flit
    BY <2>1, QueueKept DEF recv_flit, ClientInv, flit_in, flit_in_valid
  <2>2. ASSUME NEW flit \in Flits, send_flit(flit)
        PROVE  /\ inbound_flits' \in Seq(Flits) /\ QueueOK(outbound_flits')
               /\ flit_in_valid => flit_in_valid' /\ flit_in' = flit_in
    <3>1. inbound_flits' = Append(inbound_flits, flit) /\ outbound_flits' = outbound_flits
      BY <2>2 DEF send_flit
    <3>2. inbound_flits \in Seq(Flits) /\ QueueOK(outbound_flits)
      BY DEF ClientInv
    <3>3. QED BY <3>1, <3>2, <2>2, QueueFacts DEF flit_in, flit_in_valid
  <2>3. QED BY <2>1, <2>2
<1>3. WorksOnHead'
  BY <1>1, <1>2 DEF ClientInv, WorksOnHead, rtlVars
<1>4. InWork'
  <2>1. CASE state = "IDLE"
    BY <2>1, <1>1 DEF InWork, rtlVars
  <2>2. CASE state # "IDLE"
    BY <2>2, <1>1, <1>2, WorkFacts DEF ClientInv, InWork, rtlVars
  <2>3. QED BY <2>1, <2>2
<1>5. (~Pending => Settled)' /\ ReadOK'
  BY <1>1 DEF ClientInv, Pending, Settled, Loaded, ReadOK, rtlVars, arrayVars
<1>6. QED BY <1>1, <1>2, <1>3, <1>4, <1>5 DEF ClientInv, rtlVars

\* One clock, by the endpoint's state.
LEMMA TickKeeps ==
  ASSUME ClientInv, Tick
  PROVE  ClientInv'
<1>1. \/ Idle \/ DriveCmd \/ DriveCmdNoDone \/ AwaitDone
      \/ EmitCmp \/ EmitData \/ EmitFail \/ Hold
  BY DEF Tick, EndpointClock
<1>2. QED BY <1>1, IdleWaits, IdleAccepts, DriveLoads, ArrayWorks, SeesDone, EmitAnswers,
             HoldEnds

LEMMA ClientStart ==
  ASSUME EndpointInit
  PROVE  ClientInv
<1>1. inbound_flits \in Seq(Flits) /\ outbound_flits \in Seq({})
  BY DEF EndpointInit
<1>2. QueueOK(outbound_flits)
  BY <1>1, QueueOfAny
<1>3. Settled
  BY DEF EndpointInit, Settled, Loaded, NoToken
<1>4. QED BY <1>1, <1>2, <1>3
           DEF EndpointInit, ClientInv, States, Holding, WorksOnHead, InWork, ReadOK

LEMMA ClientRests ==
  ASSUME ClientInv, UNCHANGED endpointVars
  PROVE  ClientInv'
BY DEF ClientInv, endpointVars, rtlVars, arrayVars, States, QueueOK, WorksOnHead,
       flit_in, flit_in_valid, InWork, Pending, Settled, Loaded, ReadOK

\* The invariant of the endpoint, its array and the shim's queues.
THEOREM ClientSafe == ClientSpec => []ClientInv
<1>1. EndpointInit => ClientInv
  BY ClientStart
<1>2. ClientInv /\ [ClientNext]_endpointVars => ClientInv'
  BY CallKeeps, TickKeeps, ClientRests, ClientAssumption DEF ClientNext, Send
<1>3. QED BY <1>1, <1>2, PTL DEF ClientSpec

\* The endpoint always works on the FLIT at the head of the shim's queue.
THEOREM HeadSafe == ClientSpec => []WorksOnHead
<1>1. ClientInv => WorksOnHead
  BY DEF ClientInv
<1>2. QED BY <1>1, ClientSafe, PTL

(***************************************************************************)
(* The endpoint implements GemmDevice                                      *)
(***************************************************************************)
LEMMA EffectedStates ==
  /\ state \in {"IDLE", "DRIVE_CMD", "DRIVE_CMD_NO_DONE"} => ~Effected
  /\ state = "AWAIT_DONE" => (Effected <=> out_valid) /\ state \notin Holding
  /\ state \in {"EMIT_CMP_SETUP", "EMIT_DATA_SETUP", "EMIT_FAIL_SETUP"} =>
       Effected /\ state \notin Holding
  /\ state \in Holding => Effected
BY DEF Effected, Holding

LEMMA NothingSeen ==
  ASSUME asked' = asked, answered' = answered, UNCHANGED <<a_mem, b_mem, c_mem>>
  PROVE  UNCHANGED Device!deviceVars
BY DEF asked, answered, Device!deviceVars

\* The clock at which a FLIT takes effect is the device's service of it.
LEMMA Serves ==
  ASSUME flit_in_valid, ~Effected, Effected', state' \notin Holding,
         UNCHANGED <<inbound_flits, outbound_flits>>,
         Decided' = Device!DeviceAnswer(flit_in),
         a_mem' = IF Device!Loads(flit_in, 0)
                  THEN [a_mem EXCEPT ![flit_in.token.addr] = flit_in.token.data] ELSE a_mem,
         b_mem' = IF Device!Loads(flit_in, 1)
                  THEN [b_mem EXCEPT ![flit_in.token.addr] = flit_in.token.data] ELSE b_mem,
         c_mem' = IF flit_in.claimed /\ flit_in.token.op = "compute"
                  THEN Product(a_mem, b_mem) ELSE c_mem
  PROVE  Device!Serve
<1>1. /\ asked = inbound_flits /\ asked' = Tail(inbound_flits)
      /\ answered = outbound_flits
      /\ answered' = Append(outbound_flits, Device!DeviceAnswer(flit_in))
  BY DEF asked, answered
<1>2. asked # <<>> /\ Head(asked) = flit_in
  BY <1>1 DEF flit_in, flit_in_valid
<1>3. asked' = Tail(asked) /\ answered' = Append(answered, Device!DeviceAnswer(Head(asked)))
  BY <1>1, <1>2
<1>4. QED BY <1>2, <1>3 DEF Device!Serve, asked, answered

LEMMA IdleRefines ==
  ASSUME ClientInv, Tick, Idle
  PROVE  Device!Serve \/ UNCHANGED Device!deviceVars
<1>1. state = "IDLE" /\ ~Effected
  BY EffectedStates DEF Idle
<1>2. CASE ~flit_in_valid
  <2>1. PICK late \in BOOLEAN : ArrayClock(late)
    BY EndpointAssumption DEF Tick
  <2>2. state' = "IDLE" /\ ~flit_out_valid'
    BY <1>2 DEF Idle
  <2>3. UNCHANGED <<a_mem, b_mem, c_mem>>
    BY <2>1, <1>1, ArrayRests DEF ClientInv, Pending
  <2>4. ~Effected'
    BY <2>2 DEF Effected, Holding
  <2>5. UNCHANGED <<inbound_flits, outbound_flits>>
    BY <2>2, <1>2 DEF Tick, Popped
  <2>6. QED BY <2>3, <2>4, <2>5, <1>1, NothingSeen DEF asked, answered
<1>3. CASE flit_in_valid
  <2>1. /\ UNCHANGED <<a_mem, b_mem, c_mem, inbound_flits, outbound_flits>>
        /\ flit_in' = flit_in
        /\ flit_in.claimed => state' \in {"DRIVE_CMD", "DRIVE_CMD_NO_DONE"}
        /\ ~flit_in.claimed => state' = "EMIT_FAIL_SETUP"
    BY <1>3, IdleAccepts
  <2>2. CASE flit_in.claimed
    <3>1. ~Effected'
      BY <2>1, <2>2 DEF Effected, Holding
    <3>2. QED BY <3>1, <2>1, <1>1, NothingSeen DEF asked, answered
  <2>3. CASE ~flit_in.claimed
    <3>1. Effected' /\ state' \notin Holding
      BY <2>1, <2>3 DEF Effected, Holding
    <3>2. pend_tag' = flit_in.tag
      BY <1>3 DEF Idle
    <3>3. Decided' = Response("DispatchFailed", flit_in.tag, 0)
      BY <3>2, <2>1, <2>3 DEF Decided
    <3>4. Decided' = Device!DeviceAnswer(flit_in)
      BY <3>3, <2>3 DEF Device!DeviceAnswer, Response
    <3>5. Device!Serve
      BY <3>1, <3>4, <2>1, <2>3, <1>1, <1>3, Serves DEF Device!Loads
    <3>6. QED BY <3>5 DEF Device!DeviceNext
  <2>4. QED BY <2>2, <2>3
<1>4. QED BY <1>2, <1>3

LEMMA LoadRefines ==
  ASSUME ClientInv, Tick, DriveCmdNoDone
  PROVE  Device!Serve
<1>1. state = "DRIVE_CMD_NO_DONE" /\ ~Effected
  BY EffectedStates DEF DriveCmdNoDone
<1>2. /\ flit_in_valid /\ flit_in.claimed /\ flit_in.class = "RwD"
      /\ flit_in.token.op = "load" /\ token_in = flit_in.token /\ pend_tag = flit_in.tag
  BY <1>1, WorkFacts DEF ClientInv, InWork
<1>3. /\ UNCHANGED <<c_mem, inbound_flits, outbound_flits, pend_tag>>
      /\ state' = "EMIT_CMP_SETUP"
      /\ a_mem' = Loaded(a_mem, 0) /\ b_mem' = Loaded(b_mem, 1)
  BY DriveLoads
<1>4. Effected' /\ state' \notin Holding
  BY <1>3 DEF Effected, Holding
<1>5. Decided' = Response("Cmp", flit_in.tag, 0)
  BY <1>2, <1>3 DEF Decided
<1>6. Decided' = Device!DeviceAnswer(flit_in)
  BY <1>2, <1>5 DEF Device!DeviceAnswer, Response
<1>7. /\ a_mem' = IF Device!Loads(flit_in, 0)
                  THEN [a_mem EXCEPT ![flit_in.token.addr] = flit_in.token.data] ELSE a_mem
      /\ b_mem' = IF Device!Loads(flit_in, 1)
                  THEN [b_mem EXCEPT ![flit_in.token.addr] = flit_in.token.data] ELSE b_mem
  BY <1>2, <1>3 DEF Device!Loads, Loaded
<1>8. QED BY <1>1, <1>2, <1>3, <1>4, <1>6, <1>7, Serves

LEMMA WorkRefines ==
  ASSUME ClientInv, Tick, DriveCmd \/ (AwaitDone /\ ~out_valid)
  PROVE  Device!Serve \/ UNCHANGED Device!deviceVars
<1>1. state \in {"DRIVE_CMD", "AWAIT_DONE"} /\ ~Effected /\ state # "IDLE"
  BY EffectedStates DEF DriveCmd, AwaitDone
<1>2. /\ flit_in_valid /\ pend_tag = flit_in.tag /\ flit_in.class \in {"RwD", "Req"}
      /\ flit_in.claimed => (pend_is_read <=> flit_in.class = "Req")
  BY <1>1, WorkFacts
<1>3. /\ UNCHANGED <<a_mem, b_mem, inbound_flits, outbound_flits, pend_tag, pend_is_read>>
      /\ state' = "AWAIT_DONE" /\ flit_in.claimed /\ flit_in.token.op # "load"
      /\ ~out_valid' => c_mem' = c_mem
      /\ out_valid' => /\ flit_in.token.op = "compute" => c_mem' = Product(a_mem, b_mem)
                       /\ flit_in.token.op # "compute" => c_mem' = c_mem
                       /\ flit_in.class = "Req" => read_data' = c_mem[flit_in.token.addr]
  BY ArrayWorks
<1>4. (Effected' <=> out_valid') /\ state' \notin Holding
  BY <1>3 DEF Effected, Holding
<1>5. CASE ~out_valid'
  BY <1>1, <1>3, <1>4, <1>5, NothingSeen DEF asked, answered
<1>6. CASE out_valid'
  <2>1. /\ flit_in.class = "Req" =>
             Decided' = Response("MemData", flit_in.tag, c_mem[flit_in.token.addr])
        /\ flit_in.class # "Req" => Decided' = Response("Cmp", flit_in.tag, 0)
    BY <1>2, <1>3, <1>6 DEF Decided
  <2>2. Decided' = Device!DeviceAnswer(flit_in)
    BY <2>1, <1>2, <1>3 DEF Device!DeviceAnswer, Response
  <2>3. /\ a_mem' = IF Device!Loads(flit_in, 0)
                    THEN [a_mem EXCEPT ![flit_in.token.addr] = flit_in.token.data] ELSE a_mem
        /\ b_mem' = IF Device!Loads(flit_in, 1)
                    THEN [b_mem EXCEPT ![flit_in.token.addr] = flit_in.token.data] ELSE b_mem
    BY <1>3 DEF Device!Loads
  <2>4. c_mem' = IF flit_in.claimed /\ flit_in.token.op = "compute"
                 THEN Product(a_mem, b_mem) ELSE c_mem
    BY <1>3, <1>6
  <2>5. QED BY <2>2, <2>3, <2>4, <1>1, <1>2, <1>3, <1>4, <1>6, Serves
<1>7. QED BY <1>5, <1>6

\* Once a FLIT has taken effect, the clocks until the next are not seen.
LEMMA RestUnseen ==
  ASSUME ClientInv, Tick,
         (AwaitDone /\ out_valid) \/ EmitCmp \/ EmitData \/ EmitFail \/ Hold
  PROVE  UNCHANGED Device!deviceVars
<1>1. CASE AwaitDone /\ out_valid
  <2>1. /\ UNCHANGED <<a_mem, b_mem, c_mem, inbound_flits, outbound_flits, pend_tag>>
        /\ pend_is_read => state' = "EMIT_DATA_SETUP" /\ pend_read_data' = read_data
        /\ ~pend_is_read => state' = "EMIT_CMP_SETUP"
    BY <1>1, SeesDone
  <2>2. state = "AWAIT_DONE" /\ Effected /\ state \notin Holding
    BY <1>1, EffectedStates DEF AwaitDone
  <2>3. Effected' /\ state' \notin Holding
    BY <2>1 DEF Effected, Holding
  <2>4. Decided' = Decided
    BY <2>1, <2>2 DEF Decided
  <2>5. QED BY <2>1, <2>2, <2>3, <2>4, NothingSeen DEF asked, answered
<1>2. CASE EmitCmp \/ EmitData \/ EmitFail
  <2>1. /\ UNCHANGED <<a_mem, b_mem, c_mem, inbound_flits>>
        /\ state \in {"EMIT_CMP_SETUP", "EMIT_DATA_SETUP", "EMIT_FAIL_SETUP"}
        /\ state' \in Holding /\ outbound_flits' = Append(outbound_flits, Decided)
    BY <1>2, EmitAnswers
  <2>2. Effected /\ state \notin Holding /\ Effected'
    BY <2>1, EffectedStates DEF Effected
  <2>3. QED BY <2>1, <2>2, NothingSeen DEF asked, answered
<1>3. CASE Hold
  <2>1. /\ UNCHANGED <<a_mem, b_mem, c_mem, outbound_flits>>
        /\ state' = "IDLE" /\ inbound_flits' = Tail(inbound_flits)
    BY <1>3, HoldEnds
  <2>2. Effected /\ state \in Holding /\ ~Effected'
    BY <1>3, <2>1, EffectedStates DEF Hold, Effected, Holding
  <2>3. QED BY <2>1, <2>2, NothingSeen DEF asked, answered
<1>4. QED BY <1>1, <1>2, <1>3

\* A clock serves one request, or changes nothing that a client could tell.
LEMMA TickRefines ==
  ASSUME ClientInv, Tick
  PROVE  Device!Serve \/ UNCHANGED Device!deviceVars
<1>1. \/ Idle \/ DriveCmd \/ DriveCmdNoDone \/ AwaitDone
      \/ EmitCmp \/ EmitData \/ EmitFail \/ Hold
  BY DEF Tick, EndpointClock
<1>2. QED BY <1>1, IdleRefines, LoadRefines, WorkRefines, RestUnseen

LEMMA SendRefines ==
  ASSUME ClientInv, NEW flit \in Flits, send_flit(flit)
  PROVE  Device!Ask(flit)
<1>1. /\ inbound_flits' = Append(inbound_flits, flit)
      /\ UNCHANGED <<state, pend_tag, pend_is_read, pend_read_data, a_mem, b_mem, c_mem,
                     out_valid, read_data, outbound_flits>>
  BY DEF send_flit, rtlVars, arrayVars
<1>2. inbound_flits \in Seq(Flits) /\ (Effected => inbound_flits # <<>>)
  <2>1. Effected => state # "IDLE"
    BY DEF Effected, Holding
  <2>2. QED BY <2>1 DEF ClientInv, WorksOnHead, flit_in_valid
<1>3. (Effected' <=> Effected) /\ Decided' = Decided
  BY <1>1 DEF Effected, Decided
<1>4. asked' = Append(asked, flit)
  BY <1>1, <1>2, <1>3, QueueFacts DEF asked
<1>5. answered' = answered
  BY <1>1, <1>3 DEF answered
<1>6. QED BY <1>1, <1>4, <1>5 DEF Device!Ask, asked, answered

LEMMA RecvRefines ==
  ASSUME ClientInv, recv_flit
  PROVE  Device!Take
<1>1. /\ outbound_flits # <<>> /\ outbound_flits' = Tail(outbound_flits)
      /\ UNCHANGED <<state, pend_tag, pend_is_read, pend_read_data, a_mem, b_mem, c_mem,
                     out_valid, read_data, inbound_flits>>
  BY DEF recv_flit, rtlVars, arrayVars
<1>2. (Effected' <=> Effected) /\ Decided' = Decided
  BY <1>1 DEF Effected, Decided
<1>3. asked' = asked
  BY <1>1, <1>2 DEF asked
<1> DEFINE S == {outbound_flits[n] : n \in DOMAIN outbound_flits} \cup {Decided}
<1>4. outbound_flits \in Seq(S) /\ Decided \in S
  <2>1. outbound_flits \in Seq({outbound_flits[n] : n \in DOMAIN outbound_flits})
    BY DEF ClientInv, QueueOK
  <2>2. QED BY <2>1
<1> HIDE DEF S
<1>5. answered # <<>> /\ answered' = Tail(answered)
  <2>1. /\ Append(outbound_flits, Decided) # <<>>
        /\ Tail(Append(outbound_flits, Decided)) = Append(Tail(outbound_flits), Decided)
    BY <1>1, <1>4, QueueFacts
  <2>2. CASE Effected /\ state \notin Holding
    BY <2>1, <2>2, <1>1, <1>2 DEF answered
  <2>3. CASE ~(Effected /\ state \notin Holding)
    BY <2>3, <1>1, <1>2 DEF answered
  <2>4. QED BY <2>2, <2>3
<1>6. QED BY <1>1, <1>3, <1>5 DEF Device!Take, asked, answered

LEMMA StartRefines ==
  ASSUME EndpointInit
  PROVE  Device!DeviceInit
<1>1. ~Effected
  BY DEF EndpointInit, Effected, Holding
<1>2. asked = <<>> /\ answered = <<>>
  BY <1>1 DEF EndpointInit, asked, answered
<1>3. QED BY <1>2 DEF EndpointInit, Device!DeviceInit, asked, answered

LEMMA RestRefines ==
  ASSUME UNCHANGED endpointVars
  PROVE  UNCHANGED Device!deviceVars
<1>1. asked' = asked /\ answered' = answered
  BY DEF endpointVars, rtlVars, arrayVars, asked, answered, Effected, Decided
<1>2. QED BY <1>1, NothingSeen DEF endpointVars, rtlVars, arrayVars

\* Every behaviour of the endpoint under its clients is one of a device that
\* serves their FLITs one at a time, in order, and answers each once.
THEOREM EndpointServes == ClientSpec => ServesInOrder
<1>1. EndpointInit => Device!DeviceInit
  BY StartRefines
<1>2. ClientInv /\ [ClientNext]_endpointVars => [Device!DeviceNext]_(Device!deviceVars)
  <2> SUFFICES ASSUME ClientInv, [ClientNext]_endpointVars
               PROVE  Device!DeviceNext \/ UNCHANGED Device!deviceVars
    OBVIOUS
  <2>1. CASE UNCHANGED endpointVars
    BY <2>1, RestRefines
  <2>2. ASSUME NEW flit \in ClientFlits, Send(flit) PROVE Device!DeviceNext
    BY <2>2, SendRefines, ClientAssumption DEF Device!DeviceNext, Send
  <2>3. CASE recv_flit
    BY <2>3, RecvRefines DEF Device!DeviceNext
  <2>4. CASE Tick
    BY <2>4, TickRefines DEF Device!DeviceNext
  <2>5. QED BY <2>1, <2>2, <2>3, <2>4 DEF ClientNext
<1>3. QED BY <1>1, <1>2, ClientSafe, PTL DEF ClientSpec, ServesInOrder, Device!DeviceSpec

(***************************************************************************)
(* What a GEMM over CXL returns, for every size of the matrices, pairs of  *)
(* them, number of runs and timeout, and however late the array answers.   *)
(*                                                                         *)
(* The host is a client of the endpoint, and the endpoint is a GemmDevice  *)
(* to its clients: the host's steps are reasoned about on the device's two *)
(* queues and memories, and never on the registers of the endpoint.        *)
(***************************************************************************)

(***************************************************************************)
(* The inductive invariant                                                 *)
(***************************************************************************)
\* The tags of the answers still to come, in the order they will come in.
TagCount == Len(answered) + Len(asked)
TagAt(n) == IF n <= Len(answered) THEN answered[n].tag ELSE asked[n - Len(answered)].tag

Waiting == pc \in {"wait", "poll"}

\* The right answer to the n-th FLIT of the run.
Expected(n) ==
  IF n <= 2 * Cells + 1 THEN Response("Cmp", stream[n].tag, 0)
  ELSE Response("MemData", stream[n].tag, Product(job.a, job.b)[CellAt(n - 2 * Cells - 1)])

\* The array's memories after the first m FLITs of the run.
MemOK(m) ==
  /\ \A n \in 1..Cells : n <= m => a_mem[CellAt(n)] = job.a[CellAt(n)]
  /\ \A n \in 1..Cells : Cells + n <= m => b_mem[CellAt(n)] = job.b[CellAt(n)]
  /\ m > 2 * Cells => c_mem = Product(job.a, job.b)

\* The answers to reads among the first m answers of the run.
ReadsOK(m) ==
  /\ QueueOK(read_responses)
  /\ Len(read_responses) = IF m <= 2 * Cells + 1 THEN 0 ELSE m - 2 * Cells - 1
  /\ \A n \in 1..Len(read_responses) :
       read_responses[n].data = Product(job.a, job.b)[CellAt(n)]

\* A host that has always waited for its answers: nothing is under way but the
\* FLIT it waits for, or the right answer to it.
InStep ==
  /\ ~Waiting => asked = <<>> /\ answered = <<>>
  /\ pc = "idle" => result \in {"none", "ok"}
  /\ pc # "idle" =>
       /\ k \in 1..StreamLength + 1 /\ (Waiting => k <= StreamLength)
       /\ ReadsOK(k - 1)
       /\ ~Waiting => MemOK(k - 1)
       /\ Waiting => \/ asked = <<stream[k]>> /\ answered = <<>> /\ MemOK(k - 1)
                     \/ asked = <<>> /\ answered = <<Expected(k)>> /\ MemOK(k)

\* A host that has given up on an answer: before the answer to the first FLIT of
\* any later run comes another one, and none of those has its tag.
OutOfStep ==
  /\ pc = "idle" => result \notin {"none", "ok"}
  /\ pc # "idle" => k = 1
  /\ TagCount >= IF Waiting THEN 2 ELSE 1
  /\ pc # "idle" => \A n \in 1..(IF Waiting THEN TagCount - 1 ELSE TagCount) :
                      TagAt(n) # stream[1].tag
  /\ runs < MaxRuns => \A n \in 1..TagCount : TagAt(n) \in 0..next_tag - 1

\* Tags do not come round while another run is possible.
TagsFresh ==
  /\ runs \in 0..MaxRuns /\ next_tag \in Nat
  /\ runs < MaxRuns => next_tag + (MaxRuns - 1 - runs) * StreamLength < TagSpace
  /\ pc # "idle" /\ runs < MaxRuns => \A n \in 1..StreamLength : stream[n].tag \in 0..next_tag - 1

HostInv ==
  /\ ClientInv
  /\ a_mem \in Matrix(Bytes) /\ b_mem \in Matrix(Bytes)
  /\ pc \in {"idle", "start", "send", "wait", "poll"} /\ timed_out \in BOOLEAN
  /\ pc # "idle" => /\ result = "running" /\ job \in Jobs
                    /\ \E t \in Nat : stream = DispatchStream(job, t)
  /\ TagsFresh
  /\ RightAnswer
  /\ IF timed_out THEN OutOfStep ELSE InStep

\* A host has tags enough to tell its runs apart: 2^16 of them suffice for 1338
\* runs of 4 x 4 products.
TagsFit == (MaxRuns - 1) * StreamLength < TagSpace

(***************************************************************************)
(* Sizes, cells and FLITs                                                  *)
(***************************************************************************)
LEMMA Sizes ==
  /\ Dim \in 1..16 /\ Dim \in Nat /\ TagSpace \in Nat \ {0}
  /\ Cells \in Nat \ {0} /\ StreamLength \in Nat /\ StreamLength = 3 * Cells + 1
  /\ MaxRuns \in Nat
<1>1. Dim \in 1..16 /\ TagSpace \in Nat \ {0} /\ MaxRuns \in Nat
  BY WireAssumption, HostAssumption
<1>2. Dim * Dim \in Nat \ {0}
  BY <1>1
<1>3. QED BY <1>1, <1>2 DEF Cells, StreamLength

\* CellAt numbers the cells row by row, and decode_results finds each of them
\* at its number.
LEMMA CellNumbers ==
  /\ \A n \in 1..Cells : CellAt(n) \in Cell
  /\ \A x \in Cell : /\ x[1] * Dim + x[2] + 1 \in 1..Cells
                     /\ CellAt(x[1] * Dim + x[2] + 1) = x
<1>1. Dim \in 1..16
  BY Sizes
<1>2. ASSUME NEW n \in 1..(Dim * Dim)
      PROVE  (n - 1) \div Dim \in 0..Dim - 1 /\ (n - 1) % Dim \in 0..Dim - 1
  BY <1>1
<1>3. ASSUME NEW r \in 0..Dim - 1, NEW c \in 0..Dim - 1, NEW m, m = r * Dim + c + 1
      PROVE  m \in 1..(Dim * Dim) /\ (m - 1) \div Dim = r /\ (m - 1) % Dim = c
  BY <1>1, <1>3
<1>4. \A n \in 1..Cells : CellAt(n) \in Cell
  BY <1>2 DEF Cells, CellAt, Cell
<1>5. ASSUME NEW x \in Cell
      PROVE  x[1] * Dim + x[2] + 1 \in 1..Cells /\ CellAt(x[1] * Dim + x[2] + 1) = x
  <2>1. PICK r \in 0..Dim - 1, c \in 0..Dim - 1 : x = <<r, c>>
    BY DEF Cell
  <2> DEFINE m == r * Dim + c + 1
  <2>2. m = r * Dim + c + 1 /\ x[1] * Dim + x[2] + 1 = m
    BY <2>1
  <2> HIDE DEF m
  <2>3. m \in 1..(Dim * Dim) /\ (m - 1) \div Dim = r /\ (m - 1) % Dim = c
    BY <1>3, <2>2
  <2>4. QED BY <2>1, <2>2, <2>3 DEF CellAt, Cells
<1>6. QED BY <1>4, <1>5

\* The FLITs of a run, in its four parts.
LEMMA StreamParts ==
  ASSUME NEW j \in Jobs, NEW t \in Nat, NEW n \in 1..StreamLength
  PROVE  LET flit == DispatchStream(j, t)[n]
         IN  /\ flit \in Flits /\ flit.claimed /\ flit.tag = (t + n - 1) % TagSpace
             /\ n <= Cells =>
                  flit.class = "RwD" /\ flit.token = make_load_token(0, CellAt(n), j.a[CellAt(n)])
             /\ n \in Cells + 1..2 * Cells =>
                  /\ flit.class = "RwD"
                  /\ flit.token = make_load_token(1, CellAt(n - Cells), j.b[CellAt(n - Cells)])
             /\ n = 2 * Cells + 1 => flit.class = "RwD" /\ flit.token = make_compute_token
             /\ n > 2 * Cells + 1 =>
                  flit.class = "Req" /\ flit.token = make_read_token(CellAt(n - 2 * Cells - 1))
<1> DEFINE flit == DispatchStream(j, t)[n]
           tag == (t + n - 1) % TagSpace
<1>1. flit = CASE n <= Cells ->
                    M2SRwD(tag, make_load_token(0, CellAt(n), j.a[CellAt(n)]))
               [] n \in Cells + 1..2 * Cells ->
                    M2SRwD(tag, make_load_token(1, CellAt(n - Cells), j.b[CellAt(n - Cells)]))
               [] n = 2 * Cells + 1 -> M2SRwD(tag, make_compute_token)
               [] OTHER -> M2SReq(tag, make_read_token(CellAt(n - 2 * Cells - 1)))
  BY DEF DispatchStream
<1>2. tag \in Tags
  <2>1. t + n - 1 \in Nat /\ TagSpace \in Nat \ {0}
    BY Sizes
  <2>2. QED BY <2>1 DEF Tags
<1>3. j.a \in [Cell -> Bytes] /\ j.b \in [Cell -> Bytes] /\ 0 \in Bytes
  BY HostAssumption, EndpointAssumption DEF Matrix
<1>4. <<0, 0>> \in Cell
  BY Sizes DEF Cell
<1> HIDE DEF flit, tag
<1>5. CASE n <= Cells
  <2>1. flit = M2SRwD(tag, make_load_token(0, CellAt(n), j.a[CellAt(n)]))
    BY <1>1, <1>5, Sizes
  <2>2. CellAt(n) \in Cell
    BY <1>5, CellNumbers, Sizes
  <2>3. make_load_token(0, CellAt(n), j.a[CellAt(n)]) \in Token
    BY <2>2, <1>3 DEF make_load_token, Token
  <2>4. QED BY <2>1, <2>3, <1>2, <1>5, Sizes DEF M2SRwD, Flit, Flits, flit, tag
<1>6. CASE n \in Cells + 1..2 * Cells
  <2>1. flit = M2SRwD(tag, make_load_token(1, CellAt(n - Cells), j.b[CellAt(n - Cells)]))
    BY <1>1, <1>6, Sizes
  <2>2. CellAt(n - Cells) \in Cell
    BY <1>6, CellNumbers, Sizes
  <2>3. make_load_token(1, CellAt(n - Cells), j.b[CellAt(n - Cells)]) \in Token
    BY <2>2, <1>3 DEF make_load_token, Token
  <2>4. QED BY <2>1, <2>3, <1>2, <1>6, Sizes DEF M2SRwD, Flit, Flits, flit, tag
<1>7. CASE n = 2 * Cells + 1
  <2>1. flit = M2SRwD(tag, make_compute_token)
    BY <1>1, <1>7, Sizes
  <2>2. make_compute_token \in Token
    BY <1>3, <1>4 DEF make_compute_token, NoToken, Token
  <2>3. QED BY <2>1, <2>2, <1>2, <1>7, Sizes DEF M2SRwD, Flit, Flits, flit, tag
<1>8. CASE n > 2 * Cells + 1
  <2>1. flit = M2SReq(tag, make_read_token(CellAt(n - 2 * Cells - 1)))
    BY <1>1, <1>8, Sizes
  <2>2. CellAt(n - 2 * Cells - 1) \in Cell
    BY <1>8, CellNumbers, Sizes
  <2>3. make_read_token(CellAt(n - 2 * Cells - 1)) \in Token
    BY <1>3, <2>2 DEF make_read_token, NoToken, Token
  <2>4. make_read_token(CellAt(n - 2 * Cells - 1)).op = "read"
    BY DEF make_read_token, NoToken
  <2>5. QED BY <2>1, <2>3, <2>4, <1>2, <1>8, Sizes DEF M2SReq, Flit, Flits, flit, tag
<1>9. QED BY <1>5, <1>6, <1>7, <1>8, Sizes

(***************************************************************************)
(* The device's queues under the host's calls                              *)
(***************************************************************************)
LEMMA ViewedQueues ==
  ASSUME ClientInv
  PROVE  /\ asked \in Seq(Flits) /\ QueueOK(answered)
         /\ Len(asked) \in Nat /\ Len(answered) \in Nat
         /\ outbound_flits # <<>> => /\ answered # <<>> /\ Len(answered) >= 1
                                     /\ answered[1] = Head(outbound_flits)
<1>1. inbound_flits \in Seq(Flits) /\ QueueOK(outbound_flits)
  BY DEF ClientInv
<1>2. asked \in Seq(Flits)
  <2>1. Effected => inbound_flits # <<>>
    BY DEF ClientInv, WorksOnHead, flit_in_valid, Effected, Holding
  <2>2. QED BY <1>1, <2>1, QueueFacts DEF asked
<1>3. QueueOK(answered)
  BY <1>1, QueueKept DEF answered
<1>4. ASSUME outbound_flits # <<>>
      PROVE  answered # <<>> /\ Len(answered) >= 1 /\ answered[1] = Head(outbound_flits)
  <2> DEFINE S == {outbound_flits[n] : n \in DOMAIN outbound_flits} \cup {Decided}
  <2>1. outbound_flits \in Seq(S) /\ Decided \in S
    <3>1. outbound_flits \in Seq({outbound_flits[n] : n \in DOMAIN outbound_flits})
      BY <1>1 DEF QueueOK
    <3>2. QED BY <3>1
  <2> HIDE DEF S
  <2>2. Len(outbound_flits) \in Nat /\ Len(outbound_flits) >= 1
    BY <2>1, <1>4
  <2>3. QED BY <2>1, <2>2, <1>4 DEF answered
<1>5. Len(asked) \in Nat /\ Len(answered) \in Nat
  BY <1>2, <1>3 DEF QueueOK
<1>6. QED BY <1>2, <1>3, <1>4, <1>5

\* A clock leaves the tags still to come, and their order.
LEMMA TickTags ==
  ASSUME ClientInv, Tick
  PROVE  TagCount' = TagCount /\ \A n \in 1..TagCount : TagAt(n)' = TagAt(n)
<1>1. CASE UNCHANGED Device!deviceVars
  BY <1>1 DEF Device!deviceVars, TagCount, TagAt
<1>2. CASE Device!Serve
  <2>1. /\ asked # <<>> /\ asked' = Tail(asked)
        /\ answered' = Append(answered, Device!DeviceAnswer(Head(asked)))
    BY <1>2 DEF Device!Serve
  <2> DEFINE ans == Device!DeviceAnswer(Head(asked))
             S == {answered[n] : n \in DOMAIN answered} \cup {ans}
  <2>2. ans.tag = Head(asked).tag
    BY DEF Device!DeviceAnswer
  <2>3. asked \in Seq(Flits) /\ answered \in Seq(S) /\ ans \in S
    <3>1. asked \in Seq(Flits) /\ answered \in Seq({answered[n] : n \in DOMAIN answered})
      BY ViewedQueues DEF QueueOK
    <3>2. QED BY <3>1
  <2> HIDE DEF S
  <2>4. answered' = Append(answered, ans)
    BY <2>1
  <2> HIDE DEF ans
  <2>5. /\ Len(answered') = Len(answered) + 1 /\ Len(asked') = Len(asked) - 1
        /\ Len(asked) \in Nat \ {0} /\ Len(answered) \in Nat
        /\ \A n \in 1..Len(answered) : answered'[n] = answered[n]
        /\ answered'[Len(answered) + 1] = ans
        /\ \A n \in 1..Len(asked) - 1 : asked'[n] = asked[n + 1]
        /\ Head(asked) = asked[1]
    BY <2>1, <2>3, <2>4
  <2>6. TagCount' = TagCount
    BY <2>5 DEF TagCount
  <2>7. ASSUME NEW n \in 1..TagCount PROVE TagAt(n)' = TagAt(n)
    <3>1. CASE n <= Len(answered)
      BY <3>1, <2>5 DEF TagAt, TagCount
    <3>2. CASE n = Len(answered) + 1
      BY <3>2, <2>2, <2>5 DEF TagAt, TagCount
    <3>3. CASE n > Len(answered) + 1
      <4>1. n - Len(answered) - 1 \in 1..Len(asked) - 1
        BY <3>3, <2>5 DEF TagCount
      <4>2. asked'[n - Len(answered) - 1] = asked[n - Len(answered)]
        BY <4>1, <2>5
      <4>3. QED BY <3>3, <4>2, <2>5 DEF TagAt, TagCount
    <3>4. QED BY <3>1, <3>2, <3>3, <2>5 DEF TagCount
  <2>8. QED BY <2>6, <2>7
<1>3. QED BY <1>1, <1>2, TickRefines

LEMMA SendTags ==
  ASSUME ClientInv, NEW flit \in Flits, send_flit(flit)
  PROVE  /\ asked' = Append(asked, flit) /\ UNCHANGED <<answered, a_mem, b_mem, c_mem>>
         /\ TagCount \in Nat /\ TagCount' = TagCount + 1
         /\ \A n \in 1..TagCount : TagAt(n)' = TagAt(n)
         /\ \A n : n = TagCount + 1 => TagAt(n)' = flit.tag
<1>1. asked' = Append(asked, flit) /\ UNCHANGED <<answered, a_mem, b_mem, c_mem>>
  BY SendRefines DEF Device!Ask
<1>2. asked \in Seq(Flits) /\ Len(asked) \in Nat /\ Len(answered) \in Nat
  BY ViewedQueues
<1>3. /\ Len(asked') = Len(asked) + 1 /\ asked'[Len(asked) + 1] = flit
      /\ \A n \in 1..Len(asked) : asked'[n] = asked[n]
  BY <1>1, <1>2
<1>4. TagCount \in Nat /\ TagCount' = TagCount + 1
  BY <1>1, <1>2, <1>3 DEF TagCount
<1>5. \A n \in 1..TagCount : TagAt(n)' = TagAt(n)
  BY <1>1, <1>2, <1>3 DEF TagCount, TagAt
<1>6. \A n : n = TagCount + 1 => TagAt(n)' = flit.tag
  BY <1>1, <1>2, <1>3 DEF TagCount, TagAt
<1>7. QED BY <1>1, <1>4, <1>5, <1>6

LEMMA RecvTags ==
  ASSUME ClientInv, recv_flit
  PROVE  /\ answered # <<>> /\ answered[1] = Head(outbound_flits) /\ answered' = Tail(answered)
         /\ UNCHANGED <<asked, a_mem, b_mem, c_mem>>
         /\ TagCount \in Nat /\ TagCount' = TagCount - 1
         /\ \A n \in 1..TagCount - 1 : TagAt(n)' = TagAt(n + 1)
         /\ TagAt(1) = Head(outbound_flits).tag
<1>1. answered' = Tail(answered) /\ UNCHANGED <<asked, a_mem, b_mem, c_mem>>
  BY RecvRefines DEF Device!Take
<1>2. /\ answered # <<>> /\ answered[1] = Head(outbound_flits) /\ Len(answered) >= 1
      /\ Len(asked) \in Nat /\ Len(answered) \in Nat
      /\ answered \in Seq({answered[n] : n \in DOMAIN answered})
  BY ViewedQueues DEF recv_flit, QueueOK
<1> DEFINE S == {answered[n] : n \in DOMAIN answered}
<1>3. answered \in Seq(S)
  BY <1>2
<1> HIDE DEF S
<1>4. /\ Len(answered') = Len(answered) - 1
      /\ \A n \in 1..Len(answered) - 1 : answered'[n] = answered[n + 1]
  BY <1>1, <1>2, <1>3
<1>5. TagCount \in Nat /\ TagCount' = TagCount - 1
  BY <1>1, <1>2, <1>4 DEF TagCount
<1>6. ASSUME NEW n \in 1..TagCount - 1 PROVE TagAt(n)' = TagAt(n + 1)
  <2>1. CASE n <= Len(answered) - 1
    BY <2>1, <1>1, <1>2, <1>4 DEF TagAt, TagCount
  <2>2. CASE n > Len(answered) - 1
    <3>1. n - (Len(answered) - 1) = n + 1 - Len(answered)
      BY <1>2, <1>5
    <3>2. QED BY <2>2, <3>1, <1>1, <1>2, <1>4 DEF TagAt, TagCount
  <2>3. QED BY <2>1, <2>2, <1>2, <1>5
<1>7. TagAt(1) = Head(outbound_flits).tag
  BY <1>2 DEF TagAt
<1>8. QED BY <1>1, <1>2, <1>5, <1>6, <1>7

\* The array only ever holds bytes it was sent.
LEMMA TickBytes ==
  ASSUME ClientInv, Tick, a_mem \in Matrix(Bytes), b_mem \in Matrix(Bytes)
  PROVE  a_mem' \in Matrix(Bytes) /\ b_mem' \in Matrix(Bytes)
<1>1. CASE UNCHANGED Device!deviceVars
  BY <1>1 DEF Device!deviceVars
<1>2. CASE Device!Serve
  <2> DEFINE req == Head(asked)
  <2>1. req \in Flits
    BY <1>2, ViewedQueues DEF Device!Serve
  <2>2. req.token.addr \in Cell /\ req.token.data \in Bytes
    BY <2>1, FlitFacts DEF Token
  <2>3. /\ a_mem' = IF Device!Loads(req, 0)
                    THEN [a_mem EXCEPT ![req.token.addr] = req.token.data] ELSE a_mem
        /\ b_mem' = IF Device!Loads(req, 1)
                    THEN [b_mem EXCEPT ![req.token.addr] = req.token.data] ELSE b_mem
    BY <1>2 DEF Device!Serve
  <2> HIDE DEF req
  <2>4. QED BY <2>2, <2>3 DEF Matrix
<1>3. QED BY <1>1, <1>2, TickRefines

(***************************************************************************)
(* A host that has always waited for its answers                           *)
(***************************************************************************)
\* Loading every cell loads the matrices.
LEMMA AllLoaded ==
  ASSUME a_mem \in Matrix(Bytes), b_mem \in Matrix(Bytes), job \in Jobs,
         NEW m \in Nat, m >= 2 * Cells, MemOK(m)
  PROVE  a_mem = job.a /\ b_mem = job.b
<1>1. job.a \in [Cell -> Bytes] /\ job.b \in [Cell -> Bytes]
  BY HostAssumption DEF Matrix
<1>2. ASSUME NEW x \in Cell PROVE a_mem[x] = job.a[x] /\ b_mem[x] = job.b[x]
  <2>1. PICK n \in 1..Cells : CellAt(n) = x
    BY CellNumbers
  <2>2. n <= m /\ Cells + n <= m
    BY Sizes
  <2>3. QED BY <2>1, <2>2 DEF MemOK
<1>3. QED BY <1>1, <1>2 DEF Matrix

\* The device's service of the k-th FLIT: the right answer, the right memories.
LEMMA ServesFlit ==
  ASSUME a_mem \in Matrix(Bytes), b_mem \in Matrix(Bytes), job \in Jobs,
         NEW t \in Nat, stream = DispatchStream(job, t), k \in 1..StreamLength,
         asked = <<stream[k]>>, answered = <<>>, MemOK(k - 1),
         Device!Serve, UNCHANGED <<job, stream, k>>
  PROVE  asked' = <<>> /\ answered' = <<Expected(k)>> /\ MemOK(k)'
<1> DEFINE flit == stream[k]
           ans == Device!DeviceAnswer(flit)
<1>1. Head(asked) = flit /\ Tail(asked) = <<>>
  OBVIOUS
<1>2. /\ asked' = <<>> /\ answered' = Append(<<>>, ans)
      /\ a_mem' = IF Device!Loads(flit, 0)
                  THEN [a_mem EXCEPT ![flit.token.addr] = flit.token.data] ELSE a_mem
      /\ b_mem' = IF Device!Loads(flit, 1)
                  THEN [b_mem EXCEPT ![flit.token.addr] = flit.token.data] ELSE b_mem
      /\ c_mem' = IF flit.claimed /\ flit.token.op = "compute"
                  THEN Product(a_mem, b_mem) ELSE c_mem
  BY <1>1 DEF Device!Serve
<1>3. /\ flit.claimed
      /\ k <= Cells =>
           flit.class = "RwD" /\ flit.token = make_load_token(0, CellAt(k), job.a[CellAt(k)])
      /\ k \in Cells + 1..2 * Cells =>
           /\ flit.class = "RwD"
           /\ flit.token = make_load_token(1, CellAt(k - Cells), job.b[CellAt(k - Cells)])
      /\ k = 2 * Cells + 1 => flit.class = "RwD" /\ flit.token = make_compute_token
      /\ k > 2 * Cells + 1 =>
           flit.class = "Req" /\ flit.token = make_read_token(CellAt(k - 2 * Cells - 1))
  BY StreamParts
<1>4. ans = Response(IF flit.class = "Req" THEN "MemData" ELSE "Cmp", flit.tag,
                     IF flit.class = "Req" THEN c_mem[flit.token.addr] ELSE 0)
  BY <1>3 DEF Device!DeviceAnswer, Response
<1> HIDE DEF flit, ans
<1>5. answered' = <<ans>> /\ k \in Nat /\ Cells \in Nat
  BY <1>2, Sizes
<1>6. CASE k <= Cells
  <2>1. flit.class = "RwD" /\ flit.token = make_load_token(0, CellAt(k), job.a[CellAt(k)])
    BY <1>3, <1>6
  <2>2. /\ flit.token.op = "load" /\ flit.token.sel = 0
        /\ flit.token.addr = CellAt(k) /\ flit.token.data = job.a[CellAt(k)]
    BY <2>1 DEF make_load_token
  <2>3. ans = Response("Cmp", flit.tag, 0) /\ k <= 2 * Cells + 1
    BY <2>1, <1>4, <1>5, <1>6
  <2>4. ans = Expected(k)
    BY <2>3 DEF Expected, flit
  <2>5. /\ a_mem' = [a_mem EXCEPT ![CellAt(k)] = job.a[CellAt(k)]]
        /\ b_mem' = b_mem /\ c_mem' = c_mem
    BY <1>2, <1>3, <2>2 DEF Device!Loads
  <2>6. \A n \in 1..Cells : n <= k => a_mem'[CellAt(n)] = job.a[CellAt(n)]
    <3>1. SUFFICES ASSUME NEW n \in 1..Cells, n <= k
                   PROVE  a_mem'[CellAt(n)] = job.a[CellAt(n)]
      OBVIOUS
    <3>2. CASE CellAt(n) = CellAt(k)
      BY <3>2, <2>5, CellNumbers DEF Matrix
    <3>3. CASE CellAt(n) # CellAt(k)
      <4>1. n # k
        BY <3>3, <1>5
      <4>2. n <= k - 1
        BY <4>1, <3>1, <1>5
      <4>3. a_mem'[CellAt(n)] = a_mem[CellAt(n)]
        BY <3>3, <2>5, CellNumbers DEF Matrix
      <4>4. QED BY <4>2, <4>3 DEF MemOK
    <3>4. QED BY <3>2, <3>3
  <2>7. QED BY <2>4, <2>5, <2>6, <1>2, <1>5, <1>6 DEF MemOK
<1>7. CASE k \in Cells + 1..2 * Cells
  <2>1. flit.class = "RwD" /\ flit.token = make_load_token(1, CellAt(k - Cells), job.b[CellAt(k - Cells)])
    BY <1>3, <1>7
  <2>2. /\ flit.token.op = "load" /\ flit.token.sel = 1
        /\ flit.token.addr = CellAt(k - Cells) /\ flit.token.data = job.b[CellAt(k - Cells)]
    BY <2>1 DEF make_load_token
  <2>3. ans = Response("Cmp", flit.tag, 0) /\ k <= 2 * Cells + 1
    BY <2>1, <1>4, <1>5, <1>7
  <2>4. ans = Expected(k)
    BY <2>3 DEF Expected, flit
  <2>5. /\ b_mem' = [b_mem EXCEPT ![CellAt(k - Cells)] = job.b[CellAt(k - Cells)]]
        /\ a_mem' = a_mem /\ c_mem' = c_mem
    BY <1>2, <1>3, <2>2 DEF Device!Loads
  <2>6. \A n \in 1..Cells : Cells + n <= k => b_mem'[CellAt(n)] = job.b[CellAt(n)]
    <3>1. SUFFICES ASSUME NEW n \in 1..Cells, Cells + n <= k
                   PROVE  b_mem'[CellAt(n)] = job.b[CellAt(n)]
      OBVIOUS
    <3>2. CASE CellAt(n) = CellAt(k - Cells)
      BY <3>2, <2>5, CellNumbers DEF Matrix
    <3>3. CASE CellAt(n) # CellAt(k - Cells)
      <4>1. Cells + n # k
        BY <3>3, <1>5
      <4>2. Cells + n <= k - 1
        BY <4>1, <3>1, <1>5
      <4>3. b_mem'[CellAt(n)] = b_mem[CellAt(n)]
        BY <3>3, <2>5, CellNumbers DEF Matrix
      <4>4. QED BY <4>2, <4>3 DEF MemOK
    <3>4. QED BY <3>2, <3>3
  <2>7. QED BY <2>4, <2>5, <2>6, <1>2, <1>5, <1>7 DEF MemOK
<1>8. CASE k = 2 * Cells + 1
  <2>1. /\ ans = Expected(k) /\ c_mem' = Product(a_mem, b_mem)
        /\ a_mem' = a_mem /\ b_mem' = b_mem
    BY <1>2, <1>3, <1>4, <1>5, <1>8 DEF Expected, flit, Device!Loads, make_compute_token, NoToken
  <2>2. a_mem = job.a /\ b_mem = job.b
    <3>1. k - 1 \in Nat /\ k - 1 >= 2 * Cells
      BY <1>5, <1>8
    <3>2. QED BY <3>1, AllLoaded
  <2>3. QED BY <2>1, <2>2, <1>2, <1>5 DEF MemOK
<1>9. CASE k > 2 * Cells + 1
  <2>1. flit.class = "Req" /\ flit.token = make_read_token(CellAt(k - 2 * Cells - 1))
    BY <1>3, <1>9
  <2>2. flit.token.op = "read" /\ flit.token.addr = CellAt(k - 2 * Cells - 1)
    BY <2>1 DEF make_read_token, NoToken
  <2>3. UNCHANGED <<a_mem, b_mem, c_mem>>
    BY <1>2, <2>2 DEF Device!Loads
  <2>4. c_mem = Product(job.a, job.b)
    BY <1>5, <1>9 DEF MemOK
  <2>5. ans = Expected(k)
    BY <2>1, <2>2, <2>4, <1>4, <1>5, <1>9 DEF Expected, flit
  <2>6. QED BY <2>3, <2>4, <2>5, <1>2, <1>5, <1>9 DEF MemOK
<1>10. QED BY <1>5, <1>6, <1>7, <1>8, <1>9

LEMMA TickInStep ==
  ASSUME HostInv, ~timed_out, Tick, UNCHANGED <<job, stream, k, read_responses, result>>,
         (pc = "start" /\ pc' = "send") \/ (pc = "wait" /\ pc' = "poll")
  PROVE  InStep'
<1>1. /\ ClientInv /\ InStep /\ (Waiting' <=> Waiting) /\ pc # "idle" /\ pc' # "idle"
      /\ k \in 1..StreamLength + 1 /\ (Waiting => k \in 1..StreamLength)
      /\ ReadsOK(k - 1)
  BY Sizes DEF HostInv, InStep, Waiting
<1>2. ReadsOK(k - 1)'
  BY <1>1 DEF ReadsOK, QueueOK
<1>3. CASE UNCHANGED Device!deviceVars
  <2>1. UNCHANGED <<asked, answered, a_mem, b_mem, c_mem>>
    BY <1>3 DEF Device!deviceVars
  <2>2. /\ MemOK(k - 1) => MemOK(k - 1)'
        /\ MemOK(k) => MemOK(k)'
        /\ Expected(k)' = Expected(k)
    BY <2>1 DEF MemOK, Expected
  <2>3. QED BY <1>1, <1>2, <2>1, <2>2 DEF InStep
<1>4. CASE Device!Serve
  <2>1. asked # <<>>
    BY <1>4 DEF Device!Serve
  <2>2. Waiting /\ asked = <<stream[k]>> /\ answered = <<>> /\ MemOK(k - 1)
    BY <1>1, <2>1 DEF InStep
  <2>3. PICK t \in Nat : stream = DispatchStream(job, t)
    BY <1>1 DEF HostInv
  <2>4. a_mem \in Matrix(Bytes) /\ b_mem \in Matrix(Bytes) /\ job \in Jobs
    BY <1>1 DEF HostInv
  <2>5. asked' = <<>> /\ answered' = <<Expected(k)>> /\ MemOK(k)'
    BY <1>1, <1>4, <2>2, <2>3, <2>4, ServesFlit
  <2>6. Expected(k)' = Expected(k)
    BY DEF Expected
  <2>7. QED BY <1>1, <1>2, <2>2, <2>5, <2>6 DEF InStep
<1>5. QED BY <1>1, <1>3, <1>4, TickRefines

LEMMA TickOutOfStep ==
  ASSUME ClientInv, OutOfStep, Tick, UNCHANGED <<stream, k, result, runs, next_tag>>,
         (pc = "start" /\ pc' = "send") \/ (pc = "wait" /\ pc' = "poll")
  PROVE  OutOfStep'
<1>1. TagCount' = TagCount /\ \A n \in 1..TagCount : TagAt(n)' = TagAt(n)
  BY TickTags
<1>2. (Waiting' <=> Waiting) /\ pc # "idle" /\ pc' # "idle" /\ TagCount \in Nat
  BY ViewedQueues DEF Waiting, TagCount
<1>3. QED BY <1>1, <1>2 DEF OutOfStep

LEMMA TickHost ==
  ASSUME HostInv, StartTick \/ WaitTick
  PROVE  HostInv'
<1>1. /\ Tick /\ ((pc = "start" /\ pc' = "send") \/ (pc = "wait" /\ pc' = "poll"))
      /\ UNCHANGED <<job, stream, k, waited, next_tag, read_responses, result, answer,
                     runs, timed_out>>
  BY DEF StartTick, WaitTick, HostTick
<1>2. ClientInv' /\ a_mem' \in Matrix(Bytes) /\ b_mem' \in Matrix(Bytes)
  BY <1>1, TickKeeps, TickBytes DEF HostInv
<1>3. TagsFresh' /\ RightAnswer'
  BY <1>1 DEF HostInv, TagsFresh, RightAnswer
<1>4. IF timed_out' THEN OutOfStep' ELSE InStep'
  BY <1>1, TickInStep, TickOutOfStep DEF HostInv
<1>5. /\ pc' \in {"idle", "start", "send", "wait", "poll"} /\ timed_out' \in BOOLEAN
      /\ result' = "running" /\ job' \in Jobs /\ \E t \in Nat : stream' = DispatchStream(job', t)
  BY <1>1 DEF HostInv
<1>6. QED BY <1>2, <1>3, <1>4, <1>5 DEF HostInv

\* What every step knows of its run.
LEMMA RunFacts ==
  ASSUME HostInv, pc # "idle"
  PROVE  /\ ClientInv /\ a_mem \in Matrix(Bytes) /\ b_mem \in Matrix(Bytes)
         /\ result = "running" /\ job \in Jobs /\ \E t \in Nat : stream = DispatchStream(job, t)
         /\ DOMAIN stream = 1..StreamLength /\ Len(stream) = StreamLength
         /\ \A n \in 1..StreamLength : stream[n] \in Flits
         /\ timed_out \in BOOLEAN /\ (timed_out => OutOfStep) /\ (~timed_out => InStep)
         /\ TagsFresh
<1>1. PICK t \in Nat : stream = DispatchStream(job, t) /\ job \in Jobs
  BY DEF HostInv
<1>2. DOMAIN stream = 1..StreamLength /\ \A n \in 1..StreamLength : stream[n] \in Flits
  <2>1. DOMAIN stream = 1..StreamLength
    BY <1>1 DEF DispatchStream
  <2>2. QED BY <1>1, <2>1, StreamParts
<1>3. stream \in Seq(Flits)
  <2>1. stream = [n \in 1..StreamLength |-> stream[n]]
    BY <1>1 DEF DispatchStream
  <2>2. QED BY <2>1, <1>2, Sizes
<1>4. Len(stream) = StreamLength
  BY <1>2, <1>3, Sizes
<1>5. QED BY <1>1, <1>2, <1>4 DEF HostInv

LEMMA SendHost ==
  ASSUME HostInv, SendFlit
  PROVE  HostInv'
<1>1. /\ pc = "send" /\ pc' = "wait" /\ k <= Len(stream) /\ send_flit(stream[k])
      /\ UNCHANGED <<job, stream, k, next_tag, read_responses, result, answer, runs, timed_out>>
  BY DEF SendFlit
<1>2. /\ ClientInv /\ result = "running" /\ job \in Jobs /\ Len(stream) = StreamLength
      /\ \E t \in Nat : stream = DispatchStream(job, t)
      /\ \A n \in 1..StreamLength : stream[n] \in Flits
      /\ a_mem \in Matrix(Bytes) /\ b_mem \in Matrix(Bytes)
      /\ timed_out \in BOOLEAN /\ (timed_out => OutOfStep) /\ (~timed_out => InStep)
      /\ TagsFresh
  BY <1>1, RunFacts
<1>3. k \in 1..StreamLength
  <2>1. CASE timed_out
    BY <2>1, <1>1, <1>2, Sizes DEF OutOfStep
  <2>2. CASE ~timed_out
    BY <2>2, <1>1, <1>2, Sizes DEF InStep
  <2>3. QED BY <2>1, <2>2, <1>2
<1>4. stream[k] \in Flits
  BY <1>2, <1>3
<1>5. ClientInv'
  BY <1>1, <1>2, <1>4, CallKeeps
<1>6. /\ asked' = Append(asked, stream[k]) /\ UNCHANGED <<answered, a_mem, b_mem, c_mem>>
      /\ TagCount \in Nat /\ TagCount' = TagCount + 1
      /\ \A n \in 1..TagCount : TagAt(n)' = TagAt(n)
      /\ \A n : n = TagCount + 1 => TagAt(n)' = stream[k].tag
  BY <1>1, <1>2, <1>4, SendTags
<1>7. TagsFresh' /\ RightAnswer'
  BY <1>1, <1>2 DEF TagsFresh, RightAnswer
<1>8. ~Waiting /\ Waiting'
  BY <1>1 DEF Waiting
<1>9. CASE timed_out
  <2>1. /\ k = 1 /\ TagCount >= 1 /\ (\A n \in 1..TagCount : TagAt(n) # stream[1].tag)
        /\ runs < MaxRuns => \A n \in 1..TagCount : TagAt(n) \in 0..next_tag - 1
    BY <1>1, <1>2, <1>8, <1>9 DEF OutOfStep
  <2>2. TagCount' >= 2 /\ \A n \in 1..TagCount' - 1 : TagAt(n)' # stream[1].tag
    BY <1>6, <2>1
  <2>3. runs < MaxRuns => \A n \in 1..TagCount' : TagAt(n)' \in 0..next_tag - 1
    <3>1. runs < MaxRuns => stream[k].tag \in 0..next_tag - 1
      BY <1>1, <1>2, <1>3 DEF TagsFresh
    <3>2. QED BY <3>1, <1>6, <2>1
  <2>4. OutOfStep'
    BY <1>1, <1>8, <2>1, <2>2, <2>3 DEF OutOfStep
  <2>5. QED BY <2>4, <1>1, <1>2, <1>5, <1>6, <1>7, <1>9 DEF HostInv
<1>10. CASE ~timed_out
  <2>1. asked = <<>> /\ answered = <<>> /\ ReadsOK(k - 1) /\ MemOK(k - 1)
    BY <1>1, <1>2, <1>8, <1>10 DEF InStep
  <2>2. asked' = <<stream[k]>> /\ answered' = <<>>
    BY <2>1, <1>6
  <2>3. ReadsOK(k - 1)' /\ MemOK(k - 1)'
    BY <2>1, <1>1, <1>6 DEF ReadsOK, MemOK, QueueOK
  <2>4. InStep'
    BY <2>2, <2>3, <1>1, <1>3, <1>8, Sizes DEF InStep
  <2>5. QED BY <2>4, <1>1, <1>2, <1>5, <1>6, <1>7, <1>10 DEF HostInv
<1>11. QED BY <1>2, <1>9, <1>10

\* The device does not change while the host only counts.
LEMMA ViewRests ==
  ASSUME UNCHANGED endpointVars
  PROVE  /\ UNCHANGED <<asked, answered, a_mem, b_mem, c_mem, TagCount>>
         /\ \A n : TagAt(n)' = TagAt(n)
<1>1. UNCHANGED <<asked, answered, a_mem, b_mem, c_mem>>
  BY RestRefines DEF Device!deviceVars
<1>2. QED BY <1>1 DEF TagCount, TagAt

LEMMA WaitHost ==
  ASSUME HostInv, KeepWaiting
  PROVE  HostInv'
<1>1. /\ pc = "poll" /\ pc' = "wait"
      /\ UNCHANGED <<job, stream, k, next_tag, read_responses, result, answer, runs, timed_out,
                     endpointVars>>
  BY DEF KeepWaiting
<1>2. /\ UNCHANGED <<asked, answered, a_mem, b_mem, c_mem, TagCount>>
      /\ \A n : TagAt(n)' = TagAt(n)
  BY <1>1, ViewRests
<1>3. ClientInv'
  BY <1>1, ClientRests DEF HostInv
<1>4. Waiting /\ Waiting'
  BY <1>1 DEF Waiting
<1>5. OutOfStep => OutOfStep'
  BY <1>1, <1>2, <1>4 DEF OutOfStep
<1>6. InStep => InStep'
  <2>1. /\ MemOK(k - 1) => MemOK(k - 1)'
        /\ MemOK(k) => MemOK(k)'
        /\ ReadsOK(k - 1) => ReadsOK(k - 1)'
        /\ Expected(k)' = Expected(k)
    BY <1>1, <1>2 DEF MemOK, ReadsOK, QueueOK, Expected
  <2>2. QED BY <1>1, <1>2, <1>4, <2>1 DEF InStep
<1>7. TagsFresh' /\ RightAnswer'
  BY <1>1 DEF HostInv, TagsFresh, RightAnswer
<1>8. QED BY <1>1, <1>2, <1>3, <1>5, <1>6, <1>7 DEF HostInv

\* The answer given up on is the first of the answers the host is behind by.
LEMMA TimeoutHost ==
  ASSUME HostInv, FlitTimeout
  PROVE  HostInv'
<1>1. /\ pc = "poll" /\ pc' = "idle" /\ result' = "FlitTimeout" /\ timed_out' = TRUE
      /\ UNCHANGED <<job, stream, k, next_tag, answer, runs, endpointVars>>
  BY DEF FlitTimeout
<1>2. /\ UNCHANGED <<asked, answered, a_mem, b_mem, c_mem, TagCount>>
      /\ \A n : TagAt(n)' = TagAt(n)
  BY <1>1, ViewRests
<1>3. ClientInv'
  BY <1>1, ClientRests DEF HostInv
<1>4. /\ ClientInv /\ TagsFresh /\ Waiting /\ ~Waiting'
      /\ timed_out \in BOOLEAN /\ (timed_out => OutOfStep) /\ (~timed_out => InStep)
  BY <1>1, RunFacts DEF Waiting
<1>5. TagCount \in Nat
  BY <1>4, ViewedQueues DEF TagCount
<1>6. TagCount >= 1 /\ (runs < MaxRuns => \A n \in 1..TagCount : TagAt(n) \in 0..next_tag - 1)
  <2>1. CASE timed_out
    BY <2>1, <1>4, <1>5 DEF OutOfStep
  <2>2. CASE ~timed_out
    <3>1. /\ k \in 1..StreamLength
          /\ \/ asked = <<stream[k]>> /\ answered = <<>>
             \/ asked = <<>> /\ answered = <<Expected(k)>>
      BY <2>2, <1>1, <1>4, Sizes DEF InStep
    <3>2. Expected(k).tag = stream[k].tag
      BY DEF Expected, Response
    <3>3. TagCount = 1 /\ TagAt(1) = stream[k].tag
      <4>1. CASE asked = <<stream[k]>> /\ answered = <<>>
        <5>1. Len(asked) = 1 /\ Len(answered) = 0 /\ asked[1] = stream[k]
          BY <4>1
        <5>2. QED BY <5>1 DEF TagCount, TagAt
      <4>2. CASE asked = <<>> /\ answered = <<Expected(k)>>
        <5>1. Len(asked) = 0 /\ Len(answered) = 1 /\ answered[1] = Expected(k)
          BY <4>2
        <5>2. QED BY <5>1, <3>2 DEF TagCount, TagAt
      <4>3. QED BY <3>1, <4>1, <4>2
    <3>4. runs < MaxRuns => stream[k].tag \in 0..next_tag - 1
      BY <3>1, <1>1, <1>4 DEF TagsFresh
    <3>5. QED BY <3>3, <3>4
  <2>3. QED BY <2>1, <2>2, <1>4
<1>7. OutOfStep'
  BY <1>1, <1>2, <1>4, <1>6 DEF OutOfStep
<1>8. TagsFresh' /\ RightAnswer'
  BY <1>1, <1>4 DEF TagsFresh, RightAnswer
<1>9. QED BY <1>1, <1>2, <1>3, <1>7, <1>8 DEF HostInv

LEMMA TakeInStep ==
  ASSUME HostInv, TakeResponse, ~timed_out
  PROVE  /\ InStep' /\ pc' = "send" /\ result' = "running"
         /\ Head(outbound_flits) = Expected(k) /\ k \in 1..StreamLength /\ k' = k + 1
<1> DEFINE resp == Head(outbound_flits)
<1>1. /\ pc = "poll" /\ recv_flit
      /\ UNCHANGED <<job, stream>>
      /\ result' = Verdict(resp, stream[k].tag)
  BY DEF TakeResponse
<1>2. ClientInv /\ InStep /\ Waiting
  BY <1>1, RunFacts DEF Waiting
<1>3. /\ answered # <<>> /\ answered[1] = resp /\ answered' = Tail(answered)
      /\ UNCHANGED <<asked, a_mem, b_mem, c_mem>>
  BY <1>1, <1>2, RecvTags
<1>4. /\ k \in 1..StreamLength /\ ReadsOK(k - 1)
      /\ asked = <<>> /\ answered = <<Expected(k)>> /\ MemOK(k)
  BY <1>1, <1>2, <1>3, Sizes DEF InStep
<1> HIDE DEF resp
<1>5. resp = Expected(k) /\ answered' = <<>> /\ asked' = <<>>
  BY <1>3, <1>4
<1>6. /\ resp.tag = stream[k].tag
      /\ k <= 2 * Cells + 1 => resp.kind = "Cmp"
      /\ k > 2 * Cells + 1 =>
           /\ resp.kind = "MemData"
           /\ resp.data = Product(job.a, job.b)[CellAt(k - 2 * Cells - 1)]
  BY <1>4, <1>5, Sizes DEF Expected, Response
<1>7. Verdict(resp, stream[k].tag) = "running"
  BY <1>4, <1>6, Sizes DEF Verdict
<1>8. /\ pc' = "send" /\ k' = k + 1
      /\ read_responses' = IF resp.kind = "MemData" THEN Append(read_responses, resp)
                           ELSE read_responses
  BY <1>7 DEF TakeResponse, resp
<1>9. MemOK(k - 1)'
  <2>1. k' - 1 = k
    BY <1>4, <1>8, Sizes
  <2>2. QED BY <2>1, <1>1, <1>3, <1>4 DEF MemOK
<1>10. ReadsOK(k - 1)'
  <2>1. k' - 1 = k /\ k \in Nat /\ Cells \in Nat
    BY <1>4, <1>8, Sizes
  <2>2. CASE k <= 2 * Cells + 1
    <3>1. read_responses' = read_responses
      BY <2>2, <1>6, <1>8
    <3>2. QED BY <2>1, <2>2, <3>1, <1>1, <1>4 DEF ReadsOK, QueueOK
  <2>3. CASE k > 2 * Cells + 1
    <3>1. read_responses' = Append(read_responses, resp)
      BY <2>3, <1>6, <1>8
    <3> DEFINE S == {read_responses[n] : n \in DOMAIN read_responses} \cup {resp}
    <3>2. read_responses \in Seq(S) /\ resp \in S
      <4>1. read_responses \in Seq({read_responses[n] : n \in DOMAIN read_responses})
        BY <1>4 DEF ReadsOK, QueueOK
      <4>2. QED BY <4>1
    <3> HIDE DEF S
    <3>3. Len(read_responses) = k - 2 * Cells - 2
      <4>1. CASE k - 1 <= 2 * Cells + 1
        BY <4>1, <2>1, <2>3, <1>4 DEF ReadsOK
      <4>2. CASE k - 1 > 2 * Cells + 1
        BY <4>2, <2>1, <1>4 DEF ReadsOK
      <4>3. QED BY <4>1, <4>2, <2>1
    <3>4. /\ Len(read_responses') = k - 2 * Cells - 1
          /\ read_responses'[k - 2 * Cells - 1] = resp
          /\ \A n \in 1..Len(read_responses) : read_responses'[n] = read_responses[n]
      BY <3>1, <3>2, <3>3, <2>1
    <3>5. \A n \in 1..Len(read_responses') :
            read_responses'[n].data = Product(job.a, job.b)[CellAt(n)]
      <4>1. SUFFICES ASSUME NEW n \in 1..Len(read_responses')
                     PROVE  read_responses'[n].data = Product(job.a, job.b)[CellAt(n)]
        OBVIOUS
      <4>2. CASE n = k - 2 * Cells - 1
        BY <4>2, <3>4, <1>6, <2>3
      <4>3. CASE n # k - 2 * Cells - 1
        <5>1. n \in 1..Len(read_responses)
          BY <4>3, <3>3, <3>4, <2>1
        <5>2. QED BY <5>1, <3>4, <1>4 DEF ReadsOK
      <4>4. QED BY <4>2, <4>3
    <3>6. QueueOK(read_responses')
      BY <3>1, <1>4, QueueKept DEF ReadsOK
    <3>7. QED BY <2>1, <2>3, <3>4, <3>5, <3>6, <1>1 DEF ReadsOK
  <2>4. QED BY <2>1, <2>2, <2>3
<1>11. ~Waiting' /\ k' \in 1..StreamLength + 1
  BY <1>4, <1>8, Sizes DEF Waiting
<1>12. InStep'
  BY <1>1, <1>5, <1>7, <1>8, <1>9, <1>10, <1>11 DEF InStep
<1>13. QED BY <1>1, <1>4, <1>5, <1>7, <1>8, <1>12 DEF resp

LEMMA TakeOutOfStep ==
  ASSUME HostInv, TakeResponse, timed_out
  PROVE  OutOfStep' /\ pc' = "idle" /\ result' = "UnexpectedTag"
<1>1. /\ pc = "poll" /\ recv_flit /\ UNCHANGED <<stream, runs, next_tag>>
      /\ result' = Verdict(Head(outbound_flits), stream[k].tag)
  BY DEF TakeResponse
<1>2. ClientInv /\ OutOfStep /\ Waiting
  BY <1>1, RunFacts DEF Waiting
<1>3. /\ TagCount \in Nat /\ TagCount' = TagCount - 1
      /\ \A n \in 1..TagCount - 1 : TagAt(n)' = TagAt(n + 1)
      /\ TagAt(1) = Head(outbound_flits).tag
  BY <1>1, <1>2, RecvTags
<1>4. /\ k = 1 /\ TagCount >= 2 /\ TagAt(1) # stream[1].tag
      /\ runs < MaxRuns => \A n \in 1..TagCount : TagAt(n) \in 0..next_tag - 1
  BY <1>1, <1>2, <1>3 DEF OutOfStep
<1>5. Verdict(Head(outbound_flits), stream[k].tag) = "UnexpectedTag"
  BY <1>3, <1>4 DEF Verdict
<1>6. pc' = "idle"
  BY <1>5 DEF TakeResponse
<1>7. runs < MaxRuns => \A n \in 1..TagCount' : TagAt(n)' \in 0..next_tag - 1
  BY <1>3, <1>4
<1>8. QED BY <1>1, <1>3, <1>4, <1>5, <1>6, <1>7 DEF OutOfStep, Waiting

LEMMA TakeHost ==
  ASSUME HostInv, TakeResponse
  PROVE  HostInv'
<1>1. /\ pc = "poll" /\ recv_flit /\ UNCHANGED <<job, stream, next_tag, answer, runs, timed_out>>
  BY DEF TakeResponse
<1>2. /\ ClientInv /\ TagsFresh /\ a_mem \in Matrix(Bytes) /\ b_mem \in Matrix(Bytes)
      /\ timed_out \in BOOLEAN
      /\ job \in Jobs /\ \E t \in Nat : stream = DispatchStream(job, t)
  BY <1>1, RunFacts
<1>3. ClientInv' /\ UNCHANGED <<a_mem, b_mem>>
  BY <1>1, <1>2, CallKeeps, RecvTags
<1>4. TagsFresh'
  BY <1>1, <1>2 DEF TagsFresh
<1>5. CASE timed_out
  BY <1>1, <1>2, <1>3, <1>4, <1>5, TakeOutOfStep DEF HostInv, RightAnswer
<1>6. CASE ~timed_out
  BY <1>1, <1>2, <1>3, <1>4, <1>6, TakeInStep DEF HostInv, RightAnswer
<1>7. QED BY <1>5, <1>6, <1>2

\* Only a host in step gets to the end of a run, and then has every cell of the
\* product.
LEMMA FinishFacts ==
  ASSUME HostInv, Finish
  PROVE  /\ ~timed_out /\ asked = <<>> /\ answered = <<>> /\ k = StreamLength + 1
         /\ result' = "ok" /\ answer' = Product(job.a, job.b)
<1>1. pc = "send" /\ k > Len(stream)
  BY DEF Finish
<1>2. /\ timed_out \in BOOLEAN /\ (timed_out => OutOfStep) /\ (~timed_out => InStep)
      /\ Len(stream) = StreamLength
  BY <1>1, RunFacts
<1>3. ~timed_out
  BY <1>1, <1>2, Sizes DEF OutOfStep
<1>4. /\ asked = <<>> /\ answered = <<>> /\ k = StreamLength + 1 /\ ReadsOK(k - 1)
  BY <1>1, <1>2, <1>3, Sizes DEF InStep, Waiting
<1>5. Len(read_responses) = Cells
  <2>1. k - 1 = 3 * Cells + 1 /\ Cells \in Nat \ {0}
    BY <1>4, Sizes
  <2>2. QED BY <1>4, <2>1 DEF ReadsOK
<1>6. DecodeResults = Product(job.a, job.b)
  <2>1. ASSUME NEW x \in Cell
        PROVE  read_responses[x[1] * Dim + x[2] + 1].data = Product(job.a, job.b)[x]
    <3> DEFINE m == x[1] * Dim + x[2] + 1
    <3>1. m \in 1..Cells /\ CellAt(m) = x
      BY CellNumbers
    <3> HIDE DEF m
    <3>2. read_responses[m].data = Product(job.a, job.b)[x]
      BY <3>1, <1>4, <1>5 DEF ReadsOK
    <3>3. QED BY <3>2 DEF m
  <2>2. DecodeResults = [x \in Cell |-> read_responses[x[1] * Dim + x[2] + 1].data]
    BY DEF DecodeResults
  <2>3. Product(job.a, job.b) = [x \in Cell |-> Product(job.a, job.b)[x]]
    BY DEF Product
  <2>4. QED BY <2>1, <2>2, <2>3
<1>7. result' = "ok" /\ answer' = Product(job.a, job.b)
  BY <1>5, <1>6 DEF Finish
<1>8. QED BY <1>3, <1>4, <1>7

LEMMA FinishHost ==
  ASSUME HostInv, Finish
  PROVE  HostInv'
<1>1. /\ pc = "send" /\ pc' = "idle"
      /\ UNCHANGED <<job, stream, k, next_tag, read_responses, runs, timed_out, endpointVars>>
  BY DEF Finish
<1>2. /\ ClientInv /\ TagsFresh /\ a_mem \in Matrix(Bytes) /\ b_mem \in Matrix(Bytes)
  BY <1>1, RunFacts
<1>3. /\ ~timed_out /\ asked = <<>> /\ answered = <<>>
      /\ result' = "ok" /\ answer' = Product(job.a, job.b)
  BY FinishFacts
<1>4. /\ UNCHANGED <<asked, answered, a_mem, b_mem>> /\ ClientInv'
  BY <1>1, <1>2, ViewRests, ClientRests
<1>5. InStep'
  BY <1>1, <1>3, <1>4 DEF InStep, Waiting
<1>6. TagsFresh' /\ RightAnswer'
  BY <1>1, <1>2, <1>3 DEF TagsFresh, RightAnswer
<1>7. QED BY <1>1, <1>2, <1>3, <1>4, <1>5, <1>6 DEF HostInv

\* The tags of a new run are ahead of all that are under way.
LEMMA FreshTags ==
  ASSUME TagsFresh, NEW j \in Jobs, run_gemm(j)
  PROVE  /\ TagsFresh' /\ stream'[1].tag = next_tag
<1>1. /\ pc = "idle" /\ runs < MaxRuns /\ stream' = DispatchStream(j, next_tag)
      /\ next_tag' = (next_tag + StreamLength) % TagSpace
      /\ runs' = runs + 1 /\ pc' = "start"
  BY DEF run_gemm, NextTag
<1> DEFINE more == MaxRuns - 1 - runs
<1>2. /\ runs \in Nat /\ next_tag \in Nat /\ more \in Nat
      /\ next_tag + more * StreamLength < TagSpace
  BY <1>1, Sizes DEF TagsFresh
<1>3. /\ more * StreamLength \in Nat
      /\ more > 0 => /\ (more - 1) * StreamLength \in Nat
                     /\ more * StreamLength = (more - 1) * StreamLength + StreamLength
  BY <1>2, Sizes
<1>4. \A n \in 1..StreamLength : stream'[n].tag = (next_tag + n - 1) % TagSpace
  BY <1>1, <1>2, StreamParts
<1>5. stream'[1].tag = next_tag
  <2>1. next_tag < TagSpace /\ next_tag + 1 - 1 = next_tag /\ 1 \in 1..StreamLength
    BY <1>2, <1>3, Sizes
  <2>2. next_tag % TagSpace = next_tag
    BY <2>1, <1>2, Sizes
  <2>3. QED BY <2>1, <2>2, <1>4
<1>6. runs' \in 0..MaxRuns /\ next_tag' \in Nat
  BY <1>1, <1>2, Sizes
<1>7. ASSUME runs' < MaxRuns
      PROVE  /\ next_tag' + (MaxRuns - 1 - runs') * StreamLength < TagSpace
             /\ \A n \in 1..StreamLength : stream'[n].tag \in 0..next_tag' - 1
  <2>1. more > 0 /\ MaxRuns - 1 - runs' = more - 1
    BY <1>1, <1>2, <1>7, Sizes
  <2>2. next_tag + StreamLength + (more - 1) * StreamLength < TagSpace
    BY <1>2, <1>3, <2>1, Sizes
  <2>3. next_tag + StreamLength < TagSpace
    BY <2>2, <2>1, <1>2, <1>3, Sizes
  <2>4. next_tag' = next_tag + StreamLength
    BY <2>3, <1>1, <1>2, Sizes
  <2>5. ASSUME NEW n \in 1..StreamLength PROVE stream'[n].tag \in 0..next_tag' - 1
    <3>1. next_tag + n - 1 \in 0..TagSpace - 1
      BY <2>3, <1>2, Sizes
    <3>2. (next_tag + n - 1) % TagSpace = next_tag + n - 1
      BY <3>1, Sizes
    <3>3. QED BY <3>2, <2>4, <1>2, <1>4, Sizes
  <2>6. QED BY <2>1, <2>2, <2>4, <2>5
<1>8. QED BY <1>1, <1>5, <1>6, <1>7 DEF TagsFresh

LEMMA RunHost ==
  ASSUME HostInv, NEW j \in Jobs, run_gemm(j)
  PROVE  HostInv'
<1>1. /\ pc = "idle" /\ runs < MaxRuns /\ pc' = "start" /\ job' = j
      /\ stream' = DispatchStream(j, next_tag) /\ read_responses' = <<>>
      /\ k' = 1 /\ result' = "running" /\ UNCHANGED <<answer, timed_out, endpointVars>>
  BY DEF run_gemm
<1>2. TagsFresh' /\ stream'[1].tag = next_tag /\ next_tag \in Nat
  BY FreshTags DEF HostInv, TagsFresh
<1>3. /\ UNCHANGED <<asked, answered, a_mem, b_mem, TagCount>> /\ ClientInv'
      /\ \A n : TagAt(n)' = TagAt(n)
  BY <1>1, ViewRests, ClientRests DEF HostInv
<1>4. ~Waiting /\ ~Waiting'
  BY <1>1 DEF Waiting
<1>5. ASSUME OutOfStep PROVE OutOfStep'
  <2>1. TagCount >= 1 /\ \A n \in 1..TagCount : TagAt(n) \in 0..next_tag - 1
    BY <1>1, <1>4, <1>5 DEF OutOfStep
  <2>2. \A n \in 1..TagCount' : TagAt(n)' # stream'[1].tag
    BY <2>1, <1>2, <1>3
  <2>3. runs' < MaxRuns => \A n \in 1..TagCount' : TagAt(n)' \in 0..next_tag' - 1
    <3>1. runs' < MaxRuns => stream'[1].tag \in 0..next_tag' - 1 /\ next_tag' \in Nat
      <4>1. 1 \in 1..StreamLength /\ pc' # "idle"
        BY <1>1, Sizes
      <4>2. QED BY <1>2, <4>1 DEF TagsFresh
    <3>2. SUFFICES ASSUME runs' < MaxRuns, NEW n \in 1..TagCount'
                   PROVE  TagAt(n)' \in 0..next_tag' - 1
      OBVIOUS
    <3>3. TagAt(n)' = TagAt(n) /\ TagAt(n) \in 0..next_tag - 1 /\ next_tag < next_tag'
      BY <3>1, <3>2, <2>1, <1>2, <1>3
    <3>4. QED BY <3>1, <3>2, <3>3, <1>2
  <2>4. QED BY <2>1, <2>2, <2>3, <1>1, <1>3, <1>4 DEF OutOfStep
<1>6. ASSUME InStep PROVE InStep'
  <2>1. asked' = <<>> /\ answered' = <<>>
    BY <1>3, <1>4, <1>6 DEF InStep
  <2>2. ReadsOK(k - 1)'
    <3>1. QueueOK(<<>>)
      <4>1. <<>> \in Seq({})
        OBVIOUS
      <4>2. QED BY <4>1, QueueOfAny
    <3>2. k' - 1 = 0 /\ 0 <= 2 * Cells + 1 /\ Len(<<>>) = 0 /\ 1..0 = {}
      BY <1>1, Sizes
    <3>3. QED BY <3>1, <3>2, <1>1 DEF ReadsOK
  <2>3. MemOK(k - 1)'
    BY <1>1, Sizes DEF MemOK
  <2>4. QED BY <2>1, <2>2, <2>3, <1>1, <1>4, Sizes DEF InStep
<1>7. \E t \in Nat : stream' = DispatchStream(job', t)
  BY <1>1, <1>2
<1>8. QED BY <1>1, <1>2, <1>3, <1>5, <1>6, <1>7 DEF HostInv, RightAnswer

LEMMA FreshEndpoint ==
  EndpointInit => /\ ClientInv /\ asked = <<>> /\ answered = <<>>
                  /\ a_mem \in Matrix(Bytes) /\ b_mem \in Matrix(Bytes)
<1> SUFFICES ASSUME EndpointInit
             PROVE  /\ ClientInv /\ asked = <<>> /\ answered = <<>>
                    /\ a_mem \in Matrix(Bytes) /\ b_mem \in Matrix(Bytes)
  OBVIOUS
<1>1. ClientInv /\ asked = <<>> /\ answered = <<>>
  BY ClientStart, StartRefines DEF Device!DeviceInit
<1>2. a_mem = Zero /\ b_mem = Zero /\ Zero \in Matrix(Bytes)
  BY EndpointAssumption DEF EndpointInit, Zero, Matrix
<1>3. QED BY <1>1, <1>2

LEMMA FreshEndpointNext ==
  (EndpointInit => /\ ClientInv /\ asked = <<>> /\ answered = <<>>
                   /\ a_mem \in Matrix(Bytes) /\ b_mem \in Matrix(Bytes))'
BY FreshEndpoint, PTL

LEMMA NewHostHost ==
  ASSUME HostInv, NewHost
  PROVE  HostInv'
<1>3. EndpointInit'
  BY DEF NewHost, EndpointReset, EndpointInit
<1>4. /\ ClientInv' /\ asked' = <<>> /\ answered' = <<>>
      /\ a_mem' \in Matrix(Bytes) /\ b_mem' \in Matrix(Bytes)
  BY <1>3, FreshEndpointNext
<1>5. /\ pc = "idle" /\ pc' = "idle" /\ runs' = runs /\ runs \in 1..MaxRuns - 1 /\ next_tag' = 0
      /\ result' = "none" /\ timed_out' = FALSE
  BY DEF NewHost
<1>6. TagsFresh'
  <2>1. /\ runs \in 0..MaxRuns /\ next_tag \in Nat
        /\ next_tag + (MaxRuns - 1 - runs) * StreamLength < TagSpace
    BY <1>5, Sizes DEF HostInv, TagsFresh
  <2>2. (MaxRuns - 1 - runs) * StreamLength \in Nat
    BY <2>1, <1>5, Sizes
  <2>3. 0 + (MaxRuns - 1 - runs) * StreamLength < TagSpace
    BY <2>1, <2>2, Sizes
  <2>4. QED BY <2>1, <2>3, <1>5 DEF TagsFresh
<1>7. InStep' /\ RightAnswer'
  BY <1>4, <1>5 DEF InStep, Waiting, RightAnswer
<1>8. QED BY <1>4, <1>5, <1>6, <1>7 DEF HostInv

LEMMA HostStart ==
  ASSUME TagsFit, Init
  PROVE  HostInv
<1>1. /\ ClientInv /\ asked = <<>> /\ answered = <<>>
      /\ a_mem \in Matrix(Bytes) /\ b_mem \in Matrix(Bytes)
  BY FreshEndpoint DEF Init
<1>2. TagsFresh
  BY Sizes DEF TagsFit, Init, TagsFresh
<1>3. InStep /\ RightAnswer
  BY <1>1 DEF Init, InStep, Waiting, RightAnswer
<1>4. QED BY <1>1, <1>2, <1>3 DEF Init, HostInv

LEMMA HostRests ==
  ASSUME HostInv, UNCHANGED vars
  PROVE  HostInv'
<1>1. UNCHANGED <<hostVars, endpointVars>>
  BY DEF vars
<1>2. /\ UNCHANGED <<asked, answered, a_mem, b_mem, c_mem, TagCount>> /\ ClientInv'
      /\ \A n : TagAt(n)' = TagAt(n)
  BY <1>1, ViewRests, ClientRests DEF HostInv
<1>3. OutOfStep => OutOfStep'
  BY <1>1, <1>2 DEF OutOfStep, Waiting, hostVars
<1>4. InStep => InStep'
  <2>1. /\ MemOK(k - 1) => MemOK(k - 1)'
        /\ MemOK(k) => MemOK(k)'
        /\ ReadsOK(k - 1) => ReadsOK(k - 1)'
        /\ Expected(k)' = Expected(k)
    BY <1>1, <1>2 DEF MemOK, ReadsOK, QueueOK, Expected, hostVars
  <2>2. QED BY <1>1, <1>2, <2>1 DEF InStep, Waiting, hostVars
<1>5. TagsFresh' /\ RightAnswer'
  BY <1>1 DEF HostInv, TagsFresh, RightAnswer, hostVars
<1>6. QED BY <1>1, <1>2, <1>3, <1>4, <1>5 DEF HostInv, hostVars

(***************************************************************************)
(* The theorems                                                            *)
(***************************************************************************)
\* A host that has always waited for its answers is in step with the endpoint,
\* and one that has given up on an answer stays behind by it.
THEOREM HostSafe ==
  ASSUME TagsFit
  PROVE  Spec => []HostInv
<1>1. Init => HostInv
  BY HostStart
<1>2. HostInv /\ [Next]_vars => HostInv'
  BY RunHost, NewHostHost, TickHost, SendHost, WaitHost, TimeoutHost, TakeHost, FinishHost,
     HostRests DEF Next, HostStep
<1>3. QED BY <1>1, <1>2, PTL DEF Spec

\* A run that succeeds returns the product of its own matrices, whatever runs
\* came before it on this host and however they ended.
THEOREM AnswerSafe ==
  ASSUME TagsFit
  PROVE  Spec => []RightAnswer
<1>1. HostInv => RightAnswer
  BY DEF HostInv
<1>2. QED BY <1>1, HostSafe, PTL

\* A run fails exactly when this host has given up on an answer, in this run or
\* an earlier one: no run succeeds on answers that are not its own.
THEOREM TimeoutSafe ==
  ASSUME TagsFit
  PROVE  Spec => []OnlyTimeoutsFail
<1>1. HostInv => OnlyTimeoutsFail
  BY DEF HostInv, OutOfStep, InStep, OnlyTimeoutsFail
<1>2. QED BY <1>1, HostSafe, PTL

\* The recorder and the hardware-JIT pipeline only watch: with both of them on,
\* the host and the endpoint do what they do without.
THEOREM ObserversPassive == ReplaySpec => Spec
<1>1. ReplayInit => Init
  BY DEF ReplayInit
<1>2. [ReplayNext]_replayVars => [Next]_vars
  <2>1. ReplayNext => Next
    BY DEF ReplayNext, Next, run_gemm_recorded, RecordNewHost, RecordStep, RecordStartTick,
           RecordSend, RecordWaitTick, RecordWait, RecordResponse, RecordFinish, HostStep
  <2>2. UNCHANGED replayVars => UNCHANGED vars
    BY DEF replayVars
  <2>3. QED BY <2>1, <2>2
<1>3. QED BY <1>1, <1>2, PTL DEF ReplaySpec, Spec

(***************************************************************************)
(* What CxlTraceRecorder makes of the runs of a host, in all three record  *)
(* modes: a function of the job and the first tag, and of nothing else.    *)
(***************************************************************************)
\* The right answer to the n-th FLIT of a run.
RightResponse(j, t, n) ==
  IF n <= 2 * Cells + 1 THEN Response("Cmp", DispatchStream(j, t)[n].tag, 0)
  ELSE Response("MemData", DispatchStream(j, t)[n].tag,
                Product(j.a, j.b)[CellAt(n - 2 * Cells - 1)])

RecordOf(n, direction, msg, after) ==
  [epoch |-> gemm_epoch(n), direction |-> direction,
   transaction_class |-> classify(msg), msg_class |-> msg.class, opcode |-> msg.opcode,
   tag |-> msg.tag, address |-> msg.addr, dependencies |-> after,
   fence |-> n = 2 * Cells + 1, payload |-> PayloadCapture(msg.data)]

\* The i-th record of a run of job j with first tag t: requests and answers in
\* turn, whatever the clocks between them.
RecordAt(j, t, i) ==
  LET n == (i + 1) \div 2
      flit == DispatchStream(j, t)[n]
  IN  IF i % 2 = 1
      THEN RecordOf(n, "HostToDevice", Message(flit),
                    IF n = 1 THEN None ELSE Some(DispatchStream(j, t)[n - 1].tag))
      ELSE RecordOf(n, "DeviceToHost", Answer(RightResponse(j, t, n)), Some(flit.tag))

\* The first m records of such a run.
RunTrace(recs, j, t, m) ==
  /\ QueueOK(recs) /\ Len(recs) = m
  /\ \A i \in 1..m : recs[i] = RecordAt(j, t, i)

GoodArtifact(f) ==
  /\ f.job \in Jobs /\ f.first_tag \in Tags
  /\ RunTrace(f.records, f.job, f.first_tag, 2 * StreamLength)
  /\ f = [job |-> f.job, first_tag |-> f.first_tag, cycles |-> f.cycles, records |-> f.records,
          final_result_commitment |-> <<Product(f.job.a, f.job.b), f.cycles>>,
          summary |-> summarize(f.records)]

\* A host in step has recorded what it has sent and received so far, and every
\* artifact holds the records of one whole run.
RecInv ==
  /\ next_tag \in Tags
  /\ \A f \in left \cup right : GoodArtifact(f)
  /\ pc # "idle" /\ ~timed_out =>
       \E t \in Tags :
         /\ stream = DispatchStream(job, t)
         /\ RunTrace(records, job, t, 2 * (k - 1) + Bit(Waiting))
         /\ last_response_tag = IF k = 1 THEN None ELSE Some(stream[k - 1].tag)

(***************************************************************************)
(* Payloads                                                                *)
(***************************************************************************)
\* Delta capture loses nothing of a token: its changed bytes are its bytes.
LEMMA BytesTell ==
  ASSUME NEW v \in 0..2^20 - 1, NEW w \in 0..2^20 - 1, ChangedBytes(v) = ChangedBytes(w)
  PROVE  v = w
<1>1. ASSUME NEW x, NEW y, NEW i \in 0..3, ChangedBytes(x) = ChangedBytes(y),
             ByteOf(x, i) # 0
      PROVE  ByteOf(y, i) = ByteOf(x, i)
  <2>1. <<i, ByteOf(x, i)>> \in ChangedBytes(x)
    BY <1>1 DEF ChangedBytes
  <2>2. PICK m \in 0..3 : <<i, ByteOf(x, i)>> = <<m, ByteOf(y, m)>>
    BY <2>1, <1>1 DEF ChangedBytes
  <2>3. QED BY <2>2
<1>2. \A i \in 0..3 : ByteOf(v, i) = ByteOf(w, i)
  BY <1>1
<1>3. /\ (v \div 256^0) % 256 = (w \div 256^0) % 256
      /\ (v \div 256^1) % 256 = (w \div 256^1) % 256
      /\ (v \div 256^2) % 256 = (w \div 256^2) % 256
  <2>1. 0 \in 0..3 /\ 1 \in 0..3 /\ 2 \in 0..3
    OBVIOUS
  <2>2. QED BY <1>2, <2>1 DEF ByteOf
<1>4. 256^0 = 1 /\ 256^1 = 256 /\ 256^2 = 256 * 256 /\ 2^20 = 16 * 256 * 256
  BY SMT
<1>5. QED BY <1>3, <1>4, SMT

\* A payload tells which word it captured.
LEMMA PayloadTells ==
  ASSUME NEW v \in 0..2^20 - 1, NEW w \in 0..2^20 - 1,
         PayloadCapture(Some(v)) = PayloadCapture(Some(w))
  PROVE  v = w
<1>1. Some(v) # None /\ Some(w) # None
  BY DEF Some, None
<1>2. OrElse(Some(v), 0) = v /\ OrElse(Some(w), 0) = w
  BY <1>1 DEF OrElse, Some
<1>3. CASE Mode = "Validation"
  <2>1. Some(v) = Some(w)
    BY <1>1, <1>3 DEF PayloadCapture
  <2>2. QED BY <2>1 DEF Some
<1>4. CASE Mode = "Delta"
  <2>1. ChangedBytes(v) = ChangedBytes(w)
    BY <1>1, <1>2, <1>4 DEF PayloadCapture
  <2>2. QED BY <2>1, BytesTell
<1>5. CASE Mode \notin {"Validation", "Delta"}
  <2>1. Some(v) = Some(w)
    BY <1>1, <1>5 DEF PayloadCapture
  <2>2. QED BY <2>1 DEF Some
<1>6. QED BY <1>3, <1>4, <1>5

\* The words of two load tokens for one cell differ where their bytes do.
LEMMA LoadWords ==
  ASSUME NEW sel \in 0..1, NEW x \in Cell, NEW v \in Bytes
  PROVE  /\ TokenWord(make_load_token(sel, x, v)) \in 0..2^20 - 1
         /\ TokenWord(make_load_token(sel, x, v))
              = TokenWord(make_load_token(sel, x, 0)) + 2^12 * v
<1>1. v \in 0..255 /\ 0 \in Bytes
  BY EndpointAssumption
<1>2. PICK r \in 0..Dim - 1, c \in 0..Dim - 1 : x = <<r, c>>
  BY DEF Cell
<1>3. ArrayAddr(x) = r * 16 + c /\ r \in 0..15 /\ c \in 0..15
  BY <1>2, Sizes DEF ArrayAddr
<1>4. \A d : TokenWord(make_load_token(sel, x, d))
               = 2^2 + 2^3 * sel + 2^4 * ArrayAddr(x) + 2^12 * d
  BY DEF TokenWord, make_load_token
<1>5. 2^2 = 4 /\ 2^3 = 8 /\ 2^4 = 16 /\ 2^12 = 16 * 256 /\ 2^20 = 16 * 256 * 256
  BY SMT
<1>6. QED BY <1>1, <1>3, <1>4, <1>5, SMT

(***************************************************************************)
(* The records of a run                                                    *)
(***************************************************************************)
LEMMA MessageTags ==
  /\ \A flit : Message(flit).tag = flit.tag
  /\ \A resp : Answer(resp).tag = resp.tag
BY DEF Message, Answer, Msg

\* Request and answer take two places in the records.
LEMMA RecordPair ==
  ASSUME NEW j, NEW t, NEW n \in Nat \ {0}
  PROVE  /\ RecordAt(j, t, 2 * n - 1)
              = RecordOf(n, "HostToDevice", Message(DispatchStream(j, t)[n]),
                         IF n = 1 THEN None ELSE Some(DispatchStream(j, t)[n - 1].tag))
         /\ RecordAt(j, t, 2 * n)
              = RecordOf(n, "DeviceToHost", Answer(RightResponse(j, t, n)),
                         Some(DispatchStream(j, t)[n].tag))
<1>1. (2 * n - 1 + 1) \div 2 = n /\ (2 * n - 1) % 2 = 1
  OBVIOUS
<1>2. (2 * n + 1) \div 2 = n /\ (2 * n) % 2 # 1
  OBVIOUS
<1>3. QED BY <1>1, <1>2 DEF RecordAt

LEMMA PairFields ==
  ASSUME NEW j, NEW t, NEW n \in Nat \ {0}
  PROVE  /\ RecordAt(j, t, 2 * n - 1).direction = "HostToDevice"
         /\ RecordAt(j, t, 2 * n - 1).tag = DispatchStream(j, t)[n].tag
         /\ RecordAt(j, t, 2 * n - 1).epoch = gemm_epoch(n)
         /\ RecordAt(j, t, 2 * n - 1).dependencies
              = IF n = 1 THEN None ELSE Some(DispatchStream(j, t)[n - 1].tag)
         /\ RecordAt(j, t, 2 * n).direction = "DeviceToHost"
         /\ RecordAt(j, t, 2 * n).tag = DispatchStream(j, t)[n].tag
         /\ RecordAt(j, t, 2 * n).epoch = gemm_epoch(n)
         /\ RecordAt(j, t, 2 * n).dependencies = Some(DispatchStream(j, t)[n].tag)
<1>1. RightResponse(j, t, n).tag = DispatchStream(j, t)[n].tag
  BY DEF RightResponse, Response
<1>2. \A d, msg, after :
        /\ RecordOf(n, d, msg, after).direction = d /\ RecordOf(n, d, msg, after).tag = msg.tag
        /\ RecordOf(n, d, msg, after).epoch = gemm_epoch(n)
        /\ RecordOf(n, d, msg, after).dependencies = after
  BY DEF RecordOf
<1>3. QED BY <1>1, <1>2, RecordPair, MessageTags

\* Every place is of one of the two kinds.
LEMMA Places ==
  ASSUME NEW i \in 1..2 * StreamLength
  PROVE  \E n \in 1..StreamLength : IF i % 2 = 1 THEN i = 2 * n - 1 ELSE i = 2 * n
<1> DEFINE n == (i + 1) \div 2
<1>1. n \in 1..StreamLength /\ (i % 2 = 1 => i = 2 * n - 1) /\ (i % 2 # 1 => i = 2 * n)
  BY Sizes
<1>2. QED BY <1>1

\* The first and the following record of a pair extend the records of a run.
LEMMA TraceGrows ==
  ASSUME NEW recs, NEW j, NEW t, NEW m \in Nat, RunTrace(recs, j, t, m)
  PROVE  RunTrace(Append(recs, RecordAt(j, t, m + 1)), j, t, m + 1)
<1> DEFINE r == RecordAt(j, t, m + 1)
           S == {recs[i] : i \in DOMAIN recs} \cup {r}
<1>1. recs \in Seq(S) /\ r \in S
  <2>1. recs \in Seq({recs[i] : i \in DOMAIN recs})
    BY DEF RunTrace, QueueOK
  <2>2. QED BY <2>1
<1>2. Len(recs) = m /\ \A i \in 1..m : recs[i] = RecordAt(j, t, i)
  BY DEF RunTrace
<1> HIDE DEF r, S
<1>3. /\ Len(Append(recs, r)) = m + 1 /\ Append(recs, r)[m + 1] = r
      /\ \A i \in 1..m : Append(recs, r)[i] = recs[i]
  BY <1>1, <1>2
<1>4. \A i \in 1..m + 1 : Append(recs, r)[i] = RecordAt(j, t, i)
  <2>1. SUFFICES ASSUME NEW i \in 1..m + 1 PROVE Append(recs, r)[i] = RecordAt(j, t, i)
    OBVIOUS
  <2>2. CASE i = m + 1
    BY <2>2, <1>3 DEF r
  <2>3. CASE i # m + 1
    <3>1. i \in 1..m
      BY <2>3
    <3>2. QED BY <3>1, <1>2, <1>3
  <2>4. QED BY <2>2, <2>3
<1>5. QueueOK(Append(recs, r))
  BY QueueKept DEF RunTrace
<1>6. QED BY <1>3, <1>4, <1>5 DEF RunTrace, r

\* The records are a function of the job, the first tag and the mode.
LEMMA TraceUnique ==
  ASSUME NEW j, NEW t, NEW m \in Nat, NEW p, NEW q,
         RunTrace(p, j, t, m), RunTrace(q, j, t, m)
  PROVE  p = q
<1>1. p = [i \in 1..m |-> p[i]] /\ q = [i \in 1..m |-> q[i]]
  BY DEF RunTrace, QueueOK
<1>2. \A i \in 1..m : p[i] = q[i]
  BY DEF RunTrace
<1>3. QED BY <1>1, <1>2

\* The epochs of a run are those of its four parts.
LEMMA Epochs ==
  /\ \A n \in 1..StreamLength : gemm_epoch(n) \in 0..3
  /\ gemm_epoch(StreamLength) = 3
<1>1. \A n \in 1..StreamLength : gemm_epoch(n) \in 0..3
  BY Sizes DEF gemm_epoch
<1>2. ~(StreamLength <= Cells) /\ StreamLength \notin Cells + 1..2 * Cells
      /\ StreamLength # 2 * Cells + 1
  BY Sizes
<1>3. QED BY <1>1, <1>2 DEF gemm_epoch

LEMMA PairEpochs ==
  ASSUME NEW j, NEW t, NEW n \in 1..StreamLength
  PROVE  \A i : i \in {2 * n - 1, 2 * n} => RecordAt(j, t, i).epoch = gemm_epoch(n)
<1>1. n \in Nat \ {0}
  BY Sizes
<1>2. RecordAt(j, t, 2 * n - 1).epoch = gemm_epoch(n) /\ RecordAt(j, t, 2 * n).epoch = gemm_epoch(n)
  BY <1>1, PairFields
<1>3. QED BY <1>2

LEMMA FourEpochs ==
  ASSUME NEW recs, NEW j, NEW t, RunTrace(recs, j, t, 2 * StreamLength)
  PROVE  summarize(recs).epoch_count = 4
<1> DEFINE E == {r.epoch : r \in ToSet(recs)}
<1>1. /\ DOMAIN recs = 1..2 * StreamLength /\ Len(recs) = 2 * StreamLength
      /\ \A i \in 1..2 * StreamLength : recs[i] = RecordAt(j, t, i)
  BY DEF RunTrace, QueueOK
<1>2. E = {recs[i].epoch : i \in 1..2 * StreamLength}
  BY <1>1 DEF ToSet
<1>3. ASSUME NEW i \in 1..2 * StreamLength PROVE recs[i].epoch \in 0..3
  <2>1. PICK n \in 1..StreamLength : IF i % 2 = 1 THEN i = 2 * n - 1 ELSE i = 2 * n
    BY Places
  <2>2. RecordAt(j, t, i).epoch = gemm_epoch(n)
    BY <2>1, PairEpochs
  <2>3. QED BY <1>1, <2>2, Epochs
<1>4. 3 \in E
  <2>1. 2 * StreamLength \in 1..2 * StreamLength /\ StreamLength \in 1..StreamLength
    BY Sizes
  <2>2. RecordAt(j, t, 2 * StreamLength).epoch = 3
    BY <2>1, PairEpochs, Epochs
  <2>3. QED BY <2>1, <2>2, <1>1, <1>2
<1>5. E \subseteq 0..3
  BY <1>2, <1>3
<1> HIDE DEF E
<1>6. Max(E) = 3
  <2>1. \A x \in E : (\A y \in E : x >= y) <=> x = 3
    BY <1>4, <1>5
  <2>2. QED BY <2>1, <1>4 DEF Max
<1>7. recs # <<>>
  <2>1. Len(<<>>) = 0
    OBVIOUS
  <2>2. QED BY <2>1, <1>1, Sizes
<1>8. QED BY <1>6, <1>7 DEF summarize, E

(***************************************************************************)
(* Comparing artifacts                                                     *)
(***************************************************************************)
\* validate_equivalent on two recordings of one length.
LEMMA Compare ==
  ASSUME NEW l, NEW r, NEW m \in Nat, Len(l.records) = m, Len(r.records) = m
  PROVE  is_equivalent(validate_equivalent(l, r)) <=>
           /\ \A i \in 1..m : l.records[i] = r.records[i]
           /\ l.final_result_commitment = r.final_result_commitment
<1> DEFINE differ == {i \in 1..m : l.records[i] # r.records[i]}
           v == validate_equivalent(l, r)
<1>1. Max({m, m}) = m /\ Min({m, m}) = m
  <2>1. \A x \in {m, m} : x = m
    OBVIOUS
  <2>2. QED BY <2>1 DEF Max, Min
<1>2. IsFiniteSet(1..m) /\ Cardinality(1..m) = m
  BY FS_Interval
<1>3. IsFiniteSet(differ) /\ Cardinality(differ) \in Nat
  BY <1>2, FS_Subset, FS_CardinalityType
<1>4. Cardinality(differ) = 0 <=> differ = {}
  BY <1>3, FS_EmptySet
<1>5. /\ v.record_count_matches = TRUE
      /\ v.record_mismatches = Cardinality(differ) + m - m
      /\ v.final_commitment_matches
           = (l.final_result_commitment = r.final_result_commitment)
  BY <1>1, <1>2 DEF validate_equivalent
<1> HIDE DEF v
<1>6. is_equivalent(v) <=> differ = {} /\ l.final_result_commitment = r.final_result_commitment
  <2>1. v.record_mismatches = 0 <=> differ = {}
    <3> HIDE DEF differ
    <3>1. QED BY <1>3, <1>4, <1>5
  <2>2. QED BY <2>1, <1>5 DEF is_equivalent
<1>7. QED BY <1>6 DEF v

\* What the records show of a load.
LEMMA LoadShows ==
  ASSUME NEW j \in Jobs, NEW t \in Tags, NEW n \in 1..Cells
  PROVE  /\ RecordAt(j, t, 2 * n - 1).payload
              = PayloadCapture(Some(TokenWord(make_load_token(0, CellAt(n), j.a[CellAt(n)]))))
         /\ RecordAt(j, t, 2 * (Cells + n) - 1).payload
              = PayloadCapture(Some(TokenWord(make_load_token(1, CellAt(n), j.b[CellAt(n)]))))
<1>1. /\ n \in 1..StreamLength /\ n <= Cells /\ t \in Nat
      /\ Cells + n \in 1..StreamLength /\ Cells + n \in Cells + 1..2 * Cells
      /\ Cells + n - Cells = n /\ n \in Nat \ {0} /\ Cells + n \in Nat \ {0}
  BY Sizes DEF Tags
<1>2. \A flit : flit.class = "RwD" => Message(flit).data = Some(TokenWord(flit.token))
  BY DEF Message, Msg, HasData
<1>3. /\ DispatchStream(j, t)[n].class = "RwD"
      /\ DispatchStream(j, t)[n].token = make_load_token(0, CellAt(n), j.a[CellAt(n)])
  BY <1>1, StreamParts
<1>4. /\ DispatchStream(j, t)[Cells + n].class = "RwD"
      /\ DispatchStream(j, t)[Cells + n].token = make_load_token(1, CellAt(n), j.b[CellAt(n)])
  <2> DEFINE m == Cells + n
  <2>1. m \in 1..StreamLength /\ m \in Cells + 1..2 * Cells /\ m - Cells = n
    BY Sizes
  <2> HIDE DEF m
  <2>2. /\ DispatchStream(j, t)[m].class = "RwD"
        /\ DispatchStream(j, t)[m].token
             = make_load_token(1, CellAt(m - Cells), j.b[CellAt(m - Cells)])
    BY <1>1, <2>1, StreamParts
  <2>3. QED BY <2>1, <2>2 DEF m
<1>5. ASSUME NEW i \in Nat \ {0}
      PROVE  RecordAt(j, t, 2 * i - 1).payload
               = PayloadCapture(Message(DispatchStream(j, t)[i]).data)
  <2>1. \A d, msg, after : RecordOf(i, d, msg, after).payload = PayloadCapture(msg.data)
    BY DEF RecordOf
  <2>2. QED BY <2>1, RecordPair
<1>6. QED BY <1>1, <1>2, <1>3, <1>4, <1>5

LEMMA LoadTells ==
  ASSUME NEW sel \in 0..1, NEW x \in Cell, NEW v \in Bytes, NEW w \in Bytes,
         PayloadCapture(Some(TokenWord(make_load_token(sel, x, v))))
           = PayloadCapture(Some(TokenWord(make_load_token(sel, x, w))))
  PROVE  v = w
<1> DEFINE u(b) == TokenWord(make_load_token(sel, x, b))
<1>1. /\ u(0) \in Int /\ u(v) \in 0..2^20 - 1 /\ u(w) \in 0..2^20 - 1
      /\ u(v) = u(0) + 2^12 * v /\ u(w) = u(0) + 2^12 * w
      /\ v \in Int /\ w \in Int
  <2>1. 0 \in Bytes /\ Bytes \subseteq 0..255
    BY EndpointAssumption
  <2>2. u(0) \in 0..2^20 - 1
    BY <2>1, LoadWords
  <2>3. /\ u(v) \in 0..2^20 - 1 /\ u(w) \in 0..2^20 - 1
        /\ u(v) = u(0) + 2^12 * v /\ u(w) = u(0) + 2^12 * w
    BY LoadWords
  <2> HIDE DEF u
  <2>4. QED BY <2>1, <2>2, <2>3, SMT
<1>2. u(v) = u(w)
  BY <1>1, PayloadTells
<1> HIDE DEF u
<1>3. 2^12 = 16 * 256
  BY SMT
<1>4. QED BY <1>1, <1>2, <1>3, SMT

LEMMA FirstTag ==
  ASSUME NEW j \in Jobs, NEW t \in Tags
  PROVE  DispatchStream(j, t)[1].tag = t
<1>1. 1 \in 1..StreamLength /\ t \in Nat /\ (t + 1 - 1) % TagSpace = t
  BY Sizes DEF Tags
<1>2. QED BY <1>1, StreamParts

\* Records tell job and first tag.
LEMMA TraceTells ==
  ASSUME NEW i \in Jobs, NEW j \in Jobs, NEW s \in Tags, NEW t \in Tags,
         \A n \in 1..2 * StreamLength : RecordAt(i, s, n) = RecordAt(j, t, n)
  PROVE  i = j /\ s = t
<1>1. /\ i = [a |-> i.a, b |-> i.b] /\ j = [a |-> j.a, b |-> j.b]
      /\ i.a \in [Cell -> Bytes] /\ i.b \in [Cell -> Bytes]
      /\ j.a \in [Cell -> Bytes] /\ j.b \in [Cell -> Bytes]
  BY HostAssumption DEF Matrix
<1>2. ASSUME NEW x \in Cell PROVE i.a[x] = j.a[x] /\ i.b[x] = j.b[x]
  <2>1. PICK n \in 1..Cells : x = CellAt(n)
    BY CellNumbers
  <2>2. 2 * n - 1 \in 1..2 * StreamLength /\ 2 * (Cells + n) - 1 \in 1..2 * StreamLength
    BY Sizes
  <2>3. i.a[x] \in Bytes /\ i.b[x] \in Bytes /\ j.a[x] \in Bytes /\ j.b[x] \in Bytes
    BY <1>1
  <2>4. /\ PayloadCapture(Some(TokenWord(make_load_token(0, x, i.a[x]))))
             = PayloadCapture(Some(TokenWord(make_load_token(0, x, j.a[x]))))
        /\ PayloadCapture(Some(TokenWord(make_load_token(1, x, i.b[x]))))
             = PayloadCapture(Some(TokenWord(make_load_token(1, x, j.b[x]))))
    BY <2>1, <2>2, LoadShows
  <2>5. i.a[x] = j.a[x]
    BY <2>3, <2>4, LoadTells
  <2>6. i.b[x] = j.b[x]
    BY <2>3, <2>4, LoadTells
  <2>7. QED BY <2>5, <2>6
<1>3. i = j
  BY <1>1, <1>2
<1>4. s = t
  <2>1. ASSUME NEW g \in Jobs, NEW u \in Tags PROVE RecordAt(g, u, 1).tag = u
    <3>1. 2 * 1 - 1 = 1 /\ 1 \in Nat \ {0}
      OBVIOUS
    <3>2. DispatchStream(g, u)[1].tag = u
      BY FirstTag
    <3>3. \A n \in Nat \ {0} : RecordAt(g, u, 2 * n - 1).tag = DispatchStream(g, u)[n].tag
      BY PairFields
    <3>4. QED BY <3>1, <3>2, <3>3
  <2>2. 1 \in 1..2 * StreamLength
    BY Sizes
  <2>3. QED BY <2>1, <2>2
<1>5. QED BY <1>3, <1>4

\* Each request of a whole run waits for the answer before it.
LEMMA TraceChains ==
  ASSUME NEW recs, NEW j, NEW t, RunTrace(recs, j, t, 2 * StreamLength)
  PROVE  CausalChain(recs)
<1>1. Len(recs) = 2 * StreamLength /\ \A i \in 1..2 * StreamLength : recs[i] = RecordAt(j, t, i)
  BY DEF RunTrace
<1>2. SUFFICES ASSUME NEW i \in 1..2 * StreamLength
               PROVE  IF i % 2 = 1
                      THEN /\ recs[i].direction = "HostToDevice"
                           /\ recs[i].dependencies = IF i = 1 THEN None ELSE Some(recs[i - 1].tag)
                      ELSE /\ recs[i].direction = "DeviceToHost"
                           /\ recs[i].tag = recs[i - 1].tag
                           /\ recs[i].dependencies = Some(recs[i - 1].tag)
  BY <1>1 DEF CausalChain
<1>3. PICK n \in 1..StreamLength : IF i % 2 = 1 THEN i = 2 * n - 1 ELSE i = 2 * n
  BY Places
<1>4. n \in Nat \ {0}
  BY Sizes
<1>5. CASE i % 2 = 1 /\ n = 1
  <2>1. i = 1 /\ i = 2 * n - 1 /\ recs[i] = RecordAt(j, t, i)
    BY <1>1, <1>3, <1>5
  <2>2. /\ RecordAt(j, t, 2 * n - 1).direction = "HostToDevice"
        /\ RecordAt(j, t, 2 * n - 1).dependencies
             = IF n = 1 THEN None ELSE Some(DispatchStream(j, t)[n - 1].tag)
    BY <1>4, PairFields
  <2>3. recs[i].direction = "HostToDevice" /\ recs[i].dependencies = None
    BY <1>5, <2>1, <2>2
  <2>4. QED BY <2>1, <2>3, <1>5
<1>6. CASE i % 2 = 1 /\ n # 1
  <2> DEFINE m == n - 1
  <2>1. /\ i # 1 /\ i = 2 * n - 1 /\ recs[i] = RecordAt(j, t, i)
        /\ m \in Nat \ {0} /\ i - 1 = 2 * m
    BY <1>1, <1>3, <1>4, <1>6, Sizes
  <2>2. recs[i - 1] = RecordAt(j, t, i - 1)
    <3>1. i - 1 \in 1..2 * StreamLength
      BY <2>1, Sizes
    <3>2. QED BY <3>1, <1>1
  <2>3. /\ RecordAt(j, t, 2 * n - 1).direction = "HostToDevice"
        /\ RecordAt(j, t, 2 * n - 1).dependencies
             = IF n = 1 THEN None ELSE Some(DispatchStream(j, t)[n - 1].tag)
    BY <1>4, PairFields
  <2> HIDE DEF m
  <2>4. RecordAt(j, t, 2 * m).tag = DispatchStream(j, t)[m].tag
    BY <2>1, PairFields
  <2>5. /\ recs[i].direction = "HostToDevice"
        /\ recs[i].dependencies = Some(DispatchStream(j, t)[m].tag)
        /\ recs[i - 1].tag = DispatchStream(j, t)[m].tag
    BY <1>6, <2>1, <2>2, <2>3, <2>4 DEF m
  <2>6. QED BY <2>1, <2>5, <1>6
<1>7. CASE i % 2 # 1
  <2>1. /\ i = 2 * n /\ recs[i] = RecordAt(j, t, i) /\ i - 1 = 2 * n - 1
        /\ i - 1 \in 1..2 * StreamLength
    BY <1>1, <1>3, <1>4, <1>7, Sizes
  <2>2. recs[i - 1] = RecordAt(j, t, 2 * n - 1)
    BY <2>1, <1>1
  <2>3. /\ RecordAt(j, t, 2 * n).direction = "DeviceToHost"
        /\ RecordAt(j, t, 2 * n).tag = DispatchStream(j, t)[n].tag
        /\ RecordAt(j, t, 2 * n).dependencies = Some(DispatchStream(j, t)[n].tag)
        /\ RecordAt(j, t, 2 * n - 1).tag = DispatchStream(j, t)[n].tag
    BY <1>4, PairFields
  <2>4. QED BY <2>1, <2>2, <2>3, <1>7
<1>8. QED BY <1>5, <1>6, <1>7

\* The tags of the first request and its answer agree in a run, and do not in a
\* spoilt copy.
LEMMA FirstPair ==
  ASSUME NEW f, GoodArtifact(f)
  PROVE  /\ Len(f.records) = 2 * StreamLength /\ 1 \in 1..2 * StreamLength /\ 2 \in 1..2 * StreamLength
         /\ f.records[1].tag = f.first_tag /\ f.records[2].tag = f.first_tag
<1>1. /\ f.job \in Jobs /\ f.first_tag \in Tags /\ Len(f.records) = 2 * StreamLength
      /\ \A i \in 1..2 * StreamLength : f.records[i] = RecordAt(f.job, f.first_tag, i)
  BY DEF GoodArtifact, RunTrace
<1>2. 1 \in 1..2 * StreamLength /\ 2 \in 1..2 * StreamLength /\ 1 \in 1..StreamLength
  BY Sizes
<1>3. DispatchStream(f.job, f.first_tag)[1].tag = f.first_tag
  BY <1>1, FirstTag
<1>4. ASSUME NEW n \in Nat \ {0}
      PROVE  /\ RecordAt(f.job, f.first_tag, 2 * n - 1).tag
                  = DispatchStream(f.job, f.first_tag)[n].tag
             /\ RecordAt(f.job, f.first_tag, 2 * n).tag
                  = DispatchStream(f.job, f.first_tag)[n].tag
  BY PairFields
<1>5. /\ RecordAt(f.job, f.first_tag, 1).tag = f.first_tag
      /\ RecordAt(f.job, f.first_tag, 2).tag = f.first_tag
  <2>1. 2 * 1 - 1 = 1 /\ 2 * 1 = 2 /\ 1 \in Nat \ {0}
    OBVIOUS
  <2>2. QED BY <1>3, <1>4, <2>1
<1>6. QED BY <1>1, <1>2, <1>5

LEMMA SpoiltPair ==
  ASSUME NEW f, GoodArtifact(f)
  PROVE  /\ Len(Spoilt(f).records) = 2 * StreamLength
         /\ Spoilt(f).records[1].tag = (f.first_tag + 1) % TagSpace
         /\ Spoilt(f).records[2].tag = f.first_tag
<1> DEFINE recs == f.records
           bad == [recs[1] EXCEPT !.tag = (@ + 1) % TagSpace]
           S == {recs[i] : i \in DOMAIN recs} \cup {bad}
<1>1. /\ 1 \in 1..2 * StreamLength /\ 2 \in 1..2 * StreamLength /\ Len(recs) = 2 * StreamLength
      /\ recs[1].tag = f.first_tag /\ recs[2].tag = f.first_tag
  BY FirstPair
<1>2. recs \in Seq(S) /\ bad \in S /\ DOMAIN recs = 1..2 * StreamLength
  <2>1. recs \in Seq({recs[i] : i \in DOMAIN recs})
    BY DEF GoodArtifact, RunTrace, QueueOK
  <2>2. QED BY <2>1, <1>1
<1>3. bad.tag = (f.first_tag + 1) % TagSpace
  <2>1. recs[1] = RecordAt(f.job, f.first_tag, 1)
    BY <1>1 DEF GoodArtifact, RunTrace
  <2>2. 2 * 1 - 1 = 1 /\ 1 \in Nat \ {0}
    OBVIOUS
  <2>3. PICK d, msg, after : RecordAt(f.job, f.first_tag, 1) = RecordOf(1, d, msg, after)
    BY <2>2, RecordPair
  <2>4. "tag" \in DOMAIN recs[1]
    BY <2>1, <2>3 DEF RecordOf
  <2>5. QED BY <2>4, <1>1
<1>4. Spoilt(f).records = [recs EXCEPT ![1] = bad]
  <2>1. f = [job |-> f.job, first_tag |-> f.first_tag, cycles |-> f.cycles, records |-> f.records,
             final_result_commitment |-> <<Product(f.job.a, f.job.b), f.cycles>>,
             summary |-> summarize(f.records)]
    BY DEF GoodArtifact
  <2>2. "records" \in DOMAIN f
    BY <2>1
  <2>3. QED BY <2>2 DEF Spoilt
<1> HIDE DEF bad, recs, S
<1>5. [recs EXCEPT ![1] = bad] \in Seq(S)
  BY <1>1, <1>2
<1>6. Len([recs EXCEPT ![1] = bad]) = 2 * StreamLength
  BY <1>1, <1>2, <1>5, Sizes
<1>7. [recs EXCEPT ![1] = bad][1] = bad /\ [recs EXCEPT ![1] = bad][2] = recs[2]
  BY <1>1, <1>2
<1>8. QED BY <1>1, <1>3, <1>4, <1>6, <1>7

\* What the invariant says of one artifact and of two.
LEMMA OneRecording ==
  ASSUME NEW f, GoodArtifact(f)
  PROVE  /\ CausalChain(f.records) /\ Len(f.records) = 2 * StreamLength
         /\ f.summary.epoch_count = 4
<1>1. RunTrace(f.records, f.job, f.first_tag, 2 * StreamLength)
  BY DEF GoodArtifact
<1>2. f.summary = summarize(f.records)
  BY DEF GoodArtifact
<1>3. Len(f.records) = 2 * StreamLength
  BY <1>1 DEF RunTrace
<1>4. CausalChain(f.records) /\ summarize(f.records).epoch_count = 4
  BY <1>1, TraceChains, FourEpochs
<1>5. QED BY <1>2, <1>3, <1>4

LEMMA TwoRecordings ==
  ASSUME NEW l, NEW r, GoodArtifact(l), GoodArtifact(r)
  PROVE  LET twins == l.job = r.job /\ l.first_tag = r.first_tag
         IN  /\ twins => l.records = r.records
             /\ is_equivalent(validate_equivalent(l, r)) <=> twins /\ l.cycles = r.cycles
             /\ ~is_equivalent(validate_equivalent(l, Spoilt(r)))
<1> DEFINE twins == l.job = r.job /\ l.first_tag = r.first_tag
           m == 2 * StreamLength
<1>1. m \in Nat
  BY Sizes
<1>2. /\ RunTrace(l.records, l.job, l.first_tag, m) /\ RunTrace(r.records, r.job, r.first_tag, m)
      /\ Len(l.records) = m /\ Len(r.records) = m
      /\ \A i \in 1..m : /\ l.records[i] = RecordAt(l.job, l.first_tag, i)
                         /\ r.records[i] = RecordAt(r.job, r.first_tag, i)
  BY DEF GoodArtifact, RunTrace
<1>3. /\ l.job \in Jobs /\ r.job \in Jobs /\ l.first_tag \in Tags /\ r.first_tag \in Tags
      /\ l.final_result_commitment = <<Product(l.job.a, l.job.b), l.cycles>>
      /\ r.final_result_commitment = <<Product(r.job.a, r.job.b), r.cycles>>
  BY DEF GoodArtifact
<1>4. twins => l.records = r.records
  BY <1>1, <1>2, TraceUnique
<1>5. is_equivalent(validate_equivalent(l, r)) <=>
        /\ \A i \in 1..m : l.records[i] = r.records[i]
        /\ l.final_result_commitment = r.final_result_commitment
  BY <1>1, <1>2, Compare
<1>6. (\A i \in 1..m : l.records[i] = r.records[i]) => twins
  <2>1. SUFFICES ASSUME \A i \in 1..m : l.records[i] = r.records[i]
                 PROVE  twins
    OBVIOUS
  <2>2. \A i \in 1..2 * StreamLength :
          RecordAt(l.job, l.first_tag, i) = RecordAt(r.job, r.first_tag, i)
    BY <1>2, <2>1
  <2>3. QED BY <1>3, <2>2, TraceTells
<1>7. is_equivalent(validate_equivalent(l, r)) <=> twins /\ l.cycles = r.cycles
  BY <1>3, <1>4, <1>5, <1>6
<1>8. ~is_equivalent(validate_equivalent(l, Spoilt(r)))
  <2>1. SUFFICES ASSUME is_equivalent(validate_equivalent(l, Spoilt(r))) PROVE FALSE
    OBVIOUS
  <2>2. Len(Spoilt(r).records) = m
    BY SpoiltPair
  <2>3. \A i \in 1..m : l.records[i] = Spoilt(r).records[i]
    BY <1>1, <1>2, <2>1, <2>2, Compare
  <2>4. l.first_tag = (r.first_tag + 1) % TagSpace /\ l.first_tag = r.first_tag
    BY <2>3, FirstPair, SpoiltPair
  <2>5. ASSUME NEW u \in Tags PROVE (u + 1) % TagSpace # u
    <3>1. TagSpace \in Nat /\ TagSpace > 1
      BY WireAssumption
    <3>2. CASE u = TagSpace - 1
      <4>1. u + 1 = TagSpace /\ TagSpace % TagSpace = 0
        BY <3>1, <3>2
      <4>2. QED BY <3>1, <3>2, <4>1
    <3>3. CASE u < TagSpace - 1
      <4>1. (u + 1) % TagSpace = u + 1
        BY <3>1, <3>3 DEF Tags
      <4>2. QED BY <3>1, <4>1 DEF Tags
    <3>4. QED BY <3>1, <3>2, <3>3 DEF Tags
  <2>6. QED BY <1>3, <2>4, <2>5
<1>9. QED BY <1>4, <1>7, <1>8

LEMMA AgreeFromInv == RecInv => RecordingsAgree
<1> SUFFICES ASSUME RecInv PROVE RecordingsAgree
  OBVIOUS
<1>1. \A f \in left \cup right : GoodArtifact(f)
  BY DEF RecInv
<1>2. \A f \in left \cup right :
        /\ CausalChain(f.records) /\ Len(f.records) = 2 * StreamLength
        /\ f.summary.epoch_count = 4
  BY <1>1, OneRecording
<1>3. ASSUME NEW l \in left, NEW r \in right
      PROVE  LET twins == l.job = r.job /\ l.first_tag = r.first_tag
             IN  /\ twins => l.records = r.records
                 /\ is_equivalent(validate_equivalent(l, r)) <=> twins /\ l.cycles = r.cycles
                 /\ ~is_equivalent(validate_equivalent(l, Spoilt(r)))
  BY <1>1, TwoRecordings
<1>4. QED BY <1>2, <1>3 DEF RecordingsAgree

(***************************************************************************)
(* The steps of the recorder                                               *)
(***************************************************************************)
\* The record mode is that of the host's whole life.
LEMMA TraceRests ==
  ASSUME hj_config' = hj_config
  PROVE  /\ \A j, t, i : RecordAt(j, t, i)' = RecordAt(j, t, i)
         /\ \A recs, j, t, m : RunTrace(recs, j, t, m) => RunTrace(recs, j, t, m)'
         /\ \A f : GoodArtifact(f) => GoodArtifact(f)'
<1>1. \A d : PayloadCapture(d)' = PayloadCapture(d)
  BY DEF PayloadCapture, Mode
<1>2. \A n, d, msg, after : RecordOf(n, d, msg, after)' = RecordOf(n, d, msg, after)
  BY <1>1 DEF RecordOf
<1>3. \A j, t, i : RecordAt(j, t, i)' = RecordAt(j, t, i)
  BY <1>2 DEF RecordAt
<1>4. \A recs, j, t, m : RunTrace(recs, j, t, m) => RunTrace(recs, j, t, m)'
  BY <1>3 DEF RunTrace
<1>5. \A f : GoodArtifact(f) => GoodArtifact(f)'
  BY <1>4 DEF GoodArtifact
<1>6. QED BY <1>3, <1>4, <1>5

\* Steps that record nothing.
LEMMA RecKeeps ==
  ASSUME RecInv, UNCHANGED <<hj_config, left, right>>, next_tag' \in Tags,
         pc' # "idle" /\ ~timed_out' =>
           /\ pc # "idle" /\ ~timed_out /\ (Waiting' <=> Waiting)
           /\ UNCHANGED <<job, stream, k, records, last_response_tag>>
  PROVE  RecInv'
<1>1. \A f \in left' \cup right' : GoodArtifact(f)'
  BY TraceRests DEF RecInv
<1>2. ASSUME pc' # "idle", ~timed_out'
      PROVE  \E t \in Tags :
               /\ stream' = DispatchStream(job', t)
               /\ RunTrace(records, job, t, 2 * (k - 1) + Bit(Waiting))'
               /\ last_response_tag' = IF k' = 1 THEN None ELSE Some(stream'[k' - 1].tag)
  <2>1. /\ pc # "idle" /\ ~timed_out /\ (Waiting' <=> Waiting)
        /\ UNCHANGED <<job, stream, k, records, last_response_tag>>
    BY <1>2
  <2>2. PICK t \in Tags :
          /\ stream = DispatchStream(job, t)
          /\ RunTrace(records, job, t, 2 * (k - 1) + Bit(Waiting))
          /\ last_response_tag = IF k = 1 THEN None ELSE Some(stream[k - 1].tag)
    BY <2>1 DEF RecInv
  <2>3. Bit(Waiting)' = Bit(Waiting)
    BY <2>1 DEF Bit
  <2>4. RunTrace(records, job, t, 2 * (k - 1) + Bit(Waiting))'
    BY <2>1, <2>2, <2>3, TraceRests DEF RunTrace
  <2>5. QED BY <2>1, <2>2, <2>4
<1>3. QED BY <1>1, <1>2 DEF RecInv

LEMMA RecQuiet ==
  ASSUME HostInv, RecInv,
         RecordStartTick \/ RecordWaitTick \/ RecordWait \/ RecordNewHost \/ UNCHANGED replayVars
  PROVE  RecInv'
<1>1. next_tag \in Tags /\ 0 \in Tags
  BY Sizes DEF RecInv, Tags
<1>2. CASE RecordStartTick \/ RecordWaitTick
  <2>1. /\ UNCHANGED <<hj_config, left, right, next_tag, timed_out, job, stream, k, records,
                       last_response_tag>>
        /\ <<pc, pc'>> \in {<<"start", "send">>, <<"wait", "poll">>}
    BY <1>2 DEF RecordStartTick, RecordWaitTick, StartTick, WaitTick, HostTick, HjClock,
                recorderVars
  <2>2. QED BY <2>1, <1>1, RecKeeps DEF Waiting
<1>3. CASE RecordWait
  <2>1. /\ UNCHANGED <<hj_config, left, right, next_tag, job, stream, k, records,
                       last_response_tag>>
        /\ pc = "poll" /\ pc' \in {"wait", "idle"}
        /\ pc' = "wait" => timed_out' = timed_out
    BY <1>3 DEF RecordWait, KeepWaiting, FlitTimeout, recorderVars, hjVars
  <2>2. QED BY <2>1, <1>1, RecKeeps DEF Waiting
<1>4. CASE RecordNewHost
  <2>1. UNCHANGED <<hj_config, left, right>> /\ next_tag' = 0 /\ pc' = "idle"
    BY <1>4 DEF RecordNewHost, NewHost
  <2>2. QED BY <2>1, <1>1, RecKeeps
<1>5. CASE UNCHANGED replayVars
  <2>1. UNCHANGED <<hj_config, left, right, next_tag, timed_out, pc, job, stream, k, records,
                    last_response_tag>>
    BY <1>5 DEF replayVars, vars, hostVars, recorderVars, hjVars
  <2>2. QED BY <2>1, <1>1, RecKeeps DEF Waiting
<1>6. QED BY <1>2, <1>3, <1>4, <1>5

LEMMA RecRun ==
  ASSUME RecInv, NEW j \in Jobs, run_gemm_recorded(j)
  PROVE  RecInv'
<1>1. /\ job' = j /\ stream' = DispatchStream(j, next_tag) /\ k' = 1 /\ pc' = "start"
      /\ records' = <<>> /\ last_response_tag' = None
      /\ next_tag' = (next_tag + StreamLength) % TagSpace
      /\ UNCHANGED <<left, right, hj_config>>
  BY DEF run_gemm_recorded, run_gemm, NextTag, hjVars
<1>2. next_tag \in Tags /\ \A f \in left' \cup right' : GoodArtifact(f)'
  BY <1>1, TraceRests DEF RecInv
<1>3. next_tag' \in Tags
  BY <1>1, <1>2, Sizes DEF Tags
<1>4. PICK t \in Tags : t = next_tag
  BY <1>2
<1>5. RunTrace(records, job, t, 2 * (k - 1) + Bit(Waiting))'
  <2>1. 2 * (k' - 1) + Bit(Waiting)' = 0
    BY <1>1 DEF Bit, Waiting
  <2>2. <<>> \in Seq({}) /\ Len(<<>>) = 0 /\ 1..0 = {}
    OBVIOUS
  <2>3. QueueOK(<<>>)
    BY <2>2, QueueOfAny
  <2>4. QED BY <1>1, <2>1, <2>2, <2>3 DEF RunTrace, QueueOK
<1>6. QED BY <1>1, <1>2, <1>3, <1>4, <1>5 DEF RecInv

\* A request is recorded after the answer before it.
LEMMA RecSend ==
  ASSUME HostInv, RecInv, RecordSend
  PROVE  RecInv'
<1>1. /\ pc = "send" /\ pc' = "wait" /\ k <= Len(stream)
      /\ records' = Append(records, ReplayRecord(k, "HostToDevice", Message(stream[k])))
      /\ UNCHANGED <<job, stream, k, next_tag, timed_out, last_response_tag, left, right, hj_config>>
  BY DEF RecordSend, SendFlit, record_gemm_msg, hjVars
<1>2. next_tag' \in Tags /\ \A f \in left' \cup right' : GoodArtifact(f)'
  BY <1>1, TraceRests DEF RecInv
<1>3. ASSUME ~timed_out
      PROVE  \E t \in Tags :
               /\ stream' = DispatchStream(job', t)
               /\ RunTrace(records, job, t, 2 * (k - 1) + Bit(Waiting))'
               /\ last_response_tag' = IF k' = 1 THEN None ELSE Some(stream'[k' - 1].tag)
  <2>1. k \in Nat \ {0} /\ ~Waiting /\ Waiting'
    BY <1>1, <1>3, RunFacts, Sizes DEF InStep, Waiting
  <2>2. Bit(Waiting) = 0 /\ Bit(Waiting)' = 1
    BY <2>1 DEF Bit
  <2>3. PICK t \in Tags :
          /\ stream = DispatchStream(job, t)
          /\ RunTrace(records, job, t, 2 * (k - 1))
          /\ last_response_tag = IF k = 1 THEN None ELSE Some(stream[k - 1].tag)
    <3>1. 2 * (k - 1) + Bit(Waiting) = 2 * (k - 1)
      BY <2>1, <2>2
    <3>2. QED BY <3>1, <1>1, <1>3 DEF RecInv
  <2>4. ReplayRecord(k, "HostToDevice", Message(stream[k])) = RecordAt(job, t, 2 * k - 1)
    <3>1. RecordAt(job, t, 2 * k - 1)
            = RecordOf(k, "HostToDevice", Message(stream[k]), last_response_tag)
      BY <2>1, <2>3, RecordPair
    <3>2. QED BY <3>1 DEF ReplayRecord, RecordOf
  <2>5. RunTrace(records', job, t, 2 * (k - 1) + 1)
    <3>1. 2 * (k - 1) \in Nat /\ 2 * (k - 1) + 1 = 2 * k - 1
      BY <2>1
    <3>2. QED BY <3>1, <2>3, <2>4, <1>1, TraceGrows
  <2>6. RunTrace(records, job, t, 2 * (k - 1) + Bit(Waiting))'
    <3>1. 2 * (k' - 1) + Bit(Waiting)' = 2 * (k - 1) + 1
      BY <1>1, <2>2
    <3>2. QED BY <3>1, <2>5, <1>1, TraceRests DEF RunTrace, QueueOK
  <2>7. QED BY <2>3, <2>6, <1>1
<1>4. QED BY <1>1, <1>2, <1>3 DEF RecInv

LEMMA RecTake ==
  ASSUME HostInv, RecInv, RecordResponse
  PROVE  RecInv'
<1> DEFINE resp == Head(outbound_flits)
<1>1. /\ pc = "poll" /\ TakeResponse
      /\ records' = Append(records, ReplayRecord(k, "DeviceToHost", Answer(resp)))
      /\ last_response_tag' = Some(Answer(resp).tag)
      /\ UNCHANGED <<job, stream, next_tag, timed_out, left, right, hj_config>>
  BY DEF RecordResponse, TakeResponse, record_gemm_msg, hjVars
<1>2. next_tag' \in Tags /\ \A f \in left' \cup right' : GoodArtifact(f)'
  BY <1>1, TraceRests DEF RecInv
<1>3. ASSUME ~timed_out
      PROVE  \E t \in Tags :
               /\ stream' = DispatchStream(job', t)
               /\ RunTrace(records, job, t, 2 * (k - 1) + Bit(Waiting))'
               /\ last_response_tag' = IF k' = 1 THEN None ELSE Some(stream'[k' - 1].tag)
  <2>1. resp = Expected(k) /\ k \in 1..StreamLength /\ k' = k + 1 /\ pc' = "send"
    BY <1>1, <1>3, TakeInStep
  <2> HIDE DEF resp
  <2>2. k \in Nat \ {0} /\ Bit(Waiting) = 1 /\ Bit(Waiting)' = 0
    BY <1>1, <2>1, Sizes DEF Waiting, Bit
  <2>3. PICK t \in Tags :
          /\ stream = DispatchStream(job, t)
          /\ RunTrace(records, job, t, 2 * (k - 1) + 1)
    BY <2>2, <1>1, <1>3 DEF RecInv
  <2>4. /\ Expected(k) = RightResponse(job, t, k)
        /\ Expected(k).tag = stream[k].tag
    BY <2>3 DEF Expected, RightResponse, Response
  <2>5. ReplayRecord(k, "DeviceToHost", Answer(resp)) = RecordAt(job, t, 2 * k)
    <3>1. RecordAt(job, t, 2 * k)
            = RecordOf(k, "DeviceToHost", Answer(resp), Some(stream[k].tag))
      BY <2>1, <2>2, <2>3, <2>4, RecordPair
    <3>2. Answer(resp).tag = stream[k].tag
      BY <2>1, <2>4, MessageTags
    <3>3. QED BY <3>1, <3>2 DEF ReplayRecord, RecordOf
  <2>6. RunTrace(records', job, t, 2 * (k' - 1))
    <3>1. 2 * (k - 1) + 1 \in Nat /\ 2 * (k - 1) + 1 + 1 = 2 * k /\ 2 * (k' - 1) = 2 * k
      BY <2>1, <2>2
    <3>2. RunTrace(Append(records, RecordAt(job, t, 2 * k)), job, t, 2 * k)
      BY <3>1, <2>3, TraceGrows
    <3>3. QED BY <3>1, <3>2, <2>5, <1>1
  <2>7. RunTrace(records, job, t, 2 * (k - 1) + Bit(Waiting))'
    <3>1. 2 * (k' - 1) + Bit(Waiting)' = 2 * (k' - 1)
      BY <2>1, <2>2
    <3>2. QED BY <3>1, <2>6, <1>1, TraceRests DEF RunTrace, QueueOK
  <2>8. last_response_tag' = IF k' = 1 THEN None ELSE Some(stream'[k' - 1].tag)
    <3>1. k' # 1 /\ k' - 1 = k
      BY <2>1, <2>2
    <3>2. Answer(resp).tag = stream[k].tag
      BY <2>1, <2>4, MessageTags
    <3>3. QED BY <3>1, <3>2, <1>1
  <2>9. QED BY <2>3, <2>7, <2>8, <1>1
<1>4. QED BY <1>1, <1>2, <1>3 DEF RecInv

\* What a run that succeeds leaves behind.
LEMMA RecFinish ==
  ASSUME HostInv, RecInv, RecordFinish
  PROVE  RecInv'
<1>1. /\ Finish /\ pc = "send" /\ pc' = "idle" /\ next_tag' = next_tag /\ hj_config' = hj_config
      /\ left' \in {left, Some(Artifact)} /\ right' \in {right, Some(Artifact)}
  BY DEF RecordFinish, Finish, hjVars
<1>2. ~timed_out /\ k = StreamLength + 1 /\ answer' = Product(job.a, job.b) /\ job \in Jobs
  BY <1>1, FinishFacts, RunFacts
<1>3. 2 * (k - 1) + Bit(Waiting) = 2 * StreamLength
  BY <1>1, <1>2, Sizes DEF Bit, Waiting
<1>4. PICK t \in Tags : stream = DispatchStream(job, t)
                        /\ RunTrace(records, job, t, 2 * StreamLength)
  BY <1>1, <1>2, <1>3 DEF RecInv
<1>5. stream[1].tag = t
  BY <1>2, <1>4, FirstTag
<1> DEFINE f == Artifact
<1>6. f = [job |-> job, first_tag |-> t, cycles |-> cycles, records |-> records,
           final_result_commitment |-> <<Product(job.a, job.b), cycles>>,
           summary |-> summarize(records)]
  BY <1>2, <1>5 DEF Artifact
<1> HIDE DEF f
<1>7. f.job = job /\ f.first_tag = t /\ f.cycles = cycles /\ f.records = records
  BY <1>6
<1>8. GoodArtifact(f)
  BY <1>2, <1>4, <1>6, <1>7 DEF GoodArtifact
<1>9. \A g \in left' \cup right' : GoodArtifact(g)
  BY <1>1, <1>8 DEF RecInv, Some, f
<1>10. \A g \in left' \cup right' : GoodArtifact(g)'
  BY <1>1, <1>9, TraceRests
<1>11. QED BY <1>1, <1>10 DEF RecInv

LEMMA RecStart == ReplayInit => RecInv
<1>1. 0 \in Tags
  BY Sizes DEF Tags
<1>2. QED BY <1>1 DEF ReplayInit, Init, RecInv, None

(***************************************************************************)
(* The theorems about recordings                                           *)
(***************************************************************************)
\* A host in step has recorded every request and answer of its run so far, and
\* every artifact holds the records of one whole run, in order.
THEOREM RecordsSafe ==
  ASSUME TagsFit
  PROVE  ReplaySpec => []RecInv
<1>1. HostInv /\ RecInv /\ [ReplayNext]_replayVars => RecInv'
  BY RecQuiet, RecRun, RecSend, RecTake, RecFinish DEF ReplayNext, RecordStep
<1>2. ReplaySpec => []HostInv
  BY HostSafe, ObserversPassive, PTL
<1>3. QED BY <1>1, <1>2, RecStart, PTL DEF ReplaySpec

\* Two recordings of one job with the same tags hold the same records whatever
\* the latency of the array was; validate_equivalent accepts a pair exactly when
\* job, tags and cycles agree and never a spoilt copy, in all three record
\* modes; and the records of a run form one chain of causes.
THEOREM RecordingsSafe ==
  ASSUME TagsFit
  PROVE  ReplaySpec => []RecordingsAgree
<1>1. RecInv => RecordingsAgree
  BY AgreeFromInv
<1>2. QED BY <1>1, RecordsSafe, PTL
===========================================================================
