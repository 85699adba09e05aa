----------------------------- MODULE Type2Guest -----------------------------
(***************************************************************************)
(* targets/qemu-type2/slugarch_type2_guest.c: the helper that runs inside  *)
(* the guest.  It reads a file of request FLITs, announces each of them to *)
(* the device behind BAR2, answers it itself, and writes the answers and a *)
(* status.                                                                 *)
(*                                                                         *)
(* The device is CXLMemSim's and external: it is known only by the         *)
(* registers the helper uses.  It works on its commands in order and may   *)
(* take any time for one, fail it, or forget it.                           *)
(***************************************************************************)
EXTENDS GemmWire

CONSTANTS
  MaxPolls,     \* polls of issue_command, a million in the code
  MaxRunning    \* bound on the commands the device has not finished

ASSUME GuestAssumption == MaxPolls \in Nat \ {0} /\ MaxRunning \in Nat \ {0}

VARIABLES
  bar2_enabled,
  gpc,            \* where main is
  requests,       \* the file it was given
  i,              \* command: 0 resets the statistics, Len + 1 reads them
  polls, st,      \* locals of issue_command
  state,          \* SlugState
  responses, guest_status,
  \* the device: registers and commands under way, the guest's present one "own"
  CMD_STATUS, CMD_RESULT, running,
  signaller,      \* history: the command that set the registers
  clean,          \* history: no command was under way when main started
  carried         \* history: did each command of main succeed, by its own completion?

deviceVars == <<CMD_STATUS, CMD_RESULT, running, signaller>>
mainVars == <<bar2_enabled, gpc, requests, i, polls, st, state, responses,
              guest_status, clean, carried>>
guestVars == <<mainVars, deviceVars>>

\* A file is FLITs, and perhaps part of one more.
File(flits, partial) == [flits |-> flits, partial |-> partial]
NoFile == File(<<>>, FALSE)

ZeroMatrix == [x \in Cell |-> 0]
\* The counters count as whether they are above zero.
NewState ==
  [a |-> ZeroMatrix, b |-> ZeroMatrix, c |-> ZeroMatrix, computed |-> FALSE,
   failed |-> FALSE, command_failures |-> FALSE, bar2_readback_mismatches |-> FALSE]

GuestInit ==
  /\ bar2_enabled = FALSE /\ gpc = "off" /\ requests = NoFile /\ i = 0
  /\ polls = 0 /\ st = "IDLE" /\ state = NewState
  /\ responses = <<>> /\ guest_status = "none"
  /\ CMD_STATUS = "IDLE" /\ CMD_RESULT = 0 /\ running = <<>>
  /\ signaller = "none" /\ clean = TRUE /\ carried = TRUE

(***************************************************************************)
(* The device                                                              *)
(***************************************************************************)
\* A write to CMD; a device that is too far behind loses the command.
WriteCommand ==
  LET late == [n \in DOMAIN running |-> "late"]
  IN  /\ CMD_STATUS' = "RUNNING"
      /\ running' = IF Len(running) < MaxRunning THEN Append(late, "own") ELSE late
      /\ CMD_RESULT' = 0 /\ signaller' = "none"

\* The error codes of a failed command are not zero.
Complete(status, code) ==
  /\ running # <<>>
  /\ running' = Tail(running)
  /\ CMD_STATUS' = status /\ CMD_RESULT' = code
  /\ signaller' = Head(running)
  /\ UNCHANGED mainVars

DeviceOk == Complete("COMPLETE", 0)
DeviceFails == Complete("COMPLETE", 1) \/ Complete("ERROR", 1)

NewDevice ==
  /\ CMD_STATUS' = "IDLE" /\ CMD_RESULT' = 0 /\ running' = <<>> /\ signaller' = "none"

(***************************************************************************)
(* Answering a request                                                     *)
(***************************************************************************)
Bit(word, n) == (word \div 2^n) % 2 = 1
Byte(word, n) == (word \div 2^n) % 256
CellOf(addr) == <<addr \div 16, addr % 16>>

SumOfProducts(a, b) ==
  [x \in Cell |->
     LET sum[n \in 0..Dim] ==
           IF n = 0 THEN 0 ELSE sum[n - 1] + a[<<x[1], n - 1>>] * b[<<n - 1, x[2]>>]
     IN  sum[Dim]]

compute_if_needed(s) ==
  IF s.computed THEN s ELSE [s EXCEPT !.c = SumOfProducts(s.a, s.b), !.computed = TRUE]

\* Mutant: computes on a load, to have the product ready early.
EagerCompute(s, token) ==
  LET cell == CellOf(Byte(token, 4))
      data == Byte(token, 12)
  IN  compute_if_needed(IF Bit(token, 3) THEN [s EXCEPT !.b[cell] = data]
                                         ELSE [s EXCEPT !.a[cell] = data])

LoadToken(s, token) ==
  LET cell == CellOf(Byte(token, 4))
      data == Byte(token, 12)
  IN  IF Bit(token, 3) THEN [s EXCEPT !.b[cell] = data] ELSE [s EXCEPT !.a[cell] = data]

\* encode_cmp, encode_dispatch_failed and encode_memdata.
AnswerFlit(class, opcode, tag, data) ==
  [class |-> class, opcode |-> opcode, tag |-> tag, addr |-> <<0, 0>>, data |-> data, reserved |-> 0]

Handled(s, flit) == [state |-> s, answer |-> flit]

handle_request(flit, s) ==
  LET token == flit.data
      read == flit.addr[2]
      write == flit.class = 2 /\ flit.opcode = 0
      computed == compute_if_needed(s)
      Cmp == AnswerFlit(4, 0, flit.tag, 0)
  IN  CASE write /\ Bit(token, 2) -> Handled(LoadToken(s, token), Cmp)
        [] write /\ ~Bit(token, 2) /\ Bit(token, 20) -> Handled(computed, Cmp)
        [] flit.class = 1 /\ flit.opcode = 0 /\ flit.addr[1] = DISPATCH_ADDR /\ Bit(read, 21) ->
             Handled(computed, AnswerFlit(3, 0, flit.tag, computed.c[CellOf(Byte(read, 22))]))
        [] OTHER -> Handled([s EXCEPT !.failed = TRUE], AnswerFlit(4, 15, flit.tag, 0))

(***************************************************************************)
(* main                                                                    *)
(***************************************************************************)
ETIMEDOUT == 110

LastCommand == Len(requests.flits) + 1

\* Up to the first command.  No device is a failure unless --no-bar2 was given.
GuestStart(found, no_bar2) ==
  LET ok == requests.flits # <<>> /\ ~requests.partial /\ (no_bar2 \/ found)
  IN  /\ gpc = "start"
      /\ bar2_enabled' = (ok /\ ~no_bar2)
      /\ state' = NewState /\ responses' = <<>> /\ guest_status' = "none"
      /\ i' = IF no_bar2 THEN 1 ELSE 0
      /\ gpc' = CASE ~ok -> "failed" [] ok /\ no_bar2 -> "handle" [] OTHER -> "issue"
      /\ clean' = (running = <<>>) /\ carried' = TRUE
      /\ UNCHANGED <<requests, polls, st, deviceVars>>

\* bar2_copy_out, whose reading back may find other bytes, and the command.
Issue(mismatch) ==
  /\ gpc = "issue"
  /\ mismatch => i \in 1..Len(requests.flits)
  /\ state' = [state EXCEPT !.bar2_readback_mismatches = @ \/ mismatch]
  /\ WriteCommand
  /\ polls' = 0 /\ gpc' = "poll"
  /\ UNCHANGED <<bar2_enabled, requests, i, st, responses, guest_status, clean, carried>>

\* The answer to request i, and on to the next.
Handle(s) ==
  LET handled == handle_request(requests.flits[i], s)
  IN  /\ state' = handled.state
      /\ responses' = Append(responses, handled.answer)

\* issue_command returns ret; a request is then answered.
Returned(ret) ==
  LET s == [state EXCEPT !.command_failures = @ \/ ret # 0]
  IN  /\ carried' = (carried /\ ret = 0 /\ signaller = "own")
      /\ IF i \in 1..Len(requests.flits) THEN Handle(s) ELSE state' = s /\ UNCHANGED responses
      /\ i' = i + 1
      /\ gpc' = IF i = LastCommand THEN "write" ELSE "issue"
      /\ polls' = 0 /\ st' = "IDLE"

KeepPolling ==
  /\ polls' = polls + 1
  /\ UNCHANGED <<state, responses, carried, i, gpc, st>>

\* Mutant: after the last poll the result register decides.
TimeoutReads ==
  /\ gpc = "poll" /\ CMD_STATUS = "RUNNING"
  /\ IF polls + 1 = MaxPolls THEN Returned(CMD_RESULT) ELSE KeepPolling
  /\ UNCHANGED <<bar2_enabled, requests, guest_status, clean, deviceVars>>

\* Mutant: polls for as long as the device takes.
PollForever ==
  /\ gpc = "poll" /\ CMD_STATUS = "RUNNING"
  /\ polls + 1 < MaxPolls /\ KeepPolling
  /\ UNCHANGED <<bar2_enabled, requests, guest_status, clean, deviceVars>>

PollAgain ==
  /\ gpc = "poll" /\ CMD_STATUS = "RUNNING"
  /\ IF polls + 1 = MaxPolls THEN Returned(-ETIMEDOUT) ELSE KeepPolling
  /\ UNCHANGED <<bar2_enabled, requests, guest_status, clean, deviceVars>>

PollOver ==
  /\ gpc = "poll" /\ CMD_STATUS \in {"COMPLETE", "ERROR"}
  /\ st' = CMD_STATUS /\ gpc' = "result"
  /\ UNCHANGED <<bar2_enabled, requests, i, polls, state, responses, guest_status,
                 clean, carried, deviceVars>>

\* The result is a second read: a completion may have come between the two.
ReadResult ==
  /\ gpc = "result"
  /\ Returned(IF st = "COMPLETE" THEN CMD_RESULT ELSE -CMD_RESULT)
  /\ UNCHANGED <<bar2_enabled, requests, guest_status, clean, deviceVars>>

\* With --no-bar2.
HandleOffline ==
  /\ gpc = "handle"
  /\ Handle(state)
  /\ i' = i + 1
  /\ gpc' = IF i = Len(requests.flits) THEN "write" ELSE "handle"
  /\ UNCHANGED <<bar2_enabled, requests, polls, st, guest_status, clean, carried, deviceVars>>

\* responses.bin and guest-summary.json; the exit code does not depend on status.
WriteFiles ==
  /\ gpc = "write"
  /\ guest_status' = IF state.failed \/ state.command_failures \/ state.bar2_readback_mismatches
                     THEN "fail" ELSE "pass"
  /\ gpc' = "written"
  /\ UNCHANGED <<bar2_enabled, requests, i, polls, st, state, responses, clean, carried, deviceVars>>

GuestStep ==
  \/ Issue(FALSE) \/ PollAgain \/ PollOver \/ ReadResult \/ HandleOffline \/ WriteFiles

(***************************************************************************)
(* Property                                                                *)
(***************************************************************************)
\* A helper that found the device idle and reports "pass" over BAR2 saw every
\* command of its own succeed, by that command's own completion: giving up on
\* one, whose late completion the helper then takes for the next, is never
\* forgotten.
PassMeansCarried ==
  gpc = "written" /\ guest_status = "pass" /\ bar2_enabled /\ clean => carried
=============================================================================
