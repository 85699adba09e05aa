----------------------------- MODULE Type2Sweep -----------------------------
(***************************************************************************)
(* The QEMU Type-2 path around the guest: targets/qemu-type2/              *)
(* run_live_knob_sweep.sh, which exports a job's FLITs, runs the helper in *)
(* the guest, fetches and validates its answers (crates/slugarch-host/src/ *)
(* qemu_type2.rs) several times over and measures the result               *)
(* (sim_feasible.rs).  The script stops at the first step that fails and   *)
(* may be called again on the same artifact directory; what it leaves      *)
(* there can be measured by hand.  The offline check of the helper is a    *)
(* single run without BAR2.                                                *)
(***************************************************************************)
EXTENDS Type2Guest, SequencesExt

CONSTANTS
  Jobs,         \* pairs of matrices
  Runs,         \* runs of a sweep, 5 in the script
  MaxSweeps,    \* bound on the calls of the script
  MaxFaults,    \* bound on damaged transfers, failed steps and failures of the device
  RequestDamage, ResponseDamage  \* kinds of damage, with the FLIT it is done to

DamageKinds == {"short", "partial", "long", "tag", "opcode", "reserved", "data", "high"}

ASSUME SweepAssumption ==
  /\ Jobs \subseteq [a : Matrix(0..255), b : Matrix(0..255)]
  /\ Runs \in Nat \ {0} /\ MaxSweeps \in Nat /\ MaxFaults \in Nat
  /\ RequestDamage \cup ResponseDamage \subseteq DamageKinds \X (1..StreamLength)

VARIABLES
  job, live,      \* which job, and whether with a guest and BAR2
  phase, run, sweep,
  dir,            \* run-<n>: responses.bin, guest-summary.json, summary.json
  report,         \* the last report on this sweep
  faults

scriptVars == <<job, live, phase, run, sweep, dir, report, faults>>
vars == <<scriptVars, guestVars>>

RunDirs == 1..Runs
EmptyDir == [responses |-> NoFile, guest |-> None, summary |-> None]
Ended == {"complete", "aborted"}

Fault(happens) ==
  /\ happens => faults < MaxFaults
  /\ faults' = IF happens THEN faults + 1 ELSE faults

(***************************************************************************)
(* Export and validation                                                   *)
(***************************************************************************)
export_requests(j) ==
  [n \in 1..StreamLength |-> encode(Message(DispatchStream(j, 0)[n]))]

matmul(j) == SumOfProducts(j.a, j.b)

\* decode_results keeps three bytes of each answer.
decode_results(msgs) ==
  [x \in Cell |-> OrElse(msgs[x[1] * Dim + x[2] + 1].data, 0) % 2^24]

IsCmp(msg) == msg.class = "S2MNDR" /\ msg.opcode = "Cmp"
IsMemData(msg) == msg.class = "S2MDRS" /\ msg.opcode = "MemData"

Acceptable(msg, n) == IF n <= 2 * Cells + 1 THEN IsCmp(msg) ELSE IsMemData(msg)

\* The answers to reads, collected one by one.
read_responses(msgs) ==
  LET upto[n \in 0..Len(msgs)] ==
        CASE n = 0 -> <<>>
          [] n > 2 * Cells + 1 /\ IsMemData(msgs[n]) -> Append(upto[n - 1], msgs[n])
          [] OTHER -> upto[n - 1]
  IN  upto[Len(msgs)]

\* The status that summary.json gives decoded answers.
Status(j, msgs) ==
  LET requested == DispatchStream(j, 0)
      mismatches == {n \in 1..Len(msgs) : n <= StreamLength /\ msgs[n].tag # requested[n].tag}
      failures == {n \in 1..Len(msgs) : ~Acceptable(msgs[n], n)}
      reads == read_responses(msgs)
      result_c == IF Len(reads) = Cells THEN decode_results(reads) ELSE ZeroMatrix
  IN  IF /\ Len(msgs) = StreamLength
         /\ mismatches = {} /\ failures = {}
         /\ result_c = matmul(j)
      THEN "pass" ELSE "fail"

\* A partial FLIT, or one that does not decode, is an error and no summary.
validate_responses(j, file) ==
  LET decoded == [n \in DOMAIN file.flits |-> decode(file.flits[n])]
  IN  IF file.partial \/ \E n \in DOMAIN decoded : decoded[n].error # "none"
      THEN None
      ELSE Some(Status(j, [n \in DOMAIN decoded |-> CHOOSE m \in decoded[n].msg : TRUE]))

\* The right answers to a job, from the protocol and not from the helper.
RightMsg(j, n) ==
  LET flit == DispatchStream(j, 0)[n]
  IN  IF n <= 2 * Cells + 1
      THEN Answer(Response("Cmp", flit.tag, 0))
      ELSE Answer(Response("MemData", flit.tag, matmul(j)[flit.token.addr]))

\* Three bytes of data count.
Kept(msg) == [msg EXCEPT !.data = {d % 2^24 : d \in @}]

RightAnswers(j, file) ==
  /\ ~file.partial /\ Len(file.flits) = StreamLength
  /\ \A n \in 1..StreamLength :
       LET decoded == decode(file.flits[n])
       IN  decoded.error = "none" /\ {Kept(m) : m \in decoded.msg} = {Kept(RightMsg(j, n))}

(***************************************************************************)
(* The report                                                              *)
(***************************************************************************)
\* Directories without a summary.json are not counted.
Counted == {r \in RunDirs : dir[r].summary # None}
Passed == {r \in Counted : \A s \in dir[r].summary : s.status = "pass"}

\* Mutant: one passing run is enough.
AnyPassMeasures == IF Passed # {} THEN "Measured" ELSE "Blocked"

summarize_bar2_repeatability ==
  IF Counted # {} /\ Counted = Passed THEN "Measured" ELSE "Blocked"

\* The claims of the report that depend on the artifacts.
Report(by) ==
  LET bar2 == summarize_bar2_repeatability
  IN  [by |-> by, bar2 |-> bar2,
       runtime |-> IF bar2 = "Measured" THEN "PartiallyMeasured" ELSE "Blocked",
       evidence |-> [r \in Counted |-> dir[r]]]

(***************************************************************************)
(* The script                                                              *)
(***************************************************************************)
\* What a transfer may do to a file, or to one FLIT of it.
Spoil(f, kind) ==
  CASE kind = "tag" -> [f EXCEPT !.tag = @ + 1]
    [] kind = "opcode" -> [f EXCEPT !.opcode = @ + 9]
    [] kind = "reserved" -> [f EXCEPT !.reserved = 1]
    [] kind = "data" -> [f EXCEPT !.data = @ + 2^12]
    [] kind = "high" -> [f EXCEPT !.data = @ + 2^24]

Damaged(flits, kind, n) ==
  CASE kind = "short" -> File(Front(flits), FALSE)
    [] kind = "partial" -> File(Front(flits), TRUE)
    [] kind = "long" -> File(Append(flits, Last(flits)), FALSE)
    [] OTHER -> File([flits EXCEPT ![n] = Spoil(@, kind)], FALSE)

Transferred(flits, damage) ==
  {File(flits, FALSE)} \cup
  {Damaged(flits, d[1], d[2]) : d \in {d \in damage : live /\ d[2] \in DOMAIN flits}}

\* export-cxlmemsim and the copy of requests.bin into the guest.
Export ==
  LET flits == export_requests(job)
  IN  /\ phase = "export"
      /\ \E file \in Transferred(flits, RequestDamage) :
           requests' = file /\ Fault(file # File(flits, FALSE))
      /\ gpc' = "start" /\ phase' = "guest"
      /\ UNCHANGED <<job, live, run, sweep, dir, report, bar2_enabled, i, polls, st, state,
                     responses, guest_status, clean, carried, deviceVars>>

StartGuest ==
  /\ phase = "guest"
  /\ \E found \in {TRUE, ~live} : Fault(~found /\ live) /\ GuestStart(found, ~live)
  /\ UNCHANGED <<job, live, phase, run, sweep, dir, report>>

\* The copies of responses.bin and guest-summary.json out of the guest.
FetchResponses ==
  /\ phase = "guest" /\ gpc = "written"
  /\ \E file \in Transferred(responses, ResponseDamage) :
       /\ dir' = [dir EXCEPT ![run].responses = file]
       /\ Fault(file # File(responses, FALSE))
  /\ phase' = "fetched"
  /\ UNCHANGED <<job, live, run, sweep, report, guestVars>>

FetchSummary ==
  /\ phase = "fetched"
  /\ dir' = [dir EXCEPT ![run].guest = Some(guest_status)]
  /\ phase' = "validate"
  /\ UNCHANGED <<job, live, run, sweep, report, faults, guestVars>>

\* validate-cxlmemsim fails unless the status is "pass".  sweep and right are
\* history: when the summary was written, and were the answers right?
Validate ==
  LET status == validate_responses(job, dir[run].responses)
      passed == status = Some("pass")
  IN  /\ phase = "validate"
      /\ dir' = IF status = None THEN dir
                ELSE [dir EXCEPT ![run].summary =
                        {[status |-> s, sweep |-> sweep,
                          right |-> RightAnswers(job, dir[run].responses)] : s \in status}]
      /\ phase' = CASE ~passed -> "aborted"
                    [] passed /\ run < Runs /\ live -> "export"
                    [] OTHER -> "measure"
      /\ run' = IF passed /\ run < Runs /\ live THEN run + 1 ELSE run
      /\ UNCHANGED <<job, live, sweep, report, faults, guestVars>>

\* measure-sim-feasible, at the end of the script; the offline check has none.
Measure ==
  /\ phase = "measure"
  /\ report' = IF live THEN Some(Report("script")) ELSE report
  /\ phase' = "complete"
  /\ UNCHANGED <<job, live, run, sweep, dir, faults, guestVars>>

MeasureByHand ==
  /\ phase = "aborted" /\ live
  /\ report' = Some(Report("hand"))
  /\ UNCHANGED <<job, live, phase, run, sweep, dir, faults, guestVars>>

\* set -e: the helper, or ssh, scp or cargo, returns an error.
Abort ==
  /\ phase \notin Ended
  /\ phase' = "aborted"
  /\ IF phase = "guest" /\ gpc = "failed"
     THEN UNCHANGED faults
     ELSE Fault(TRUE) /\ (phase = "guest" => gpc \in {"start", "written"})
  /\ UNCHANGED <<job, live, run, sweep, dir, report, guestVars>>

\* The script once more, with the same ARTIFACT_DIR and a new QEMU.
Restart ==
  /\ phase \in Ended /\ live /\ sweep < MaxSweeps
  /\ sweep' = sweep + 1 /\ run' = 1 /\ phase' = "export"
  /\ report' = None
  /\ NewDevice
  /\ UNCHANGED <<job, live, dir, faults, mainVars>>

RunGuest == phase = "guest" /\ GuestStep /\ UNCHANGED scriptVars

Mismatch ==
  /\ phase = "guest" /\ Issue(TRUE)
  /\ Fault(TRUE) /\ UNCHANGED <<job, live, phase, run, sweep, dir, report>>

Device ==
  /\ \/ DeviceOk /\ UNCHANGED faults
     \/ DeviceFails /\ Fault(TRUE)
  /\ UNCHANGED <<job, live, phase, run, sweep, dir, report>>

Init ==
  /\ job \in Jobs /\ live \in BOOLEAN
  /\ phase = "export" /\ run = 1 /\ sweep = 1
  /\ dir = [r \in RunDirs |-> EmptyDir]
  /\ report = None /\ faults = 0
  /\ GuestInit

ScriptStep ==
  \/ Export \/ StartGuest \/ RunGuest \/ FetchResponses \/ FetchSummary \/ Validate
  \/ Measure \/ Abort \/ Mismatch

Next == ScriptStep \/ Device \/ MeasureByHand \/ Restart

\* The script and the helper are sequential programs that wait for each other
\* and for nobody else; nothing is assumed of the device.
Spec == Init /\ [][Next]_vars /\ WF_vars(ScriptStep)

(***************************************************************************)
(* Properties                                                              *)
(***************************************************************************)
\* The helper answers every undamaged request rightly, whatever the device does
\* to its commands; and a summary says "pass" exactly for the right answers.
ValidatorExact ==
  /\ gpc = "written" /\ requests = File(export_requests(job), FALSE) =>
       RightAnswers(job, File(responses, FALSE))
  /\ \A r \in RunDirs : \A s \in dir[r].summary :
       s.status = "pass" <=> s.right

\* The boundary is claimed as measured only on right answers in every run that
\* is counted, and the script itself claims it only, and always, on all runs of
\* this very sweep.
EvidenceSound ==
  \A rep \in report :
    /\ rep.bar2 = "Measured" =>
         /\ DOMAIN rep.evidence # {}
         /\ \A r \in DOMAIN rep.evidence : \A s \in rep.evidence[r].summary : s.right
    /\ rep.by = "script" =>
         /\ rep.runtime = "PartiallyMeasured"
         /\ DOMAIN rep.evidence = RunDirs
    /\ rep.by = "script" /\ phase = "complete" =>
         \A r \in RunDirs : \A s \in rep.evidence[r].summary : s.sweep = sweep

\* The script comes to an end even if the device never answers.
SweepEnds == phase \notin Ended ~> phase \in Ended

\* The boundary is claimed as measured only if BAR2 carried every command of the
\* counted runs.
MeasuredMeansCarried ==
  \A rep \in report :
    rep.bar2 = "Measured" =>
      \A r \in DOMAIN rep.evidence : rep.evidence[r].guest = Some("pass")

(***************************************************************************)
(* The inductive invariant behind PassMeansCarried                         *)
(***************************************************************************)
\* A SlugState, whatever its matrices hold.
StateOK(s) ==
  s \in [a : {s.a}, b : {s.b}, c : {s.c}, computed : BOOLEAN, failed : BOOLEAN,
         command_failures : BOOLEAN, bar2_readback_mismatches : BOOLEAN]

\* The device has no command but the helper's present one, and its registers
\* speak of no other.
OwnCommandOnly ==
  /\ gpc \in {"issue", "write"} => running = <<>>
  /\ gpc = "poll" => \/ running = <<"own">> /\ CMD_STATUS = "RUNNING"
                     \/ running = <<>> /\ signaller = "own" /\ CMD_STATUS # "RUNNING"
  /\ gpc = "result" => running = <<>> /\ signaller = "own"

\* A helper that started on an idle device and has counted no failed command is
\* alone with its command, and all before it were carried; the script leaves
\* the helper only before it starts or after it wrote its files.
CarriedInv ==
  /\ StateOK(state)
  /\ phase # "guest" => gpc \in {"off", "start", "written", "failed"}
  /\ gpc = "handle" => ~bar2_enabled
  /\ gpc = "written" /\ guest_status = "pass" => ~state.command_failures
  /\ /\ gpc \in {"issue", "poll", "result", "write", "written"}
     /\ bar2_enabled /\ clean /\ ~state.command_failures
     => carried /\ OwnCommandOnly

(***************************************************************************)
(* The inductive invariant behind EvidenceSound                            *)
(***************************************************************************)
\* Run r of this very sweep has a summary, and it says "pass".
PassedNow(r) ==
  dir[r].summary # None /\ \A s \in dir[r].summary : s.status = "pass" /\ s.sweep = sweep

\* The runs before the present one passed, and all of them before measuring; a
\* report is made from the directories as they are until the next sweep, and
\* the script's only at its end.
SweepInv ==
  /\ DOMAIN dir = RunDirs /\ run \in RunDirs
  /\ \A r \in RunDirs : dir[r] \in [responses : {dir[r].responses}, guest : {dir[r].guest},
                                     summary : {dir[r].summary}]
  /\ live /\ phase \notin Ended => \A r \in 1..(run - 1) : PassedNow(r)
  /\ live /\ phase = "measure" => \A r \in RunDirs : PassedNow(r)
  /\ phase \notin Ended => report = None
  /\ \A rep \in report :
       /\ rep \in {Report("script"), Report("hand")}
       /\ rep.by = "script" => phase = "complete" /\ \A r \in RunDirs : PassedNow(r)

(***************************************************************************)
(* The inductive invariant behind ValidatorExact                           *)
(***************************************************************************)
IsSeq(q) == q \in Seq({q[n] : n \in DOMAIN q})

\* The helper's matrices after the first m requests.
Loaded(s, m) ==
  /\ s.a \in Matrix(0..255) /\ s.b \in Matrix(0..255)
  /\ \A n \in 1..Cells : n <= m => s.a[CellAt(n)] = job.a[CellAt(n)]
  /\ \A n \in 1..Cells : Cells + n <= m => s.b[CellAt(n)] = job.b[CellAt(n)]
  /\ s.computed <=> m > 2 * Cells
  /\ s.computed => s.c = matmul(job)

\* The FLIT that answers request n.
RightFlit(j, n) ==
  LET flit == DispatchStream(j, 0)[n]
  IN  IF n <= 2 * Cells + 1
      THEN AnswerFlit(4, 0, flit.tag, 0)
      ELSE AnswerFlit(3, 0, flit.tag, matmul(j)[flit.token.addr])

\* Files are sequences, and a summary says whether the answers were right.
FilesInv ==
  /\ job \in Jobs /\ IsSeq(responses)
  /\ \A r \in RunDirs : IsSeq(dir[r].responses.flits)
  /\ \A r \in RunDirs : \A s \in dir[r].summary : s.status = "pass" <=> s.right

\* A helper that was given the undamaged requests has answered those before i,
\* and rightly.
HelperInv ==
  /\ requests = File(export_requests(job), FALSE)
  /\ gpc \in {"issue", "poll", "result", "handle", "write", "written"}
  => /\ gpc \in {"issue", "poll", "result"} =>
          i \in 0..StreamLength + 1 /\ Len(responses) = IF i = 0 THEN 0 ELSE i - 1
     /\ gpc = "handle" => i \in 1..StreamLength /\ Len(responses) = i - 1
     /\ gpc \in {"write", "written"} => Len(responses) = StreamLength
     /\ Loaded(state, Len(responses))
     /\ \A n \in 1..Len(responses) : responses[n] = RightFlit(job, n)
=============================================================================
