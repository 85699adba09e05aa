---------------------------- MODULE Type2Proofs ----------------------------
(***************************************************************************)
(* What a guest summary and a sweep report claim, for every job, number of *)
(* runs, polling limit and behaviour of the device.                        *)
(***************************************************************************)
EXTENDS Type2Sweep, DataLemmas

(***************************************************************************)
(* The helper                                                              *)
(***************************************************************************)
LEMMA StateChanges ==
  ASSUME NEW s, StateOK(s), NEW v \in BOOLEAN
  PROVE  /\ LET n == [s EXCEPT !.command_failures = @ \/ v]
            IN  StateOK(n) /\ (n.command_failures <=> s.command_failures \/ v)
         /\ LET n == [s EXCEPT !.bar2_readback_mismatches = @ \/ v]
            IN  StateOK(n) /\ n.command_failures = s.command_failures
<1>1. LET n == [s EXCEPT !.command_failures = @ \/ v]
      IN  StateOK(n) /\ (n.command_failures <=> s.command_failures \/ v)
  BY DEF StateOK
<1>2. LET n == [s EXCEPT !.bar2_readback_mismatches = @ \/ v]
      IN  StateOK(n) /\ n.command_failures = s.command_failures
  BY DEF StateOK
<1>3. QED BY <1>1, <1>2

\* Answering a request does not touch the count of failed commands.
LEMMA HandleFacts ==
  ASSUME NEW s, StateOK(s), NEW flit
  PROVE  LET n == handle_request(flit, s).state
         IN  StateOK(n) /\ n.command_failures = s.command_failures
<1> DEFINE Good(n) == StateOK(n) /\ n.command_failures = s.command_failures
<1>1. Good(compute_if_needed(s))
  <2> DEFINE product == SumOfProducts(s.a, s.b)
  <2> HIDE DEF product
  <2>1. Good([s EXCEPT !.c = product, !.computed = TRUE])
    BY DEF StateOK
  <2>2. Good(s)
    OBVIOUS
  <2>3. compute_if_needed(s) \in {s, [s EXCEPT !.c = product, !.computed = TRUE]}
    BY DEF compute_if_needed, product
  <2> HIDE DEF Good
  <2>4. QED BY <2>1, <2>2, <2>3
<1>2. Good(LoadToken(s, flit.data))
  <2> DEFINE cell == CellOf(Byte(flit.data, 4))
             data == Byte(flit.data, 12)
  <2> HIDE DEF cell, data
  <2>1. Good([s EXCEPT !.b[cell] = data]) /\ Good([s EXCEPT !.a[cell] = data])
    BY DEF StateOK
  <2>2. LoadToken(s, flit.data) \in {[s EXCEPT !.b[cell] = data], [s EXCEPT !.a[cell] = data]}
    BY DEF LoadToken, cell, data
  <2> HIDE DEF Good
  <2>3. QED BY <2>1, <2>2
<1>3. Good([s EXCEPT !.failed = TRUE])
  BY DEF StateOK
<1> HIDE DEF Good
<1>4. \/ handle_request(flit, s).state = compute_if_needed(s)
      \/ handle_request(flit, s).state = LoadToken(s, flit.data)
      \/ handle_request(flit, s).state = [s EXCEPT !.failed = TRUE]
  BY DEF handle_request, Handled
<1>5. Good(handle_request(flit, s).state)
  BY <1>1, <1>2, <1>3, <1>4
<1>6. QED BY <1>5 DEF Good

\* A command that returned counts as failed unless it returned zero.
LEMMA ReturnedFacts ==
  ASSUME StateOK(state), NEW ret, Returned(ret)
  PROVE  /\ StateOK(state')
         /\ ~state'.command_failures => ~state.command_failures /\ ret = 0
         /\ gpc' \in {"write", "issue"}
         /\ carried /\ ret = 0 /\ signaller = "own" => carried'
<1> DEFINE s == [state EXCEPT !.command_failures = @ \/ ret # 0]
<1>1. StateOK(s) /\ (s.command_failures <=> state.command_failures \/ ret # 0)
  BY StateChanges
<1>2. state' = s \/ state' = handle_request(requests.flits[i], s).state
  BY DEF Returned, Handle
<1> HIDE DEF s
<1>3. StateOK(state') /\ state'.command_failures = s.command_failures
  BY <1>1, <1>2, HandleFacts
<1>4. gpc' \in {"write", "issue"} /\ (carried /\ ret = 0 /\ signaller = "own" => carried')
  BY DEF Returned
<1>5. QED BY <1>1, <1>3, <1>4

\* The only command of an idle device is the one just written.
LEMMA CommandAlone ==
  ASSUME running = <<>>, WriteCommand
  PROVE  running' = <<"own">> /\ CMD_STATUS' = "RUNNING"
<1>1. Len(running) = 0 /\ DOMAIN running = {} /\ [n \in DOMAIN running |-> "late"] = <<>>
  OBVIOUS
<1>2. Append(<<>>, "own") = <<"own">>
  OBVIOUS
<1>3. QED BY <1>1, <1>2, GuestAssumption DEF WriteCommand

LEMMA GuestStepCarried ==
  ASSUME CarriedInv, phase = "guest", phase' = "guest",
         GuestStep \/ Issue(TRUE)
  PROVE  CarriedInv'
<1>0. StateOK(state)
  BY DEF CarriedInv
<1>1. ASSUME NEW mismatch \in BOOLEAN, Issue(mismatch) PROVE CarriedInv'
  <2>0. state' = [state EXCEPT !.bar2_readback_mismatches = @ \/ mismatch]
    BY <1>1 DEF Issue
  <2>1. StateOK(state') /\ state'.command_failures = state.command_failures
    BY <1>0, <2>0, StateChanges
  <2>2. /\ gpc = "issue" /\ gpc' = "poll" /\ WriteCommand
        /\ UNCHANGED <<bar2_enabled, clean, carried, guest_status>>
    BY <1>1 DEF Issue
  <2>3. running = <<>> => running' = <<"own">> /\ CMD_STATUS' = "RUNNING"
    BY <2>2, CommandAlone
  <2>4. QED BY <2>1, <2>2, <2>3 DEF CarriedInv, OwnCommandOnly
<1>2. ASSUME NEW ret, Returned(ret), gpc \in {"poll", "result"},
             ret # 0 \/ gpc = "result",
             UNCHANGED <<bar2_enabled, clean, guest_status, deviceVars>>
      PROVE  CarriedInv'
  <2>1. /\ StateOK(state') /\ gpc' \in {"write", "issue"}
        /\ ~state'.command_failures => ~state.command_failures /\ ret = 0
        /\ carried /\ ret = 0 /\ signaller = "own" => carried'
    BY <1>0, <1>2, ReturnedFacts
  <2>2. UNCHANGED <<running, signaller, CMD_STATUS, bar2_enabled, clean>>
    BY <1>2 DEF deviceVars
  <2>3. QED BY <2>1, <2>2, <1>2 DEF CarriedInv, OwnCommandOnly
<1>3. CASE PollAgain
  <2>1. CASE polls + 1 = MaxPolls
    <3>1. Returned(-ETIMEDOUT) /\ -ETIMEDOUT # 0
      BY <1>3, <2>1 DEF PollAgain, ETIMEDOUT
    <3>2. QED BY <3>1, <1>2, <1>3 DEF PollAgain
  <2>2. CASE polls + 1 # MaxPolls
    BY <2>2, <1>3 DEF PollAgain, KeepPolling, CarriedInv, OwnCommandOnly, deviceVars
  <2>3. QED BY <2>1, <2>2
<1>4. CASE PollOver
  BY <1>4 DEF PollOver, CarriedInv, OwnCommandOnly, deviceVars
<1>5. CASE ReadResult
  BY <1>5, <1>2 DEF ReadResult
<1>6. CASE HandleOffline
  <2>1. StateOK(state')
    BY <1>0, <1>6, HandleFacts DEF HandleOffline, Handle
  <2>2. ~bar2_enabled' /\ gpc' \in {"write", "handle"}
    BY <1>6 DEF HandleOffline, CarriedInv
  <2>3. QED BY <2>1, <2>2 DEF CarriedInv
<1>7. CASE WriteFiles
  BY <1>7 DEF WriteFiles, CarriedInv, OwnCommandOnly, deviceVars
<1>8. QED BY <1>1, <1>3, <1>4, <1>5, <1>6, <1>7 DEF GuestStep

\* Everything around the helper's steps, and the device.
LEMMA CarriedStep ==
  ASSUME CarriedInv, [Next]_vars
  PROVE  CarriedInv'
<1>1. CASE RunGuest
  BY <1>1, GuestStepCarried DEF RunGuest, scriptVars
<1>2. CASE Mismatch
  BY <1>2, GuestStepCarried DEF Mismatch
<1>3. CASE Export
  <2>1. phase' = "guest" /\ gpc' = "start" /\ state' = state
    BY <1>3 DEF Export
  <2>2. QED BY <2>1 DEF CarriedInv, StateOK
<1>4. CASE StartGuest
  <2>1. PICK found : GuestStart(found, ~live)
    BY <1>4 DEF StartGuest
  <2>2. /\ phase' = "guest" /\ state' = NewState /\ guest_status' = "none"
        /\ gpc' \in {"failed", "handle", "issue"} /\ (gpc' = "handle" => ~bar2_enabled')
        /\ clean' = (running = <<>>) /\ carried' = TRUE /\ running' = running
    BY <1>4, <2>1 DEF StartGuest, GuestStart, deviceVars
  <2>3. StateOK(NewState)
    BY DEF StateOK, NewState
  <2>4. QED BY <2>2, <2>3 DEF CarriedInv, OwnCommandOnly
<1>5. ASSUME phase # "guest" \/ gpc \in {"start", "written", "failed"}, UNCHANGED mainVars
      PROVE  CarriedInv'
  <2>1. gpc \in {"off", "start", "written", "failed"}
    BY <1>5 DEF CarriedInv
  <2>2. UNCHANGED <<bar2_enabled, gpc, state, guest_status, clean, carried>>
    BY <1>5 DEF mainVars
  <2>3. StateOK(state')
    BY <2>2 DEF CarriedInv
  <2>4. QED BY <2>1, <2>2, <2>3 DEF CarriedInv, OwnCommandOnly
<1>6. CASE FetchResponses \/ FetchSummary \/ Validate \/ Measure \/ MeasureByHand \/ Abort \/ Restart
  <2>1. UNCHANGED mainVars
    BY <1>6 DEF FetchResponses, FetchSummary, Validate, Measure, MeasureByHand, Abort, Restart,
                guestVars
  <2>2. phase # "guest" \/ gpc \in {"start", "written", "failed"}
    BY <1>6 DEF FetchResponses, FetchSummary, Validate, Measure, MeasureByHand, Abort, Restart,
                Ended
  <2>3. QED BY <2>1, <2>2, <1>5
<1>7. CASE Device
  <2>1. PICK status \in {"COMPLETE", "ERROR"}, code \in {0, 1} : Complete(status, code)
    BY <1>7 DEF Device, DeviceOk, DeviceFails
  <2>2. UNCHANGED <<bar2_enabled, gpc, state, guest_status, clean, carried, phase>>
    BY <1>7, <2>1 DEF Complete, mainVars, Device
  <2>3. running # <<>> /\ running' = Tail(running) /\ signaller' = Head(running)
        /\ CMD_STATUS' # "RUNNING"
    BY <2>1 DEF Complete
  <2>4. running = <<"own">> => running' = <<>> /\ signaller' = "own"
    BY <2>3
  <2>5. StateOK(state')
    BY <2>2 DEF CarriedInv
  <2>6. QED BY <2>2, <2>3, <2>4, <2>5 DEF CarriedInv, OwnCommandOnly
<1>8. CASE UNCHANGED vars
  BY <1>8 DEF CarriedInv, OwnCommandOnly, StateOK, vars, scriptVars, guestVars, mainVars, deviceVars
<1>9. QED BY <1>1, <1>2, <1>3, <1>4, <1>6, <1>7, <1>8 DEF Next, ScriptStep

\* A helper that started on an idle device and has counted no failed command is
\* alone with its present command: from main's first command to its last.
THEOREM CarriedSafe == Spec => []CarriedInv
<1>1. Init => CarriedInv
  BY DEF Init, GuestInit, CarriedInv, StateOK, NewState
<1>2. CarriedInv /\ [Next]_vars => CarriedInv'
  BY CarriedStep
<1>3. QED BY <1>1, <1>2, PTL DEF Spec

\* A guest summary that says "pass" over BAR2, of a helper that found the device
\* idle, means that every command succeeded by its own completion, whatever the
\* polling limit and however late the device answers.
THEOREM PassSafe == Spec => []PassMeansCarried
<1>1. CarriedInv => PassMeansCarried
  BY DEF CarriedInv, PassMeansCarried
<1>2. QED BY <1>1, CarriedSafe, PTL

(***************************************************************************)
(* The sweep                                                               *)
(***************************************************************************)
\* What the script's evidence rests on changes only with dir, sweep and report.
LEMMA SameEvidence ==
  ASSUME UNCHANGED <<dir, sweep>>
  PROVE  /\ \A r : PassedNow(r)' <=> PassedNow(r)
         /\ \A by : Report(by)' = Report(by)
<1>1. \A r : PassedNow(r)' <=> PassedNow(r)
  BY DEF PassedNow
<1>2. Counted' = Counted /\ Passed' = Passed
  BY DEF Counted, Passed
<1>3. \A by : Report(by)' = Report(by)
  BY <1>2 DEF Report, summarize_bar2_repeatability
<1>4. QED BY <1>1, <1>3

\* Steps that leave the directories alone and do not go on to measuring.
LEMMA SweepKept ==
  ASSUME SweepInv, UNCHANGED <<dir, sweep, report, run, live>>,
         phase' = phase \/ (phase' # "measure" /\ phase \notin Ended)
  PROVE  SweepInv'
<1>1. /\ \A r : PassedNow(r)' <=> PassedNow(r)
      /\ \A by : Report(by)' = Report(by)
  BY SameEvidence
<1>2. DOMAIN dir' = RunDirs /\ run' \in RunDirs /\ RunDirs' = RunDirs
  BY DEF SweepInv, RunDirs
<1>3. \A r \in RunDirs : dir'[r] \in [responses : {dir'[r].responses}, guest : {dir'[r].guest},
                                      summary : {dir'[r].summary}]
  BY DEF SweepInv
<1>4. /\ live' /\ phase' \notin Ended => \A r \in 1..(run' - 1) : PassedNow(r)'
      /\ live' /\ phase' = "measure" => \A r \in RunDirs : PassedNow(r)'
  BY <1>1 DEF SweepInv, Ended
<1>5. /\ phase' \notin Ended => report' = None
      /\ \A rep \in report' :
           /\ rep \in {Report("script")', Report("hand")'}
           /\ rep.by = "script" => phase' = "complete" /\ \A r \in RunDirs : PassedNow(r)'
  BY <1>1 DEF SweepInv, Ended, None
<1>6. QED BY <1>2, <1>3, <1>4, <1>5 DEF SweepInv

\* A file put into the present run's directory: the earlier runs keep theirs.
LEMMA PutFacts ==
  ASSUME SweepInv, NEW file, sweep' = sweep,
         \/ dir' = [dir EXCEPT ![run].responses = file]
         \/ dir' = [dir EXCEPT ![run].guest = file]
         \/ dir' = [dir EXCEPT ![run].summary = file]
  PROVE  /\ DOMAIN dir' = RunDirs
         /\ \A r \in RunDirs : dir'[r] \in [responses : {dir'[r].responses},
                                 guest : {dir'[r].guest}, summary : {dir'[r].summary}]
         /\ \A r \in RunDirs \ {run} : PassedNow(r)' <=> PassedNow(r)
         /\ dir' = [dir EXCEPT ![run].summary = file] => dir'[run].summary = file
<1>1. DOMAIN dir = RunDirs /\ run \in RunDirs
  BY DEF SweepInv
<1>2. dir[run] \in [responses : {dir[run].responses}, guest : {dir[run].guest},
                    summary : {dir[run].summary}]
  BY <1>1 DEF SweepInv
<1>3. DOMAIN dir' = RunDirs /\ \A r \in RunDirs \ {run} : dir'[r] = dir[r]
  BY <1>1
<1>4. /\ dir'[run] \in [responses : {dir'[run].responses}, guest : {dir'[run].guest},
                        summary : {dir'[run].summary}]
      /\ dir' = [dir EXCEPT ![run].summary = file] => dir'[run].summary = file
  BY <1>1, <1>2
<1>5. QED BY <1>3, <1>4 DEF SweepInv, PassedNow

LEMMA ValidateSweep ==
  ASSUME SweepInv, Validate
  PROVE  SweepInv'
<1> DEFINE status == validate_responses(job, dir[run].responses)
           passed == status = Some("pass")
           right == RightAnswers(job, dir[run].responses)
           summary == {[status |-> s, sweep |-> sweep, right |-> right] : s \in status}
<1>1. /\ phase = "validate" /\ report' = report /\ live' = live /\ sweep' = sweep
      /\ dir' = IF status = None THEN dir ELSE [dir EXCEPT ![run].summary = summary]
      /\ phase' = CASE ~passed -> "aborted"
                    [] passed /\ run < Runs /\ live -> "export"
                    [] OTHER -> "measure"
      /\ run' = IF passed /\ run < Runs /\ live THEN run + 1 ELSE run
  BY DEF Validate
<1> HIDE DEF status, right
<1>2. /\ run \in RunDirs /\ DOMAIN dir = RunDirs /\ report = None /\ phase \notin Ended
      /\ live => \A r \in 1..(run - 1) : PassedNow(r)
  BY <1>1 DEF SweepInv, Ended
<1>3. Runs \in Nat \ {0} /\ run \in 1..Runs /\ run \in Nat
  BY <1>2, SweepAssumption DEF RunDirs
<1>4. run' \in RunDirs
  BY <1>1, <1>3 DEF RunDirs
<1>5. CASE status = None
  <2>1. ~passed /\ dir' = dir
    BY <1>1, <1>5 DEF None, Some
  <2>2. phase' = "aborted" /\ run' = run
    BY <1>1, <2>1
  <2>3. QED BY <1>1, <2>1, <2>2, <1>2, SweepKept
<1>6. CASE status # None
  <2>1. dir' = [dir EXCEPT ![run].summary = summary]
    BY <1>1, <1>6
  <2>2. /\ DOMAIN dir' = RunDirs
        /\ \A r \in RunDirs : dir'[r] \in [responses : {dir'[r].responses},
                                guest : {dir'[r].guest}, summary : {dir'[r].summary}]
        /\ \A r \in RunDirs \ {run} : PassedNow(r)' <=> PassedNow(r)
        /\ dir'[run].summary = summary
    BY <1>1, <2>1, PutFacts
  <2>3. ASSUME passed, NEW r, r = run PROVE PassedNow(r)'
    <3> DEFINE entry == [status |-> "pass", sweep |-> sweep, right |-> right]
    <3>1. summary = {entry}
      BY <2>3 DEF Some
    <3>2. entry.status = "pass" /\ entry.sweep = sweep'
      BY <1>1
    <3> HIDE DEF summary, entry, passed
    <3>3. dir'[r].summary = {entry}
      BY <2>3, <3>1, <2>2
    <3>4. QED BY <3>2, <3>3 DEF PassedNow, None
  <2> HIDE DEF summary
  <2>4. live /\ passed => \A r \in 1..run : PassedNow(r)'
    <3> HIDE DEF passed
    <3>1. SUFFICES ASSUME live, passed, NEW r \in 1..run PROVE PassedNow(r)'
      OBVIOUS
    <3>2. CASE r = run
      BY <3>1, <3>2, <2>3
    <3>3. CASE r # run
      <4>1. r \in RunDirs \ {run} /\ r \in 1..(run - 1)
        BY <3>3, <1>3 DEF RunDirs
      <4>2. QED BY <4>1, <3>1, <1>2, <2>2
    <3>4. QED BY <3>2, <3>3
  <2>5. live' /\ phase' \notin Ended => \A r \in 1..(run' - 1) : PassedNow(r)'
    <3>1. phase' \notin Ended => passed
      BY <1>1 DEF Ended
    <3>2. passed => 1..(run' - 1) \subseteq 1..run
      BY <1>1, <1>3
    <3> HIDE DEF passed
    <3>3. QED BY <3>1, <3>2, <2>4, <1>1
  <2>6. live' /\ phase' = "measure" => \A r \in RunDirs : PassedNow(r)'
    <3>1. live /\ phase' = "measure" => passed /\ run = Runs
      BY <1>1, <1>3
    <3> HIDE DEF passed
    <3>2. QED BY <3>1, <2>4, <1>1 DEF RunDirs
  <2>7. report' = None
    BY <1>1, <1>2
  <2>8. QED BY <2>2, <2>5, <2>6, <2>7, <1>4 DEF SweepInv, RunDirs, None
<1>7. QED BY <1>5, <1>6

LEMMA SweepStep ==
  ASSUME SweepInv, [Next]_vars
  PROVE  SweepInv'
<1>1. CASE Export \/ StartGuest \/ RunGuest \/ Mismatch \/ Device \/ Abort \/ UNCHANGED vars
  <2>1. UNCHANGED <<dir, sweep, report, run, live>>
    BY <1>1 DEF Export, StartGuest, RunGuest, Mismatch, Device, Abort, vars, scriptVars
  <2>2. phase' = phase \/ (phase' # "measure" /\ phase \notin Ended)
    BY <1>1 DEF Export, StartGuest, RunGuest, Mismatch, Device, Abort, vars, scriptVars, Ended
  <2>3. QED BY <2>1, <2>2, SweepKept
<1>2. CASE FetchResponses \/ FetchSummary
  <2>1. /\ UNCHANGED <<sweep, report, run, live>> /\ phase \notin Ended
        /\ phase' \notin Ended /\ phase' # "measure"
    BY <1>2 DEF FetchResponses, FetchSummary, Ended
  <2>2. PICK file : \/ dir' = [dir EXCEPT ![run].responses = file]
                    \/ dir' = [dir EXCEPT ![run].guest = file]
    BY <1>2 DEF FetchResponses, FetchSummary
  <2>3. /\ DOMAIN dir' = RunDirs
        /\ \A r \in RunDirs : dir'[r] \in [responses : {dir'[r].responses},
                                guest : {dir'[r].guest}, summary : {dir'[r].summary}]
        /\ \A r \in RunDirs \ {run} : PassedNow(r)' <=> PassedNow(r)
    BY <2>1, <2>2, PutFacts
  <2>4. run \in RunDirs /\ report = None /\ (live => \A r \in 1..(run - 1) : PassedNow(r))
    BY <2>1 DEF SweepInv
  <2>5. 1..(run - 1) \subseteq RunDirs \ {run}
    BY <2>4, SweepAssumption DEF RunDirs
  <2>6. live' => \A r \in 1..(run' - 1) : PassedNow(r)'
    BY <2>1, <2>3, <2>4, <2>5
  <2>7. QED BY <2>1, <2>3, <2>4, <2>6 DEF SweepInv, None, RunDirs
<1>3. CASE Validate
  BY <1>3, ValidateSweep
<1>4. CASE Measure \/ MeasureByHand
  <2>1. UNCHANGED <<dir, sweep, run, live>> /\ phase' \in Ended
    BY <1>4 DEF Measure, MeasureByHand, Ended
  <2>2. /\ \A r : PassedNow(r)' <=> PassedNow(r)
        /\ \A by : Report(by)' = Report(by)
    BY <2>1, SameEvidence
  <2>3. Report("hand").by = "hand"
    BY DEF Report
  <2>4. \A rep \in report' :
          /\ rep \in {Report("script"), Report("hand")}
          /\ rep.by = "script" => phase' = "complete" /\ \A r \in RunDirs : PassedNow(r)
    <3>1. CASE Measure /\ live
      <4>1. report' = {Report("script")} /\ phase' = "complete" /\ \A r \in RunDirs : PassedNow(r)
        BY <3>1 DEF Measure, SweepInv, Some
      <4>2. QED BY <4>1
    <3>2. CASE Measure /\ ~live
      <4>1. report' = None
        BY <3>2 DEF Measure, SweepInv, Ended
      <4>2. QED BY <4>1 DEF None
    <3>3. CASE MeasureByHand
      <4>1. report' = {Report("hand")}
        BY <3>3 DEF MeasureByHand, Some
      <4>2. QED BY <4>1, <2>3
    <3>4. QED BY <1>4, <3>1, <3>2, <3>3
  <2>5. /\ DOMAIN dir' = RunDirs /\ run' \in RunDirs
        /\ \A r \in RunDirs : dir'[r] \in [responses : {dir'[r].responses},
                                guest : {dir'[r].guest}, summary : {dir'[r].summary}]
    BY <2>1 DEF SweepInv
  <2>6. \A rep \in report' :
          /\ rep \in {Report("script")', Report("hand")'}
          /\ rep.by = "script" => phase' = "complete" /\ \A r \in RunDirs : PassedNow(r)'
    BY <2>2, <2>4
  <2>7. phase' # "measure"
    BY <2>1 DEF Ended
  <2>8. QED BY <2>1, <2>5, <2>6, <2>7 DEF SweepInv, RunDirs
<1>5. CASE Restart
  <2>1. dir' = dir /\ run' = 1 /\ phase' = "export" /\ report' = None
    BY <1>5 DEF Restart
  <2>2. /\ DOMAIN dir' = RunDirs
        /\ \A r \in RunDirs : dir'[r] \in [responses : {dir'[r].responses},
                                guest : {dir'[r].guest}, summary : {dir'[r].summary}]
    BY <2>1 DEF SweepInv
  <2>3. run' \in RunDirs /\ 1..(run' - 1) = {}
    BY <2>1, SweepAssumption DEF RunDirs
  <2>4. QED BY <2>1, <2>2, <2>3 DEF SweepInv, None, RunDirs
<1>6. QED BY <1>1, <1>2, <1>3, <1>4, <1>5 DEF Next, ScriptStep

\* The script measures only after every run of this very sweep has passed its
\* validation, and a report stays true to the directories it was made from,
\* through aborted and repeated sweeps on one artifact directory.
THEOREM SweepSafe == Spec => []SweepInv
<1>1. Init => SweepInv
  <2>1. ASSUME Init PROVE SweepInv
    <3>1. dir = [r \in RunDirs |-> EmptyDir] /\ run = 1 /\ report = None /\ phase = "export"
      BY <2>1 DEF Init
    <3>2. run \in RunDirs /\ 1..(run - 1) = {}
      BY <3>1, SweepAssumption DEF RunDirs
    <3>3. EmptyDir \in [responses : {EmptyDir.responses}, guest : {EmptyDir.guest},
                        summary : {EmptyDir.summary}]
      BY DEF EmptyDir
    <3>4. QED BY <3>1, <3>2, <3>3 DEF SweepInv, None
  <2>2. QED BY <2>1
<1>2. SweepInv /\ [Next]_vars => SweepInv'
  BY SweepStep
<1>3. QED BY <1>1, <1>2, PTL DEF Spec


(***************************************************************************)
(* Matrices                                                                *)
(***************************************************************************)
LEMMA Sizes ==
  /\ Dim \in 1..16 /\ Dim \in Nat /\ TagSpace \in Nat \ {0}
  /\ Cells \in Nat \ {0} /\ StreamLength \in Nat /\ StreamLength = 3 * Cells + 1
<1>1. Dim \in 1..16 /\ TagSpace \in Nat \ {0}
  BY WireAssumption
<1>2. Dim * Dim \in Nat \ {0}
  BY <1>1
<1>3. QED BY <1>1, <1>2 DEF Cells, StreamLength

\* A sum of products of bytes fits the three bytes that decode_results keeps.
LEMMA SumBound ==
  ASSUME NEW a \in Matrix(0..255), NEW b \in Matrix(0..255), NEW x \in Cell
  PROVE  SumOfProducts(a, b)[x] \in Nat /\ SumOfProducts(a, b)[x] < 2^24
<1> DEFINE term == [n \in 1..Dim |-> a[<<x[1], n - 1>>] * b[<<n - 1, x[2]>>]]
           Sums(f) == f = [n \in 0..Dim |-> IF n = 0 THEN 0
                                           ELSE f[n - 1] + a[<<x[1], n - 1>>] * b[<<n - 1, x[2]>>]]
           sum == CHOOSE f : Sums(f)
<1>1. Dim \in 1..16 /\ Dim \in Nat
  BY Sizes
<1>2. \A n \in 1..Dim : (term[n] \in Nat /\ term[n] <= 65025)
  <2>1. ASSUME NEW n \in 1..Dim PROVE (term[n] \in Nat /\ term[n] <= 65025)
    <3>1. <<x[1], n - 1>> \in Cell /\ <<n - 1, x[2]>> \in Cell
      BY <1>1 DEF Cell
    <3>2. a[<<x[1], n - 1>>] \in 0..255 /\ b[<<n - 1, x[2]>>] \in 0..255
      BY <3>1 DEF Matrix
    <3>3. PICK u \in 0..255, v \in 0..255 : u = a[<<x[1], n - 1>>] /\ v = b[<<n - 1, x[2]>>]
      BY <3>2
    <3>4. term[n] = u * v
      BY <3>3
    <3>5. u * v >= 0 /\ (255 - u) * v >= 0
      OBVIOUS
    <3>6. u * v \in Nat /\ u * v <= 65025
      BY <3>5
    <3> HIDE DEF term
    <3>7. QED BY <3>4, <3>6
  <2>2. QED BY <2>1
<1>3. \E f : Sums(f)
  <2>1. term \in [1..Dim -> Nat]
    <3>1. \A n \in 1..Dim : a[<<x[1], n - 1>>] * b[<<n - 1, x[2]>>] \in Nat
      BY <1>2
    <3>2. QED BY <3>1
  <2>2. PICK f \in [0..Dim -> Nat] : f[0] = 0 /\ \A n \in 1..Dim : f[n] = f[n - 1] + term[n]
    <3> HIDE DEF term
    <3>1. QED BY <1>1, <2>1, Summation
  <2>4. \A n \in 1..Dim : f[n] = f[n - 1] + a[<<x[1], n - 1>>] * b[<<n - 1, x[2]>>]
    BY <2>2
  <2>5. Sums(f)
    BY <1>1, <2>2, <2>4
  <2> HIDE DEF Sums
  <2>6. QED BY <2>5
<1>4. Sums(sum)
  <2> HIDE DEF Sums
  <2>1. QED BY <1>3
<1>5. SumOfProducts(a, b)[x] = sum[Dim]
  BY DEF SumOfProducts
<1>6. sum[0] = 0 /\ \A n \in 1..Dim : sum[n] = sum[n - 1] + term[n]
  <2> HIDE DEF sum
  <2>1. sum[0] = 0
    BY <1>1, <1>4
  <2>2. ASSUME NEW n \in 1..Dim PROVE sum[n] = sum[n - 1] + term[n]
    <3>1. n \in 0..Dim /\ n # 0
      BY <1>1
    <3>2. QED BY <1>4, <3>1
  <2>3. QED BY <2>1, <2>2
<1> HIDE DEF sum, Sums, term
<1> DEFINE S == {n \in 0..Dim : sum[n] \in Nat /\ sum[n] <= 65025 * n}
<1>7. 0..Dim \subseteq S
  <2>1. 0 \in S
    BY <1>1, <1>6
  <2>2. ASSUME NEW n \in 1..Dim, n - 1 \in S PROVE n \in S
    <3>1. sum[n - 1] \in Nat /\ sum[n - 1] <= 65025 * (n - 1) /\ (term[n] \in Nat /\ term[n] <= 65025) /\ sum[n] = sum[n - 1] + term[n]
      BY <1>2, <1>6, <2>2
    <3>2. QED BY <1>1, <3>1
  <2> HIDE DEF S
  <2>3. QED BY <1>1, <2>1, <2>2, BoundedInduction
<1>8. sum[Dim] \in Nat /\ sum[Dim] <= 65025 * Dim
  BY <1>1, <1>7
<1>9. QED BY <1>1, <1>5, <1>8

(***************************************************************************)
(* The wire                                                                *)
(***************************************************************************)
LEMMA WireCodes ==
  /\ DOMAIN MsgClass = 1..8
  /\ MsgClass[1] = "M2SReq" /\ MsgClass[2] = "M2SRwD" /\ MsgClass[3] = "S2MDRS" /\ MsgClass[4] = "S2MNDR"
  /\ \A n \in 1..8 : (MsgClass[n] = "M2SReq" => n = 1) /\ (MsgClass[n] = "M2SRwD" => n = 2)
  /\ 0 \in DOMAIN Opcodes["M2SReq"] /\ Opcodes["M2SReq"][0] = "MemRd"
  /\ \A n \in DOMAIN Opcodes["M2SReq"] : Opcodes["M2SReq"][n] = "MemRd" => n = 0
  /\ 0 \in DOMAIN Opcodes["M2SRwD"] /\ Opcodes["M2SRwD"][0] = "MemWr"
  /\ \A n \in DOMAIN Opcodes["M2SRwD"] : Opcodes["M2SRwD"][n] = "MemWr" => n = 0
  /\ 0 \in DOMAIN Opcodes["S2MDRS"] /\ Opcodes["S2MDRS"][0] = "MemData"
  /\ 0 \in DOMAIN Opcodes["S2MNDR"] /\ Opcodes["S2MNDR"][0] = "Cmp"
<1>1. Opcodes["M2SReq"] = [n \in 0..2 |-> <<"MemRd", "MemRdData", "MemInv">>[n + 1]]
  BY DEF Opcodes, Numbered
<1>2. Opcodes["M2SRwD"] = [n \in 0..2 |-> <<"MemWr", "MemWrPtl", "MemClnEvct">>[n + 1]]
  BY DEF Opcodes, Numbered
<1>3. Opcodes["S2MDRS"] = [n \in 0..1 |-> <<"MemData", "MemDataNxm">>[n + 1]]
  BY DEF Opcodes, Numbered
<1>4. Opcodes["S2MNDR"] = [n \in 0..4 \cup {15} |->
                             IF n = 15 THEN "DispatchFailed"
                             ELSE <<"Cmp", "CmpS", "CmpE", "CmpI", "MemPassDirty">>[n + 1]]
  BY DEF Opcodes
<1>5. /\ 0 \in DOMAIN Opcodes["M2SReq"] /\ Opcodes["M2SReq"][0] = "MemRd"
      /\ \A n \in DOMAIN Opcodes["M2SReq"] : Opcodes["M2SReq"][n] = "MemRd" => n = 0
  BY <1>1
<1>6. /\ 0 \in DOMAIN Opcodes["M2SRwD"] /\ Opcodes["M2SRwD"][0] = "MemWr"
      /\ \A n \in DOMAIN Opcodes["M2SRwD"] : Opcodes["M2SRwD"][n] = "MemWr" => n = 0
  BY <1>2
<1>7. 0 \in DOMAIN Opcodes["S2MDRS"] /\ Opcodes["S2MDRS"][0] = "MemData"
  BY <1>3
<1>8. 0 \in DOMAIN Opcodes["S2MNDR"] /\ Opcodes["S2MNDR"][0] = "Cmp"
  BY <1>4
<1>9. /\ DOMAIN MsgClass = 1..8
      /\ MsgClass[1] = "M2SReq" /\ MsgClass[2] = "M2SRwD"
      /\ MsgClass[3] = "S2MDRS" /\ MsgClass[4] = "S2MNDR"
      /\ \A n \in 1..8 : (MsgClass[n] = "M2SReq" => n = 1) /\ (MsgClass[n] = "M2SRwD" => n = 2)
  BY DEF MsgClass
<1>10. QED BY <1>5, <1>6, <1>7, <1>8, <1>9

LEMMA EncodedFields ==
  ASSUME NEW m, NEW k \in DOMAIN MsgClass, MsgClass[k] = m.class,
         \A n \in DOMAIN MsgClass : MsgClass[n] = m.class => n = k,
         0 \in DOMAIN Opcodes[m.class], Opcodes[m.class][0] = m.opcode,
         \A n \in DOMAIN Opcodes[m.class] : Opcodes[m.class][n] = m.opcode => n = 0
  PROVE  encode(m) = [class |-> k, opcode |-> 0, tag |-> m.tag, addr |-> OrElse(m.addr, <<0, 0>>),
                      data |-> OrElse(m.data, 0), reserved |-> 0]
<1>1. (CHOOSE n \in DOMAIN MsgClass : MsgClass[n] = m.class) = k
  OBVIOUS
<1>2. (CHOOSE n \in DOMAIN Opcodes[m.class] : Opcodes[m.class][n] = m.opcode) = 0
  OBVIOUS
<1>3. QED BY <1>1, <1>2, Zenon DEF encode

\* The two requests of the protocol, as FLITs.
LEMMA EncodedRequest ==
  ASSUME NEW tag, NEW word
  PROVE  /\ encode(Msg("M2SRwD", "MemWr", tag, <<DISPATCH_ADDR, 0>>, word)) =
              [class |-> 2, opcode |-> 0, tag |-> tag, addr |-> <<DISPATCH_ADDR, 0>>,
               data |-> word, reserved |-> 0]
         /\ encode(Msg("M2SReq", "MemRd", tag, <<DISPATCH_ADDR, word>>, 0)) =
              [class |-> 1, opcode |-> 0, tag |-> tag, addr |-> <<DISPATCH_ADDR, word>>,
               data |-> 0, reserved |-> 0]
<1>1. \A x, d : OrElse(Some(x), d) = x /\ OrElse(None, d) = d
  BY DEF OrElse, Some, None
<1> DEFINE w == Msg("M2SRwD", "MemWr", tag, <<DISPATCH_ADDR, 0>>, word)
           q == Msg("M2SReq", "MemRd", tag, <<DISPATCH_ADDR, word>>, 0)
<1>2. /\ w.class = "M2SRwD" /\ w.opcode = "MemWr" /\ w.tag = tag
      /\ w.addr = Some(<<DISPATCH_ADDR, 0>>) /\ w.data = Some(word)
  BY DEF Msg, HasAddress, HasData
<1>3. /\ q.class = "M2SReq" /\ q.opcode = "MemRd" /\ q.tag = tag
      /\ q.addr = Some(<<DISPATCH_ADDR, word>>) /\ q.data = None
  BY DEF Msg, HasAddress, HasData
<1> HIDE DEF w, q
<1>4. encode(w) = [class |-> 2, opcode |-> 0, tag |-> w.tag, addr |-> OrElse(w.addr, <<0, 0>>),
                   data |-> OrElse(w.data, 0), reserved |-> 0]
  BY <1>2, WireCodes, EncodedFields
<1>5. encode(q) = [class |-> 1, opcode |-> 0, tag |-> q.tag, addr |-> OrElse(q.addr, <<0, 0>>),
                   data |-> OrElse(q.data, 0), reserved |-> 0]
  BY <1>3, WireCodes, EncodedFields
<1>6. /\ encode(w) = [class |-> 2, opcode |-> 0, tag |-> tag, addr |-> <<DISPATCH_ADDR, 0>>,
                      data |-> word, reserved |-> 0]
      /\ encode(q) = [class |-> 1, opcode |-> 0, tag |-> tag, addr |-> <<DISPATCH_ADDR, word>>,
                      data |-> 0, reserved |-> 0]
  BY <1>1, <1>2, <1>3, <1>4, <1>5
<1>7. QED BY <1>6 DEF w, q

\* The bits of a read token.
LEMMA ReadBits ==
  ASSUME NEW addr \in 0..255, NEW w, w = 2^21 + 2^22 * addr
  PROVE  Bit(w, 21) /\ Byte(w, 22) = addr
<1>1. w \div 2^21 = 1 + 2 * addr /\ w \div 2^22 = addr
  OBVIOUS
<1>2. QED BY <1>1 DEF Bit, Byte

LEMMA AddressBits ==
  ASSUME NEW x \in Cell
  PROVE  ArrayAddr(x) \in 0..255 /\ CellOf(ArrayAddr(x)) = x
<1>1. PICK r \in 0..15, c \in 0..15 : x = <<r, c>>
  BY Sizes DEF Cell
<1>2. ArrayAddr(x) = r * 16 + c
  BY <1>1 DEF ArrayAddr
<1>3. (r * 16 + c) \div 16 = r /\ (r * 16 + c) % 16 = c /\ r * 16 + c \in 0..255
  OBVIOUS
<1>4. QED BY <1>1, <1>2, <1>3 DEF CellOf

\* CellAt numbers the cells row by row, and decode_results finds each of them
\* at its number.
LEMMA CellNumbers ==
  /\ \A n \in 1..Cells : CellAt(n) \in Cell
  /\ \A x \in Cell : /\ x[1] * Dim + x[2] + 1 \in 1..Cells
                     /\ CellAt(x[1] * Dim + x[2] + 1) = x
<1>1. Dim \in 1..16
  BY Sizes
<1>2. ASSUME NEW n \in 1..(Dim * Dim)
      PROVE  (n - 1) \div Dim \in 0..Dim - 1 /\ (n - 1) % Dim \in 0..Dim - 1
  BY <1>1
<1>3. ASSUME NEW r \in 0..Dim - 1, NEW c \in 0..Dim - 1, NEW m, m = r * Dim + c + 1
      PROVE  m \in 1..(Dim * Dim) /\ (m - 1) \div Dim = r /\ (m - 1) % Dim = c
  BY <1>1, <1>3
<1>4. \A n \in 1..Cells : CellAt(n) \in Cell
  BY <1>2 DEF Cells, CellAt, Cell
<1>5. ASSUME NEW x \in Cell
      PROVE  x[1] * Dim + x[2] + 1 \in 1..Cells /\ CellAt(x[1] * Dim + x[2] + 1) = x
  <2>1. PICK r \in 0..Dim - 1, c \in 0..Dim - 1 : x = <<r, c>>
    BY DEF Cell
  <2> DEFINE m == r * Dim + c + 1
  <2>2. m = r * Dim + c + 1 /\ x[1] * Dim + x[2] + 1 = m
    BY <2>1
  <2> HIDE DEF m
  <2>3. m \in 1..(Dim * Dim) /\ (m - 1) \div Dim = r /\ (m - 1) % Dim = c
    BY <1>3, <2>2
  <2>4. QED BY <2>1, <2>2, <2>3 DEF CellAt, Cells
<1>6. QED BY <1>4, <1>5

\* The requests of a job, in their four parts.
LEMMA StreamParts ==
  ASSUME NEW j, NEW n \in 1..StreamLength
  PROVE  LET flit == DispatchStream(j, 0)[n]
         IN  /\ n <= Cells =>
                  flit.class = "RwD" /\ flit.token = make_load_token(0, CellAt(n), j.a[CellAt(n)])
             /\ n \in Cells + 1..2 * Cells =>
                  /\ flit.class = "RwD"
                  /\ flit.token = make_load_token(1, CellAt(n - Cells), j.b[CellAt(n - Cells)])
             /\ n = 2 * Cells + 1 => flit.class = "RwD" /\ flit.token = make_compute_token
             /\ n > 2 * Cells + 1 =>
                  flit.class = "Req" /\ flit.token = make_read_token(CellAt(n - 2 * Cells - 1))
<1> DEFINE flit == DispatchStream(j, 0)[n]
           tag == (0 + n - 1) % TagSpace
<1>1. flit = CASE n <= Cells ->
                    M2SRwD(tag, make_load_token(0, CellAt(n), j.a[CellAt(n)]))
               [] n \in Cells + 1..2 * Cells ->
                    M2SRwD(tag, make_load_token(1, CellAt(n - Cells), j.b[CellAt(n - Cells)]))
               [] n = 2 * Cells + 1 -> M2SRwD(tag, make_compute_token)
               [] OTHER -> M2SReq(tag, make_read_token(CellAt(n - 2 * Cells - 1)))
  BY DEF DispatchStream
<1> HIDE DEF flit, tag
<1>2. CASE n <= Cells
  BY <1>1, <1>2, Sizes DEF M2SRwD, Flit, flit
<1>3. CASE n \in Cells + 1..2 * Cells
  BY <1>1, <1>3, Sizes DEF M2SRwD, Flit, flit
<1>4. CASE n = 2 * Cells + 1
  BY <1>1, <1>4, Sizes DEF M2SRwD, Flit, flit
<1>5. CASE n > 2 * Cells + 1
  BY <1>1, <1>5, Sizes DEF M2SReq, Flit, flit
<1>6. QED BY <1>2, <1>3, <1>4, <1>5, Sizes

\* What the helper makes of the bits of request n.
LEMMA ExportedFlits ==
  ASSUME NEW j \in Jobs, NEW n \in 1..StreamLength
  PROVE  LET flit == export_requests(j)[n]
         IN  /\ flit.tag = DispatchStream(j, 0)[n].tag
             /\ n <= 2 * Cells + 1 => flit.class = 2 /\ flit.opcode = 0
             /\ n <= 2 * Cells => Bit(flit.data, 2)
             /\ n <= Cells =>
                  /\ ~Bit(flit.data, 3)
                  /\ CellOf(Byte(flit.data, 4)) = CellAt(n)
                  /\ Byte(flit.data, 12) = j.a[CellAt(n)]
             /\ n \in Cells + 1..2 * Cells =>
                  /\ Bit(flit.data, 3)
                  /\ CellOf(Byte(flit.data, 4)) = CellAt(n - Cells)
                  /\ Byte(flit.data, 12) = j.b[CellAt(n - Cells)]
             /\ n = 2 * Cells + 1 => ~Bit(flit.data, 2) /\ Bit(flit.data, 20)
             /\ n > 2 * Cells + 1 =>
                  /\ flit.class = 1 /\ flit.opcode = 0 /\ flit.addr[1] = DISPATCH_ADDR
                  /\ Bit(flit.addr[2], 21)
                  /\ CellOf(Byte(flit.addr[2], 22)) = CellAt(n - 2 * Cells - 1)
                  /\ DispatchStream(j, 0)[n].token.addr = CellAt(n - 2 * Cells - 1)
<1> DEFINE flit == DispatchStream(j, 0)[n]
           out == export_requests(j)[n]
<1>0. Cells \in Nat \ {0} /\ StreamLength = 3 * Cells + 1
  BY Sizes
<1>1. out = encode(Message(flit))
  BY DEF export_requests
<1>2. j.a \in [Cell -> 0..255] /\ j.b \in [Cell -> 0..255]
  BY SweepAssumption DEF Matrix
<1>3. flit.class = "RwD" =>
        out = [class |-> 2, opcode |-> 0, tag |-> flit.tag, addr |-> <<DISPATCH_ADDR, 0>>,
               data |-> TokenWord(flit.token), reserved |-> 0]
  <2> HIDE DEF flit, out
  <2>1. QED BY <1>1, EncodedRequest DEF Message
<1>4. flit.class = "Req" =>
        out = [class |-> 1, opcode |-> 0, tag |-> flit.tag,
               addr |-> <<DISPATCH_ADDR, TokenWord(flit.token)>>, data |-> 0, reserved |-> 0]
  <2> HIDE DEF flit, out
  <2>1. QED BY <1>1, EncodedRequest DEF Message
<1>5. /\ n <= Cells =>
           flit.class = "RwD" /\ flit.token = make_load_token(0, CellAt(n), j.a[CellAt(n)])
      /\ n \in Cells + 1..2 * Cells =>
           /\ flit.class = "RwD"
           /\ flit.token = make_load_token(1, CellAt(n - Cells), j.b[CellAt(n - Cells)])
      /\ n = 2 * Cells + 1 => flit.class = "RwD" /\ flit.token = make_compute_token
      /\ n > 2 * Cells + 1 =>
           flit.class = "Req" /\ flit.token = make_read_token(CellAt(n - 2 * Cells - 1))
  BY StreamParts
<1>6. ASSUME NEW sel \in {0, 1}, NEW x \in Cell, NEW d \in 0..255
      PROVE  LET w == TokenWord(make_load_token(sel, x, d))
             IN  /\ Bit(w, 2) /\ (Bit(w, 3) <=> sel = 1)
                 /\ CellOf(Byte(w, 4)) = x /\ Byte(w, 12) = d
  <2>1. TokenWord(make_load_token(sel, x, d)) = 2^2 + 2^3 * sel + 2^4 * ArrayAddr(x) + 2^12 * d
    BY DEF TokenWord, make_load_token
  <2>2. ArrayAddr(x) \in 0..255 /\ CellOf(ArrayAddr(x)) = x
    BY AddressBits
  <2> DEFINE w == TokenWord(make_load_token(sel, x, d))
             addr == ArrayAddr(x)
  <2>3. addr \in 0..255 /\ w = 2^2 + 2^3 * sel + 2^4 * addr + 2^12 * d
    BY <2>1, <2>2
  <2>4. CellOf(addr) = x
    BY <2>2
  <2> HIDE DEF w, addr
  <2>5. Bit(w, 2) /\ (Bit(w, 3) <=> sel = 1) /\ Byte(w, 4) = addr /\ Byte(w, 12) = d
    <3>1. /\ w \div 2^2 = 1 + 2 * (sel + 2 * addr + 512 * d)
          /\ w \div 2^3 = sel + 2 * (addr + 256 * d)
          /\ w \div 2^4 = addr + 256 * d
          /\ w \div 2^12 = d
      BY <2>3
    <3>2. addr \in 0..255
      BY <2>3
    <3>3. QED BY <3>1, <3>2 DEF Bit, Byte
  <2>6. QED BY <2>4, <2>5 DEF w
<1>7. LET w == TokenWord(make_compute_token) IN ~Bit(w, 2) /\ Bit(w, 20)
  BY DEF TokenWord, make_compute_token, NoToken, Bit
<1>8. ASSUME NEW x \in Cell
      PROVE  LET w == TokenWord(make_read_token(x))
             IN  Bit(w, 21) /\ CellOf(Byte(w, 22)) = x /\ make_read_token(x).addr = x
  <2>1. TokenWord(make_read_token(x)) = 2^21 + 2^22 * ArrayAddr(x) /\ make_read_token(x).addr = x
    BY DEF TokenWord, make_read_token, NoToken
  <2>2. ArrayAddr(x) \in 0..255 /\ CellOf(ArrayAddr(x)) = x
    BY AddressBits
  <2>3. QED BY <2>1, <2>2, ReadBits
<1> HIDE DEF flit, out
<1>9. CASE n <= Cells
  <2>1. CellAt(n) \in Cell /\ j.a[CellAt(n)] \in 0..255
    BY <1>0, <1>2, <1>9, CellNumbers
  <2>2. LET w == TokenWord(make_load_token(0, CellAt(n), j.a[CellAt(n)]))
        IN  /\ Bit(w, 2) /\ (Bit(w, 3) <=> 0 = 1)
            /\ CellOf(Byte(w, 4)) = CellAt(n) /\ Byte(w, 12) = j.a[CellAt(n)]
    BY <2>1, <1>6
  <2>3. /\ out.tag = flit.tag /\ out.class = 2 /\ out.opcode = 0
        /\ out.data = TokenWord(make_load_token(0, CellAt(n), j.a[CellAt(n)]))
    BY <1>0, <1>3, <1>5, <1>9
  <2>4. QED BY <2>2, <2>3, <1>0, <1>9 DEF flit, out
<1>10. CASE n \in Cells + 1..2 * Cells
  <2>1. CellAt(n - Cells) \in Cell /\ j.b[CellAt(n - Cells)] \in 0..255
    BY <1>0, <1>2, <1>10, CellNumbers
  <2>2. LET w == TokenWord(make_load_token(1, CellAt(n - Cells), j.b[CellAt(n - Cells)]))
        IN  /\ Bit(w, 2) /\ (Bit(w, 3) <=> 1 = 1)
            /\ CellOf(Byte(w, 4)) = CellAt(n - Cells) /\ Byte(w, 12) = j.b[CellAt(n - Cells)]
    BY <2>1, <1>6
  <2>3. /\ out.tag = flit.tag /\ out.class = 2 /\ out.opcode = 0
        /\ out.data = TokenWord(make_load_token(1, CellAt(n - Cells), j.b[CellAt(n - Cells)]))
    BY <1>0, <1>3, <1>5, <1>10
  <2>4. QED BY <2>2, <2>3, <1>0, <1>10 DEF flit, out
<1>11. CASE n = 2 * Cells + 1
  BY <1>0, <1>3, <1>5, <1>7, <1>11 DEF flit, out
<1>12. CASE n > 2 * Cells + 1
  <2>1. CellAt(n - 2 * Cells - 1) \in Cell
    BY <1>0, <1>12, CellNumbers
  <2>2. QED BY <2>1, <1>0, <1>4, <1>5, <1>8, <1>12 DEF flit, out
<1>13. QED BY <1>0, <1>9, <1>10, <1>11, <1>12

(***************************************************************************)
(* The helper's answers                                                    *)
(***************************************************************************)
\* Once A and B are loaded they are the job's, and so is the product.
LEMMA LoadedAll ==
  ASSUME job \in Jobs, NEW s, NEW m \in Nat, m >= 2 * Cells, Loaded(s, m)
  PROVE  SumOfProducts(s.a, s.b) = matmul(job)
<1>0. Cells \in Nat
  BY Sizes
<1>1. job.a \in [Cell -> 0..255] /\ job.b \in [Cell -> 0..255]
  BY SweepAssumption DEF Matrix
<1>2. s.a \in [Cell -> 0..255] /\ s.b \in [Cell -> 0..255]
  BY DEF Loaded, Matrix
<1>3. ASSUME NEW x \in Cell PROVE s.a[x] = job.a[x] /\ s.b[x] = job.b[x]
  <2>1. PICK n \in 1..Cells : CellAt(n) = x
    BY CellNumbers
  <2>2. n <= m /\ Cells + n <= m
    BY <1>0
  <2>3. QED BY <2>1, <2>2 DEF Loaded
<1>4. s.a = job.a /\ s.b = job.b
  BY <1>1, <1>2, <1>3
<1>5. QED BY <1>4 DEF matmul

LEMMA HandleRight ==
  ASSUME job \in Jobs, NEW s, StateOK(s), NEW k \in 1..StreamLength, Loaded(s, k - 1)
  PROVE  LET handled == handle_request(export_requests(job)[k], s)
         IN  Loaded(handled.state, k) /\ handled.answer = RightFlit(job, k)
<1> DEFINE flit == export_requests(job)[k]
           handled == handle_request(flit, s)
           tag == DispatchStream(job, 0)[k].tag
<1>0. Cells \in Nat \ {0} /\ StreamLength = 3 * Cells + 1
  BY Sizes
<1>1. /\ flit.tag = tag
      /\ k <= 2 * Cells + 1 => flit.class = 2 /\ flit.opcode = 0
      /\ k <= 2 * Cells => Bit(flit.data, 2)
      /\ k <= Cells =>
           /\ ~Bit(flit.data, 3)
           /\ CellOf(Byte(flit.data, 4)) = CellAt(k)
           /\ Byte(flit.data, 12) = job.a[CellAt(k)]
      /\ k \in Cells + 1..2 * Cells =>
           /\ Bit(flit.data, 3)
           /\ CellOf(Byte(flit.data, 4)) = CellAt(k - Cells)
           /\ Byte(flit.data, 12) = job.b[CellAt(k - Cells)]
      /\ k = 2 * Cells + 1 => ~Bit(flit.data, 2) /\ Bit(flit.data, 20)
      /\ k > 2 * Cells + 1 =>
           /\ flit.class = 1 /\ flit.opcode = 0 /\ flit.addr[1] = DISPATCH_ADDR
           /\ Bit(flit.addr[2], 21)
           /\ CellOf(Byte(flit.addr[2], 22)) = CellAt(k - 2 * Cells - 1)
           /\ DispatchStream(job, 0)[k].token.addr = CellAt(k - 2 * Cells - 1)
  BY ExportedFlits
<1>2. /\ k <= 2 * Cells + 1 => RightFlit(job, k) = AnswerFlit(4, 0, tag, 0)
      /\ k > 2 * Cells + 1 =>
           RightFlit(job, k) = AnswerFlit(3, 0, tag, matmul(job)[CellAt(k - 2 * Cells - 1)])
  BY <1>0, <1>1 DEF RightFlit
<1>3. /\ s.a \in [Cell -> 0..255] /\ s.b \in [Cell -> 0..255]
      /\ job.a \in [Cell -> 0..255] /\ job.b \in [Cell -> 0..255]
  BY SweepAssumption DEF Loaded, Matrix
<1>4. \A n \in 1..Cells : CellAt(n) \in Cell
  BY CellNumbers
<1> HIDE DEF flit, tag
<1>5. CASE k <= Cells
  <2> DEFINE x == CellAt(k)
             d == job.a[x]
  <2>1. x \in Cell /\ d \in 0..255
    BY <1>0, <1>3, <1>4, <1>5
  <2>2. LoadToken(s, flit.data) = [s EXCEPT !.a[x] = d]
    BY <1>0, <1>1, <1>5 DEF LoadToken
  <2>3. handled = Handled([s EXCEPT !.a[x] = d], AnswerFlit(4, 0, tag, 0))
    BY <1>0, <1>1, <1>5, <2>2 DEF handle_request
  <2>4. handled.state = [s EXCEPT !.a[x] = d] /\ handled.answer = AnswerFlit(4, 0, tag, 0)
    BY <2>3 DEF Handled
  <2> DEFINE n == [s EXCEPT !.a[x] = d]
  <2> HIDE DEF d, handled
  <2>5. n.a = [s.a EXCEPT ![x] = d] /\ n.b = s.b /\ n.c = s.c /\ n.computed = s.computed
    BY DEF StateOK
  <2> HIDE DEF n
  <2>6. n.a \in Matrix(0..255) /\ n.b \in Matrix(0..255)
    BY <1>3, <2>1, <2>5 DEF Matrix
  <2>7. ASSUME NEW l \in 1..Cells, l <= k PROVE n.a[CellAt(l)] = job.a[CellAt(l)]
    <3>1. CellAt(l) \in Cell
      BY <1>4
    <3>2. CASE CellAt(l) = x
      BY <1>3, <2>1, <2>5, <3>2 DEF d
    <3>3. CASE CellAt(l) # x
      <4>1. l <= k - 1
        BY <1>0, <2>7, <3>3
      <4>2. n.a[CellAt(l)] = s.a[CellAt(l)]
        BY <1>3, <2>1, <2>5, <3>1, <3>3
      <4>3. QED BY <4>1, <4>2 DEF Loaded
    <3>4. QED BY <3>2, <3>3
  <2> HIDE DEF x
  <2>8. /\ \A l \in 1..Cells : ~(Cells + l <= k)
        /\ ~(k > 2 * Cells) /\ ~(k - 1 > 2 * Cells)
    BY <1>0, <1>5
  <2>9. Loaded(n, k)
    BY <2>5, <2>6, <2>7, <2>8 DEF Loaded
  <2>10. QED BY <1>0, <1>2, <1>5, <2>4, <2>9 DEF n, handled, flit
<1>6. CASE k \in Cells + 1..2 * Cells
  <2> DEFINE x == CellAt(k - Cells)
             d == job.b[x]
  <2>1. x \in Cell /\ d \in 0..255
    BY <1>0, <1>3, <1>4, <1>6
  <2>2. LoadToken(s, flit.data) = [s EXCEPT !.b[x] = d]
    BY <1>0, <1>1, <1>6 DEF LoadToken
  <2>3. handled = Handled([s EXCEPT !.b[x] = d], AnswerFlit(4, 0, tag, 0))
    BY <1>0, <1>1, <1>6, <2>2 DEF handle_request
  <2>4. handled.state = [s EXCEPT !.b[x] = d] /\ handled.answer = AnswerFlit(4, 0, tag, 0)
    BY <2>3 DEF Handled
  <2> DEFINE n == [s EXCEPT !.b[x] = d]
  <2> HIDE DEF d, handled
  <2>5. n.b = [s.b EXCEPT ![x] = d] /\ n.a = s.a /\ n.c = s.c /\ n.computed = s.computed
    BY DEF StateOK
  <2> HIDE DEF n
  <2>6. n.a \in Matrix(0..255) /\ n.b \in Matrix(0..255)
    BY <1>3, <2>1, <2>5 DEF Matrix
  <2>7. ASSUME NEW l \in 1..Cells, Cells + l <= k PROVE n.b[CellAt(l)] = job.b[CellAt(l)]
    <3>1. CellAt(l) \in Cell
      BY <1>4
    <3>2. CASE CellAt(l) = x
      BY <1>3, <2>1, <2>5, <3>2 DEF d
    <3>3. CASE CellAt(l) # x
      <4>1. Cells + l <= k - 1
        BY <1>0, <2>7, <3>3
      <4>2. n.b[CellAt(l)] = s.b[CellAt(l)]
        BY <1>3, <2>1, <2>5, <3>1, <3>3
      <4>3. QED BY <4>1, <4>2 DEF Loaded
    <3>4. QED BY <3>2, <3>3
  <2> HIDE DEF x
  <2>8. /\ \A l \in 1..Cells : l <= k - 1
        /\ ~(k > 2 * Cells) /\ ~(k - 1 > 2 * Cells)
    BY <1>0, <1>6
  <2>9. Loaded(n, k)
    BY <2>5, <2>6, <2>7, <2>8 DEF Loaded
  <2>10. QED BY <1>0, <1>2, <1>6, <2>4, <2>9 DEF n, handled, flit
<1>7. CASE k > 2 * Cells
  <2> DEFINE n == compute_if_needed(s)
             product == SumOfProducts(s.a, s.b)
  <2>1. k - 1 \in Nat /\ k - 1 >= 2 * Cells
    BY <1>0, <1>7
  <2>2. product = matmul(job)
    BY <2>1, LoadedAll
  <2>3. ~s.computed => n = [s EXCEPT !.c = product, !.computed = TRUE]
    BY DEF compute_if_needed
  <2>3a. s.computed => n = s
    BY DEF compute_if_needed
  <2> HIDE DEF product, n
  <2>4. n.a = s.a /\ n.b = s.b /\ n.computed = TRUE /\ n.c = matmul(job)
    <3>1. CASE s.computed
      BY <2>3a, <3>1 DEF Loaded, StateOK
    <3>2. CASE ~s.computed
      BY <2>2, <2>3, <3>2 DEF StateOK
    <3>3. QED BY <3>1, <3>2
  <2>5. \A l \in 1..Cells : l <= k - 1 /\ Cells + l <= k - 1
    BY <1>0, <1>7
  <2>6. Loaded(n, k)
    BY <1>7, <2>4, <2>5 DEF Loaded
  <2>7. CASE k = 2 * Cells + 1
    <3>1. handled = Handled(n, AnswerFlit(4, 0, tag, 0))
      BY <1>0, <1>1, <2>7 DEF handle_request, n
    <3>2. QED BY <1>0, <1>2, <2>6, <2>7, <3>1 DEF Handled, flit
  <2>8. CASE k > 2 * Cells + 1
    <3>1. handled = Handled(n, AnswerFlit(3, 0, tag, n.c[CellAt(k - 2 * Cells - 1)]))
      BY <1>0, <1>1, <2>8 DEF handle_request, n
    <3>2. QED BY <1>0, <1>2, <2>4, <2>6, <2>8, <3>1 DEF Handled, flit
  <2>9. QED BY <1>0, <1>7, <2>7, <2>8
<1>8. QED BY <1>0, <1>5, <1>6, <1>7

(***************************************************************************)
(* The validator                                                           *)
(***************************************************************************)
\* A message is kept as the right one exactly if the validator's three checks
\* pass on it.
LEMMA KeptRight ==
  ASSUME NEW j \in Jobs, NEW n \in 1..StreamLength,
         NEW class, NEW opcode, NEW tag, NEW addr, NEW data
  PROVE  LET m == Msg(class, opcode, tag, addr, data)
         IN  Kept(m) = Kept(RightMsg(j, n)) <=>
               /\ m.tag = DispatchStream(j, 0)[n].tag
               /\ Acceptable(m, n)
               /\ n > 2 * Cells + 1 =>
                    OrElse(m.data, 0) % 2^24 = matmul(j)[CellAt(n - 2 * Cells - 1)]
<1> DEFINE m == Msg(class, opcode, tag, addr, data)
           t == DispatchStream(j, 0)[n].tag
           v == matmul(j)[CellAt(n - 2 * Cells - 1)]
<1>0. Cells \in Nat \ {0} /\ StreamLength = 3 * Cells + 1
  BY Sizes
<1>1. \A x, d : OrElse(Some(x), d) = x
  BY DEF OrElse, Some, None
<1>2. {d % 2^24 : d \in {}} = {} /\ \A x : {d % 2^24 : d \in {x}} = {x % 2^24}
  OBVIOUS
<1>3. Kept(m) = [class |-> class, opcode |-> opcode, tag |-> tag,
                 addr |-> IF class \in HasAddress THEN Some(addr) ELSE None,
                 data |-> IF class \in HasData THEN {data % 2^24} ELSE {}]
  <2>1. m = [class |-> class, opcode |-> opcode, tag |-> tag,
             addr |-> IF class \in HasAddress THEN Some(addr) ELSE None,
             data |-> IF class \in HasData THEN {data} ELSE {}]
    BY DEF Msg, Some, None
  <2>2. Kept(m) = [class |-> class, opcode |-> opcode, tag |-> tag,
                   addr |-> IF class \in HasAddress THEN Some(addr) ELSE None,
                   data |-> {d % 2^24 : d \in IF class \in HasData THEN {data} ELSE {}}]
    BY <2>1 DEF Kept
  <2>3. {d % 2^24 : d \in IF class \in HasData THEN {data} ELSE {}} =
          IF class \in HasData THEN {data % 2^24} ELSE {}
    OBVIOUS
  <2>4. QED BY <2>2, <2>3
<1>4. CASE n <= 2 * Cells + 1
  <2>1. RightMsg(j, n) = [class |-> "S2MNDR", opcode |-> "Cmp", tag |-> t, addr |-> {}, data |-> {}]
    BY <1>4 DEF RightMsg, Answer, Response, Msg, HasAddress, HasData, None
  <2>2. Kept(RightMsg(j, n)) = [class |-> "S2MNDR", opcode |-> "Cmp", tag |-> t, addr |-> {}, data |-> {}]
    BY <2>1, <1>2 DEF Kept
  <2>3. m.tag = tag /\ m.class = class /\ m.opcode = opcode
    BY DEF Msg
  <2> HIDE DEF m, t, v
  <2>4. Kept(m) = Kept(RightMsg(j, n)) <=> class = "S2MNDR" /\ opcode = "Cmp" /\ tag = t
    BY <1>3, <2>2 DEF HasAddress, HasData, None
  <2>5. Acceptable(m, n) <=> class = "S2MNDR" /\ opcode = "Cmp"
    BY <1>4, <2>3 DEF Acceptable, IsCmp
  <2>6. ~(n > 2 * Cells + 1)
    BY <1>0, <1>4
  <2>7. QED BY <2>3, <2>4, <2>5, <2>6 DEF m, t
<1>5. CASE n > 2 * Cells + 1
  <2>1. CellAt(n - 2 * Cells - 1) \in Cell
    BY <1>0, <1>5, CellNumbers
  <2>2. v \in Nat /\ v < 2^24
    <3>1. j.a \in Matrix(0..255) /\ j.b \in Matrix(0..255)
      BY SweepAssumption
    <3>2. QED BY <2>1, <3>1, SumBound DEF matmul
  <2>3. RightMsg(j, n) = [class |-> "S2MDRS", opcode |-> "MemData", tag |-> t, addr |-> {}, data |-> {v}]
    <3>1. DispatchStream(j, 0)[n].token.addr = CellAt(n - 2 * Cells - 1) /\ ~(n <= 2 * Cells + 1)
      BY <1>0, <1>5, ExportedFlits
    <3>2. QED BY <3>1 DEF RightMsg, Answer, Response, Msg, HasAddress, HasData, None, Some
  <2>4. m.tag = tag /\ m.class = class /\ m.opcode = opcode /\ (class = "S2MDRS" => OrElse(m.data, 0) = data)
    BY <1>1 DEF Msg, HasData
  <2> HIDE DEF m, t, v
  <2>5. v % 2^24 = v
    BY <2>2
  <2>6. Kept(RightMsg(j, n)) = [class |-> "S2MDRS", opcode |-> "MemData", tag |-> t, addr |-> {}, data |-> {v}]
    <3>1. {d % 2^24 : d \in {v}} = {v}
      BY <2>5
    <3>2. Kept(RightMsg(j, n)) = [class |-> "S2MDRS", opcode |-> "MemData", tag |-> t, addr |-> {},
                                  data |-> {d % 2^24 : d \in {v}}]
      <4> DEFINE r == RightMsg(j, n)
                 kept == {d % 2^24 : d \in r.data}
      <4>1. r = [class |-> "S2MDRS", opcode |-> "MemData", tag |-> t, addr |-> {}, data |-> {v}]
        BY <2>3
      <4>2. Kept(r) = [r EXCEPT !.data = kept]
        BY DEF Kept
      <4>3. r.data = {v}
        BY <4>1
      <4>4. kept = {d % 2^24 : d \in {v}}
        BY <4>3
      <4> HIDE DEF kept, r
      <4>5. [r EXCEPT !.data = kept] = [class |-> "S2MDRS", opcode |-> "MemData", tag |-> t,
                                        addr |-> {}, data |-> kept]
        BY <4>1
      <4>6. QED BY <4>2, <4>4, <4>5 DEF r
    <3>3. QED BY <3>1, <3>2
  <2>7. Kept(m) = Kept(RightMsg(j, n)) <=>
          class = "S2MDRS" /\ opcode = "MemData" /\ tag = t /\ data % 2^24 = v
    <3> DEFINE e == data % 2^24
    <3> HIDE DEF e
    <3>1. Kept(m) = [class |-> class, opcode |-> opcode, tag |-> tag,
                     addr |-> IF class \in HasAddress THEN Some(addr) ELSE None,
                     data |-> IF class \in HasData THEN {e} ELSE {}]
      BY <1>3 DEF e
    <3>2. Kept(m) = Kept(RightMsg(j, n)) <=>
            class = "S2MDRS" /\ opcode = "MemData" /\ tag = t /\ e = v
      BY <3>1, <2>6 DEF HasAddress, HasData, None
    <3>3. QED BY <3>2 DEF e
  <2>8. Acceptable(m, n) <=> class = "S2MDRS" /\ opcode = "MemData"
    BY <1>0, <1>5, <2>4 DEF Acceptable, IsMemData
  <2>9. QED BY <1>5, <2>4, <2>7, <2>8 DEF m, t, v
<1>6. QED BY <1>0, <1>4, <1>5

\* If every message is acceptable at its place, the reads are the last of them.
LEMMA ReadsCollected ==
  ASSUME NEW M, NEW msgs \in Seq(M), Len(msgs) = StreamLength,
         \A n \in 1..StreamLength : Acceptable(msgs[n], n)
  PROVE  /\ Len(read_responses(msgs)) = Cells
         /\ \A k \in 1..Cells : read_responses(msgs)[k] = msgs[2 * Cells + 1 + k]
<1> DEFINE N == Len(msgs)
           S == Seq(M)
           Takes(n) == n > 2 * Cells + 1 /\ IsMemData(msgs[n])
           Collects(f) == f = [n \in 0..Len(msgs) |->
                                 CASE n = 0 -> <<>>
                                   [] n > 2 * Cells + 1 /\ IsMemData(msgs[n]) -> Append(f[n - 1], msgs[n])
                                   [] OTHER -> f[n - 1]]
           upto == CHOOSE f : Collects(f)
           step == [p \in (1..N) \X S |-> IF Takes(p[1]) THEN Append(p[2], msgs[p[1]]) ELSE p[2]]
<1>0. Cells \in Nat \ {0} /\ StreamLength = 3 * Cells + 1 /\ N = StreamLength /\ N \in Nat
  BY Sizes
<1>1. \E f : Collects(f)
  <2>1. step \in StepFunctions(N, S)
    <3>1. ASSUME NEW p \in (1..N) \X S
          PROVE  (IF Takes(p[1]) THEN Append(p[2], msgs[p[1]]) ELSE p[2]) \in S
      <4>1. p[1] \in 1..Len(msgs) /\ p[2] \in Seq(M)
        OBVIOUS
      <4>2. msgs[p[1]] \in M
        BY <4>1
      <4> DEFINE n == p[1]
                 x == msgs[n]
      <4> HIDE DEF Takes, n, x
      <4>3. Append(p[2], x) \in S
        BY <4>1, <4>2 DEF x, n
      <4>4. QED BY <4>1, <4>3 DEF x, n
    <3> HIDE DEF Takes, S, N
    <3>2. QED BY <3>1 DEF StepFunctions
  <2>2. <<>> \in S
    OBVIOUS
  <2>3. PICK f : Unfolds(f, N, S, <<>>, step)
    <3> HIDE DEF step, S, N
    <3>1. QED BY <1>0, <2>1, <2>2, Recursion
  <2>4. f \in [0..N -> S] /\ f[0] = <<>>
    BY <2>3 DEF Unfolds
  <2>5. ASSUME NEW n \in 1..N
        PROVE  f[n] = IF Takes(n) THEN Append(f[n - 1], msgs[n]) ELSE f[n - 1]
    <3>1. <<n, f[n - 1]>> \in (1..N) \X S
      <4>1. N \in Nat
        BY <1>0
      <4> HIDE DEF N, S
      <4>2. f[n - 1] \in S
        BY <2>4, <4>1
      <4>3. QED BY <4>2
    <3>2. f[n] = step[<<n, f[n - 1]>>]
      BY <2>3 DEF Unfolds
    <3> HIDE DEF Takes, S, N
    <3>3. QED BY <3>1, <3>2
  <2>6. f = [n \in 0..N |-> f[n]]
    BY <2>4
  <2>7. ASSUME NEW n \in 0..N
        PROVE  f[n] = CASE n = 0 -> <<>>
                        [] Takes(n) -> Append(f[n - 1], msgs[n])
                        [] OTHER -> f[n - 1]
    <3>1. ~Takes(0)
      BY <1>0
    <3> HIDE DEF Takes
    <3>2. CASE n = 0
      BY <2>4, <3>1, <3>2
    <3>3. CASE n # 0
      <4>1. n \in 1..N
        BY <1>0, <3>3
      <4>2. QED BY <2>5, <3>3, <4>1
    <3>4. QED BY <3>2, <3>3
  <2>8. Collects(f)
    BY <2>6, <2>7, Zenon
  <2> HIDE DEF Collects
  <2>9. QED BY <2>8
<1>2. Collects(upto)
  <2> HIDE DEF Collects
  <2>1. QED BY <1>1
<1>3. read_responses(msgs) = upto[N]
  BY DEF read_responses
<1>4. \A n \in 1..N : Takes(n) <=> n > 2 * Cells + 1
  BY <1>0 DEF Acceptable
<1>5. upto[0] = <<>>
  <2> HIDE DEF upto
  <2>1. 0 \in 0..N
    BY <1>0
  <2>2. ~(0 > 2 * Cells + 1)
    BY <1>0
  <2>3. QED BY <1>2, <2>1, <2>2
<1>6. ASSUME NEW n \in 1..N
      PROVE  upto[n] = IF n > 2 * Cells + 1 THEN Append(upto[n - 1], msgs[n]) ELSE upto[n - 1]
  <2> HIDE DEF upto
  <2>1. n \in 0..N /\ n # 0
    BY <1>0
  <2>2. upto[n] = CASE n = 0 -> <<>>
                    [] n > 2 * Cells + 1 /\ IsMemData(msgs[n]) -> Append(upto[n - 1], msgs[n])
                    [] OTHER -> upto[n - 1]
    BY <1>2, <2>1
  <2>3. n > 2 * Cells + 1 /\ IsMemData(msgs[n]) <=> n > 2 * Cells + 1
    BY <1>4
  <2>4. QED BY <2>1, <2>2, <2>3, Zenon
<1> DEFINE len == [n \in 0..N |-> IF n <= 2 * Cells + 1 THEN 0 ELSE n - 2 * Cells - 1]
           T == {n \in 0..N : /\ upto[n] \in Seq(M) /\ Len(upto[n]) = len[n]
                              /\ \A k \in 1..len[n] : upto[n][k] = msgs[2 * Cells + 1 + k]}
<1> HIDE DEF upto, Takes, Collects, step, N
<1>7. /\ len[0] = 0 /\ len[N] = Cells
      /\ \A n \in 1..N : /\ len[n - 1] \in Nat
                         /\ n <= 2 * Cells + 1 => len[n] = len[n - 1]
                         /\ n > 2 * Cells + 1 => len[n] = len[n - 1] + 1 /\ n = 2 * Cells + 1 + len[n]
  BY <1>0
<1>8. \A n \in 1..N : msgs[n] \in M
  BY DEF N
<1> HIDE DEF len
<1>9. 0..N \subseteq T
  <2>1. 0 \in T
    <3>1. 0 \in 0..N
      BY <1>0
    <3>2. upto[0] \in Seq(M) /\ Len(upto[0]) = 0
      BY <1>5
    <3>3. len[0] = 0
      BY <1>7
    <3>4. QED BY <3>1, <3>2, <3>3
  <2>2. ASSUME NEW n \in 1..N, n - 1 \in T PROVE n \in T
    <3> DEFINE q == upto[n - 1]
               l == len[n - 1]
    <3>0. N \in Nat
      BY <1>0
    <3>1. n \in 0..N /\ l \in Nat
      <4>1. n \in 0..N
        BY <3>0
      <4>2. l \in Nat
        BY <1>7
      <4>3. QED BY <4>1, <4>2
    <3>2. q \in Seq(M) /\ Len(q) = l /\ \A k \in 1..l : q[k] = msgs[2 * Cells + 1 + k]
      BY <2>2
    <3>3. CASE n <= 2 * Cells + 1
      <4>1. ~(n > 2 * Cells + 1)
        BY <1>0, <3>3
      <4>2. upto[n] = q /\ len[n] = l
        BY <1>6, <1>7, <3>3, <4>1
      <4>3. QED BY <3>1, <3>2, <4>2
    <3>4. CASE n > 2 * Cells + 1
      <4>1. upto[n] = Append(q, msgs[n]) /\ msgs[n] \in M
        BY <1>6, <1>8, <3>4
      <4>2. len[n] = l + 1 /\ n = 2 * Cells + 1 + (l + 1)
        BY <1>7, <3>4
      <4> HIDE DEF q, l
      <4>3. /\ upto[n] \in Seq(M) /\ Len(upto[n]) = l + 1 /\ upto[n][l + 1] = msgs[n]
            /\ \A k \in 1..l : upto[n][k] = q[k]
        BY <3>1, <3>2, <4>1
      <4>4. ASSUME NEW k \in 1..l + 1 PROVE upto[n][k] = msgs[2 * Cells + 1 + k]
        <5>1. k \in 1..l \/ k = l + 1
          BY <3>1
        <5>2. QED BY <3>2, <4>2, <4>3, <5>1
      <4>5. QED BY <3>1, <4>2, <4>3, <4>4
    <3>5. n <= 2 * Cells + 1 \/ n > 2 * Cells + 1
      <4>1. n \in Nat /\ Cells \in Nat
        BY <1>0
      <4>2. QED BY <4>1
    <3>6. QED BY <3>3, <3>4, <3>5
  <2> HIDE DEF T
  <2>3. QED BY <1>0, <2>1, <2>2, BoundedInduction
<1>10. N \in T
  <2> HIDE DEF T
  <2>1. N \in 0..N
    BY <1>0
  <2>2. QED BY <1>9, <2>1
<1>11. QED BY <1>3, <1>7, <1>10

LEMMA DecodedOne ==
  ASSUME NEW f, decode(f).error = "none"
  PROVE  \E class, opcode : decode(f).msg = {Msg(class, opcode, f.tag, f.addr, f.data)}
<1>1. f.reserved = 0 /\ f.class \in DOMAIN MsgClass
  BY DEF decode, Decoded
<1>2. f.opcode \in DOMAIN Opcodes[MsgClass[f.class]]
  BY <1>1 DEF decode, Decoded
<1>3. decode(f).msg = Some(Msg(MsgClass[f.class], Opcodes[MsgClass[f.class]][f.opcode],
                               f.tag, f.addr, f.data))
  BY <1>1, <1>2 DEF decode, Decoded
<1>4. QED BY <1>3 DEF Some

\* The status of a file is "pass" exactly for the right answers: no damage that
\* decodes slips through the counts, and none that matters is overlooked.
LEMMA ValidatesExactly ==
  ASSUME NEW j \in Jobs, NEW file, IsSeq(file.flits)
  PROVE  \A s \in validate_responses(j, file) : s = "pass" <=> RightAnswers(j, file)
<1> DEFINE q == file.flits
           L == Len(q)
           decoded == [n \in DOMAIN q |-> decode(q[n])]
           msgs == [n \in DOMAIN decoded |-> CHOOSE m \in decoded[n].msg : TRUE]
<1>0. Cells \in Nat \ {0} /\ StreamLength = 3 * Cells + 1 /\ StreamLength \in Nat
  BY Sizes
<1>1. DOMAIN q = 1..L /\ L \in Nat
  BY DEF IsSeq
<1>2. SUFFICES ASSUME ~file.partial, \A n \in 1..L : decode(q[n]).error = "none"
               PROVE  Status(j, msgs) = "pass" <=> RightAnswers(j, file)
  <2>1. validate_responses(j, file) =
          IF file.partial \/ \E n \in DOMAIN decoded : decoded[n].error # "none"
          THEN {} ELSE {Status(j, msgs)}
    BY DEF validate_responses, None, Some
  <2>2. (\E n \in DOMAIN decoded : decoded[n].error # "none") <=>
          \E n \in 1..L : decode(q[n]).error # "none"
    BY <1>1
  <2> HIDE DEF decoded, msgs, q, L
  <2>3. QED BY <2>1, <2>2
<1>3. \A n \in 1..L : decoded[n] = decode(q[n])
  BY <1>1
<1>4. DOMAIN msgs = 1..L /\ \A n \in 1..L : msgs[n] = CHOOSE m \in decode(q[n]).msg : TRUE
  BY <1>1
<1>5. ASSUME NEW n \in 1..L
      PROVE  \E class, opcode : /\ decode(q[n]).msg = {msgs[n]}
                                /\ msgs[n] = Msg(class, opcode, q[n].tag, q[n].addr, q[n].data)
  <2>1. PICK class, opcode : decode(q[n]).msg = {Msg(class, opcode, q[n].tag, q[n].addr, q[n].data)}
    BY <1>2, DecodedOne
  <2> DEFINE x == Msg(class, opcode, q[n].tag, q[n].addr, q[n].data)
  <2> HIDE DEF x, msgs, decoded
  <2>2. (CHOOSE m \in {x} : TRUE) = x
    OBVIOUS
  <2>3. msgs[n] = x
    <3>1. decode(q[n]).msg = {x}
      BY <2>1 DEF x
    <3>2. msgs[n] = CHOOSE m \in decode(q[n]).msg : TRUE
      BY <1>4
    <3>3. QED BY <2>2, <3>1, <3>2
  <2>4. QED BY <2>1, <2>3 DEF x
<1>6. ASSUME NEW n \in 1..L, n <= StreamLength
      PROVE  {Kept(m) : m \in decode(q[n]).msg} = {Kept(RightMsg(j, n))} <=>
               /\ msgs[n].tag = DispatchStream(j, 0)[n].tag
               /\ Acceptable(msgs[n], n)
               /\ n > 2 * Cells + 1 =>
                    OrElse(msgs[n].data, 0) % 2^24 = matmul(j)[CellAt(n - 2 * Cells - 1)]
  <2>1. PICK class, opcode : /\ decode(q[n]).msg = {msgs[n]}
                             /\ msgs[n] = Msg(class, opcode, q[n].tag, q[n].addr, q[n].data)
    BY <1>5
  <2> DEFINE x == msgs[n]
  <2> HIDE DEF msgs, decoded
  <2>2. n \in 1..StreamLength
    BY <1>0, <1>1, <1>6
  <2>3. Kept(x) = Kept(RightMsg(j, n)) <=>
               /\ x.tag = DispatchStream(j, 0)[n].tag
               /\ Acceptable(x, n)
               /\ n > 2 * Cells + 1 =>
                    OrElse(x.data, 0) % 2^24 = matmul(j)[CellAt(n - 2 * Cells - 1)]
    BY <2>1, <2>2, KeptRight
  <2>4. {Kept(m) : m \in decode(q[n]).msg} = {Kept(x)}
    BY <2>1
  <2>5. {Kept(x)} = {Kept(RightMsg(j, n))} <=> Kept(x) = Kept(RightMsg(j, n))
    OBVIOUS
  <2>6. QED BY <2>3, <2>4, <2>5
<1> DEFINE reads == read_responses(msgs)
<1>7. msgs \in Seq({msgs[n] : n \in 1..L}) /\ Len(msgs) = L
  <2>1. msgs = [n \in 1..L |-> msgs[n]]
    BY <1>1
  <2> HIDE DEF msgs, L, q
  <2>2. msgs \in [1..L -> {msgs[n] : n \in 1..L}]
    BY <2>1
  <2>3. QED BY <1>1, <2>2
<1> HIDE DEF msgs, decoded, reads
<1>8. RightAnswers(j, file) <=>
        /\ L = StreamLength
        /\ \A n \in 1..StreamLength :
             /\ msgs[n].tag = DispatchStream(j, 0)[n].tag
             /\ Acceptable(msgs[n], n)
             /\ n > 2 * Cells + 1 =>
                  OrElse(msgs[n].data, 0) % 2^24 = matmul(j)[CellAt(n - 2 * Cells - 1)]
  <2>1. RightAnswers(j, file) <=>
          /\ L = StreamLength
          /\ \A n \in 1..StreamLength :
               /\ decode(q[n]).error = "none"
               /\ {Kept(m) : m \in decode(q[n]).msg} = {Kept(RightMsg(j, n))}
    BY <1>2 DEF RightAnswers
  <2> HIDE DEF q, L
  <2>2. CASE L = StreamLength
    <3>1. \A n \in 1..StreamLength : n \in 1..L /\ n <= StreamLength
      BY <1>0, <2>2
    <3>2. QED BY <1>2, <1>6, <2>1, <2>2, <3>1
  <2>3. CASE L # StreamLength
    BY <2>1, <2>3
  <2>4. QED BY <2>2, <2>3
<1>9. Status(j, msgs) = "pass" <=>
        /\ L = StreamLength
        /\ \A n \in 1..StreamLength :
             msgs[n].tag = DispatchStream(j, 0)[n].tag /\ Acceptable(msgs[n], n)
        /\ (IF Len(reads) = Cells THEN decode_results(reads) ELSE ZeroMatrix) = matmul(j)
  <2> DEFINE mismatches == {n \in 1..Len(msgs) : n <= StreamLength /\ msgs[n].tag # DispatchStream(j, 0)[n].tag}
             failures == {n \in 1..Len(msgs) : ~Acceptable(msgs[n], n)}
             result == IF Len(reads) = Cells THEN decode_results(reads) ELSE ZeroMatrix
  <2>1. Status(j, msgs) = IF /\ Len(msgs) = StreamLength
                             /\ mismatches = {} /\ failures = {}
                             /\ result = matmul(j)
                          THEN "pass" ELSE "fail"
    BY DEF Status, reads
  <2> HIDE DEF q, L, result
  <2>2. L = StreamLength =>
          (mismatches = {} /\ failures = {} <=>
             \A n \in 1..StreamLength :
               msgs[n].tag = DispatchStream(j, 0)[n].tag /\ Acceptable(msgs[n], n))
    BY <1>0, <1>7
  <2> HIDE DEF mismatches, failures
  <2>3. QED BY <1>7, <2>1, <2>2 DEF result
<1>10. ASSUME L = StreamLength, \A n \in 1..StreamLength : Acceptable(msgs[n], n)
       PROVE  (IF Len(reads) = Cells THEN decode_results(reads) ELSE ZeroMatrix) = matmul(j) <=>
                \A n \in 1..StreamLength :
                  n > 2 * Cells + 1 =>
                    OrElse(msgs[n].data, 0) % 2^24 = matmul(j)[CellAt(n - 2 * Cells - 1)]
  <2> DEFINE M == {msgs[n] : n \in 1..L}
             kept == [n \in 1..StreamLength |-> OrElse(msgs[n].data, 0) % 2^24]
             right == matmul(j)
             at == [x \in Cell |-> x[1] * Dim + x[2] + 1]
  <2>1. Len(reads) = Cells /\ \A k \in 1..Cells : reads[k] = msgs[2 * Cells + 1 + k]
    <3> HIDE DEF M, L
    <3>1. msgs \in Seq(M) /\ Len(msgs) = StreamLength
      BY <1>7, <1>10 DEF M
    <3>2. QED BY <1>10, <3>1, ReadsCollected DEF reads
  <2>2. \A x \in Cell : at[x] \in 1..Cells /\ CellAt(at[x]) = x /\ at[x] = x[1] * Dim + x[2] + 1
    BY CellNumbers
  <2> HIDE DEF at
  <2>3. \A x \in Cell : OrElse(reads[at[x]].data, 0) % 2^24 = kept[2 * Cells + 1 + at[x]]
    <3>1. ASSUME NEW x \in Cell PROVE OrElse(reads[at[x]].data, 0) % 2^24 = kept[2 * Cells + 1 + at[x]]
      <4>1. at[x] \in 1..Cells
        BY <2>2
      <4>2. 2 * Cells + 1 + at[x] \in 1..StreamLength
        BY <1>0, <4>1
      <4>3. reads[at[x]] = msgs[2 * Cells + 1 + at[x]]
        BY <2>1, <4>1
      <4>4. QED BY <4>2, <4>3
    <3>2. QED BY <3>1
  <2>4. decode_results(reads) = [x \in Cell |-> OrElse(reads[at[x]].data, 0) % 2^24]
    BY <2>2 DEF decode_results
  <2>5. right = [x \in Cell |-> right[x]]
    BY DEF matmul, SumOfProducts
  <2> HIDE DEF right
  <2>6. decode_results(reads) = right <=> \A x \in Cell : kept[2 * Cells + 1 + at[x]] = right[x]
    <3> HIDE DEF kept
    <3>1. decode_results(reads) = [x \in Cell |-> kept[2 * Cells + 1 + at[x]]]
      BY <2>3, <2>4
    <3>2. QED BY <2>5, <3>1
  <2>7. (\A x \in Cell : kept[2 * Cells + 1 + at[x]] = right[x]) <=>
          \A n \in 1..StreamLength : n > 2 * Cells + 1 => kept[n] = right[CellAt(n - 2 * Cells - 1)]
    <3> HIDE DEF kept
    <3>1. ASSUME \A x \in Cell : kept[2 * Cells + 1 + at[x]] = right[x],
                 NEW n \in 1..StreamLength, n > 2 * Cells + 1
          PROVE  kept[n] = right[CellAt(n - 2 * Cells - 1)]
      <4> DEFINE x == CellAt(n - 2 * Cells - 1)
      <4>1. n - 2 * Cells - 1 \in 1..Cells
        BY <1>0, <3>1
      <4>2. x \in Cell /\ at[x] = n - 2 * Cells - 1
        <5>1. x \in Cell
          BY <4>1, CellNumbers
        <5>2. at[x] = x[1] * Dim + x[2] + 1
          BY <2>2, <5>1
        <5>3. x[1] * Dim + x[2] = n - 2 * Cells - 1 - 1
          <6>1. ASSUME NEW m \in Nat PROVE (m \div Dim) * Dim + (m % Dim) = m
            BY Sizes
          <6>2. n - 2 * Cells - 1 - 1 \in Nat
            BY <1>0, <4>1
          <6>3. QED BY <6>1, <6>2 DEF CellAt
        <5>4. QED BY <1>0, <4>1, <5>1, <5>2, <5>3
      <4> HIDE DEF x
      <4>3. 2 * Cells + 1 + at[x] = n
        BY <1>0, <4>2
      <4>4. QED BY <3>1, <4>2, <4>3 DEF x
    <3>2. ASSUME \A n \in 1..StreamLength : n > 2 * Cells + 1 => kept[n] = right[CellAt(n - 2 * Cells - 1)],
                 NEW x \in Cell
          PROVE  kept[2 * Cells + 1 + at[x]] = right[x]
      <4> DEFINE n == 2 * Cells + 1 + at[x]
      <4>1. at[x] \in 1..Cells /\ CellAt(at[x]) = x
        BY <2>2
      <4>2. n \in 1..StreamLength /\ n > 2 * Cells + 1 /\ n - 2 * Cells - 1 = at[x]
        BY <1>0, <4>1
      <4> HIDE DEF n
      <4>3. QED BY <3>2, <4>1, <4>2 DEF n
    <3>3. QED BY <3>1, <3>2
  <2>8. QED BY <2>1, <2>6, <2>7 DEF right
<1> HIDE DEF q, L
<1>11. QED BY <1>8, <1>9, <1>10

(***************************************************************************)
(* The helper's answers are the right ones, and the summaries say so       *)
(***************************************************************************)
LEMMA SeqFacts ==
  ASSUME NEW S, NEW q \in Seq(S)
  PROVE  IsSeq(q)
<1>1. DOMAIN q = 1..Len(q) /\ Len(q) \in Nat /\ q = [n \in 1..Len(q) |-> q[n]]
  OBVIOUS
<1>2. q \in [1..Len(q) -> {q[n] : n \in DOMAIN q}]
  BY <1>1
<1>3. QED BY <1>1, <1>2 DEF IsSeq

LEMMA AppendFacts ==
  ASSUME NEW q, IsSeq(q), NEW x
  PROVE  LET r == Append(q, x)
         IN  /\ IsSeq(r) /\ Len(r) = Len(q) + 1 /\ Len(q) \in Nat
             /\ r[Len(q) + 1] = x /\ \A n \in 1..Len(q) : r[n] = q[n]
<1> DEFINE S == {q[n] : n \in DOMAIN q} \cup {x}
<1>1. q \in Seq(S) /\ x \in S
  <2>1. q \in Seq({q[n] : n \in DOMAIN q})
    BY DEF IsSeq
  <2>2. QED BY <2>1
<1> HIDE DEF S
<1>2. Append(q, x) \in Seq(S)
  BY <1>1
<1>3. IsSeq(Append(q, x))
  BY <1>2, SeqFacts
<1>4. QED BY <1>1, <1>3

\* A transfer keeps a file a sequence of FLITs.
LEMMA TransferFacts ==
  ASSUME NEW flits, IsSeq(flits), NEW damage, NEW file \in Transferred(flits, damage)
  PROVE  IsSeq(file.flits)
<1>1. CASE file = File(flits, FALSE)
  BY <1>1 DEF File
<1>2. ASSUME NEW kind, NEW n \in DOMAIN flits, file = Damaged(flits, kind, n)
      PROVE  IsSeq(file.flits)
  <2> DEFINE S == {flits[m] : m \in DOMAIN flits}
             f == [flits EXCEPT ![n] = Spoil(@, kind)]
             bad == Spoil(flits[n], kind)
  <2>1. flits \in Seq(S) /\ Len(flits) \in Nat \ {0} /\ DOMAIN flits = 1..Len(flits)
    BY DEF IsSeq
  <2>2. Front(flits) \in Seq(S) /\ Last(flits) \in S
    BY <2>1 DEF Front, Last
  <2>3. IsSeq(f)
    <3>1. f = [flits EXCEPT ![n] = bad]
      OBVIOUS
    <3> HIDE DEF bad, f, S
    <3>2. f \in Seq(S \cup {bad})
      BY <2>1, <3>1
    <3>3. QED BY <3>2, SeqFacts
  <2> HIDE DEF S, f
  <2>4. IsSeq(Front(flits)) /\ IsSeq(Append(flits, Last(flits)))
    BY <2>2, SeqFacts, AppendFacts
  <2>5. file.flits \in {Front(flits), Append(flits, Last(flits)), f}
    BY <1>2 DEF Damaged, File, f
  <2>6. QED BY <2>3, <2>4, <2>5
<1>3. QED BY <1>1, <1>2 DEF Transferred

LEMMA ExportLength ==
  /\ Len(export_requests(job)) = StreamLength
  /\ File(export_requests(job), FALSE).flits = export_requests(job)
<1>1. StreamLength \in Nat
  BY Sizes
<1>2. QED BY <1>1 DEF export_requests, File

\* One more answer.
LEMMA HandleStep ==
  ASSUME job \in Jobs, IsSeq(responses), UNCHANGED <<job, requests>>,
         requests = File(export_requests(job), FALSE),
         NEW s, StateOK(s), Loaded(s, Len(responses)),
         i \in 1..StreamLength, Len(responses) = i - 1,
         \A n \in 1..Len(responses) : responses[n] = RightFlit(job, n),
         Handle(s)
  PROVE  /\ IsSeq(responses') /\ Len(responses') = i
         /\ Loaded(state, Len(responses))'
         /\ \A n \in 1..Len(responses') : responses'[n] = RightFlit(job, n)
<1> DEFINE handled == handle_request(export_requests(job)[i], s)
<1>1. state' = handled.state /\ responses' = Append(responses, handled.answer)
  BY ExportLength DEF Handle
<1>2. Loaded(handled.state, i) /\ handled.answer = RightFlit(job, i)
  BY HandleRight
<1> HIDE DEF handled
<1>3. /\ IsSeq(responses') /\ Len(responses') = i /\ responses'[i] = RightFlit(job, i)
      /\ \A n \in 1..i - 1 : responses'[n] = responses[n]
  <2>1. i = Len(responses) + 1 /\ i - 1 = Len(responses)
    BY Sizes
  <2>2. QED BY <1>1, <1>2, <2>1, AppendFacts
<1>4. \A n \in 1..i : n \in 1..i - 1 \/ n = i
  BY Sizes
<1>5. Loaded(state', i)
  BY <1>1, <1>2
<1>6. Loaded(state, Len(responses))'
  BY <1>3, <1>5 DEF Loaded, matmul
<1>7. QED BY <1>3, <1>4, <1>6

\* A state that differs in what it counts has the same matrices.
LEMMA SameMatrices ==
  ASSUME StateOK(state), NEW v \in BOOLEAN, NEW m
  PROVE  /\ Loaded(state, m) => Loaded([state EXCEPT !.command_failures = @ \/ v], m)
         /\ Loaded(state, m) => Loaded([state EXCEPT !.bar2_readback_mismatches = @ \/ v], m)
<1>1. ASSUME NEW s, s.a = state.a, s.b = state.b, s.c = state.c, s.computed = state.computed
      PROVE  Loaded(state, m) => Loaded(s, m)
  BY <1>1 DEF Loaded
<1> DEFINE n == [state EXCEPT !.command_failures = @ \/ v]
           l == [state EXCEPT !.bar2_readback_mismatches = @ \/ v]
<1>2. /\ n.a = state.a /\ n.b = state.b /\ n.c = state.c /\ n.computed = state.computed
      /\ l.a = state.a /\ l.b = state.b /\ l.c = state.c /\ l.computed = state.computed
  BY DEF StateOK
<1> HIDE DEF n, l
<1>3. (Loaded(state, m) => Loaded(n, m)) /\ (Loaded(state, m) => Loaded(l, m))
  BY <1>1, <1>2
<1>4. QED BY <1>3 DEF n, l

LEMMA SameHelper ==
  ASSUME HelperInv, UNCHANGED <<job, requests, responses, state, i>>,
         gpc' = gpc \/ (gpc \in {"issue", "poll", "result"} /\ gpc' \in {"issue", "poll", "result"})
                    \/ (gpc \in {"write", "written"} /\ gpc' \in {"write", "written"})
  PROVE  HelperInv'
<1>1. export_requests(job)' = export_requests(job)
      /\ \A n : RightFlit(job, n)' = RightFlit(job, n)
  BY DEF export_requests, RightFlit, matmul
<1>2. Loaded(state, Len(responses))' <=> Loaded(state, Len(responses))
  BY DEF Loaded, matmul
<1>3. QED BY <1>1, <1>2 DEF HelperInv

LEMMA HelperStep ==
  ASSUME CarriedInv, job \in Jobs, IsSeq(responses), HelperInv, UNCHANGED job,
         GuestStep \/ Issue(TRUE)
  PROVE  IsSeq(responses') /\ HelperInv'
<1> DEFINE Given == requests = File(export_requests(job), FALSE)
           right == \A n \in 1..Len(responses) : responses[n] = RightFlit(job, n)
<1>0. StateOK(state) /\ requests' = requests
  BY DEF CarriedInv, GuestStep, Issue, PollAgain, PollOver, ReadResult, HandleOffline, WriteFiles
<1>1. /\ Given' <=> Given
      /\ \A n : RightFlit(job, n)' = RightFlit(job, n)
      /\ Given => Len(requests.flits) = StreamLength /\ LastCommand = StreamLength + 1
  BY <1>0, ExportLength DEF export_requests, RightFlit, matmul, LastCommand
<1>2. SUFFICES ASSUME Given
               PROVE  IsSeq(responses') /\ HelperInv'
  <2>1. IsSeq(responses')
    <3>1. responses' = responses \/ \E x : responses' = Append(responses, x)
      BY DEF GuestStep, Issue, PollAgain, PollOver, ReadResult, HandleOffline, WriteFiles,
             Returned, KeepPolling, Handle
    <3>2. QED BY <3>1, AppendFacts
  <2>2. ~Given => HelperInv'
    BY <1>1 DEF HelperInv
  <2>3. QED BY <2>1, <2>2
<1>3. StreamLength \in Nat /\ StreamLength > 0
  BY Sizes
<1>4. ASSUME NEW mismatch \in BOOLEAN, Issue(mismatch) PROVE IsSeq(responses') /\ HelperInv'
  <2>1. /\ gpc = "issue" /\ gpc' = "poll" /\ UNCHANGED <<i, responses>>
        /\ state' = [state EXCEPT !.bar2_readback_mismatches = @ \/ mismatch]
    BY <1>4 DEF Issue
  <2>2. Loaded(state, Len(responses)) => Loaded(state', Len(responses))
    BY <1>0, <2>1, SameMatrices
  <2>3. Loaded(state', Len(responses)) => Loaded(state, Len(responses))'
    BY <2>1 DEF Loaded, matmul
  <2>4. QED BY <1>1, <1>2, <2>1, <2>2, <2>3 DEF HelperInv
<1>5. ASSUME NEW ret, Returned(ret), gpc \in {"poll", "result"}
      PROVE  IsSeq(responses') /\ HelperInv'
  <2> DEFINE s == [state EXCEPT !.command_failures = @ \/ ret # 0]
  <2>1. /\ i \in 0..StreamLength + 1 /\ Len(responses) = IF i = 0 THEN 0 ELSE i - 1
        /\ Loaded(state, Len(responses)) /\ right
    BY <1>2, <1>5 DEF HelperInv
  <2>2. /\ IF i \in 1..StreamLength THEN Handle(s) ELSE state' = s /\ UNCHANGED responses
        /\ i' = i + 1 /\ gpc' = IF i = StreamLength + 1 THEN "write" ELSE "issue"
    BY <1>1, <1>2, <1>5 DEF Returned
  <2>3. StateOK(s) /\ Loaded(s, Len(responses))
    <3>1. (ret # 0) \in BOOLEAN
      OBVIOUS
    <3>2. QED BY <1>0, <2>1, <3>1, SameMatrices, StateChanges
  <2> HIDE DEF s
  <2>4. CASE i \in 1..StreamLength
    <3>1. Handle(s) /\ Len(responses) = i - 1 /\ gpc' = "issue" /\ i' = i + 1
      BY <1>3, <2>1, <2>2, <2>4
    <3>2. /\ IsSeq(responses') /\ Len(responses') = i
          /\ Loaded(state, Len(responses))'
          /\ \A n \in 1..Len(responses') : responses'[n] = RightFlit(job, n)
      BY <1>0, <1>2, <2>1, <2>3, <2>4, <3>1, HandleStep
    <3>3. i' \in 0..StreamLength + 1 /\ Len(responses') = i' - 1 /\ i' # 0
      BY <1>3, <2>4, <3>1, <3>2
    <3>4. QED BY <1>1, <3>1, <3>2, <3>3 DEF HelperInv
  <2>5. CASE i \notin 1..StreamLength
    <3>1. state' = s /\ responses' = responses /\ (i = 0 \/ i = StreamLength + 1)
      BY <1>3, <2>1, <2>2, <2>5
    <3>2. Loaded(state, Len(responses))'
      BY <2>3, <3>1 DEF Loaded, matmul
    <3>2a. \A n \in 1..Len(responses') : responses'[n] = RightFlit(job, n)'
      BY <1>1, <2>1, <3>1
    <3>3. CASE i = 0
      <4>0. i' = 1 /\ gpc' = "issue" /\ Len(responses') = 0
        BY <1>3, <2>1, <2>2, <3>1, <3>3
      <4>1. /\ gpc' = "issue" /\ i' \in 0..StreamLength + 1
            /\ Len(responses') = IF i' = 0 THEN 0 ELSE i' - 1
        BY <1>3, <4>0
      <4>2. QED BY <3>1, <3>2, <3>2a, <4>1 DEF HelperInv
    <3>4. CASE i = StreamLength + 1
      <4>1. gpc' = "write" /\ Len(responses') = StreamLength
        BY <1>3, <2>1, <2>2, <3>1, <3>4
      <4>2. QED BY <3>1, <3>2, <3>2a, <4>1 DEF HelperInv
    <3>5. QED BY <3>1, <3>3, <3>4
  <2>6. QED BY <2>4, <2>5
<1>6. CASE PollAgain
  <2>1. CASE polls + 1 = MaxPolls
    BY <1>5, <1>6, <2>1 DEF PollAgain
  <2>2. CASE polls + 1 # MaxPolls
    <3>1. UNCHANGED <<state, responses, i, gpc>>
      BY <1>6, <2>2 DEF PollAgain, KeepPolling
    <3>2. QED BY <1>0, <3>1, SameHelper
  <2>3. QED BY <2>1, <2>2
<1>7. CASE PollOver
  <2>1. UNCHANGED <<state, responses, i>> /\ gpc = "poll" /\ gpc' = "result"
    BY <1>7 DEF PollOver
  <2>2. QED BY <1>0, <2>1, SameHelper
<1>8. CASE ReadResult
  BY <1>5, <1>8 DEF ReadResult
<1>9. CASE HandleOffline
  <2>1. /\ i \in 1..StreamLength /\ Len(responses) = i - 1
        /\ Loaded(state, Len(responses)) /\ right
    BY <1>2, <1>9 DEF HelperInv, HandleOffline
  <2>2. Handle(state) /\ i' = i + 1 /\ gpc' = IF i = StreamLength THEN "write" ELSE "handle"
    BY <1>1, <1>2, <1>9 DEF HandleOffline
  <2>3. /\ IsSeq(responses') /\ Len(responses') = i
        /\ Loaded(state, Len(responses))'
        /\ \A n \in 1..Len(responses') : responses'[n] = RightFlit(job, n)
    BY <1>0, <1>2, <2>1, <2>2, HandleStep
  <2>4. gpc' = "handle" => i' \in 1..StreamLength /\ Len(responses') = i' - 1
    BY <1>3, <2>1, <2>2, <2>3
  <2>5. gpc' = "write" => Len(responses') = StreamLength
    BY <2>2, <2>3
  <2>6. QED BY <1>1, <2>2, <2>3, <2>4, <2>5 DEF HelperInv
<1>10. CASE WriteFiles
  <2>1. UNCHANGED <<state, responses, i>> /\ gpc = "write" /\ gpc' = "written"
    BY <1>10 DEF WriteFiles
  <2>2. QED BY <1>0, <2>1, SameHelper
<1>11. QED BY <1>4, <1>6, <1>7, <1>8, <1>9, <1>10 DEF GuestStep

LEMMA SummaryStep ==
  ASSUME SweepInv, FilesInv, Validate
  PROVE  FilesInv'
<1> DEFINE status == validate_responses(job, dir[run].responses)
           right == RightAnswers(job, dir[run].responses)
           summary == {[status |-> s, sweep |-> sweep, right |-> right] : s \in status}
<1>1. /\ job' = job /\ responses' = responses
      /\ dir' = dir \/ dir' = [dir EXCEPT ![run].summary = summary]
  BY DEF Validate, guestVars, mainVars
<1>2. run \in RunDirs /\ DOMAIN dir = RunDirs
  BY DEF SweepInv
<1>3. \A s \in status : s = "pass" <=> right
  BY <1>2, ValidatesExactly DEF FilesInv
<1> HIDE DEF status, right
<1>4. \A s \in summary : s.status = "pass" <=> s.right
  BY <1>3
<1> HIDE DEF summary
<1>5. CASE dir' = dir
  BY <1>1, <1>5 DEF FilesInv
<1>6. CASE dir' = [dir EXCEPT ![run].summary = summary]
  <2>1. \A r \in RunDirs \ {run} : dir'[r] = dir[r]
    BY <1>2, <1>6
  <2>2. dir'[run].summary = summary /\ dir'[run].responses = dir[run].responses
    <3>1. dir[run] \in [responses : {dir[run].responses}, guest : {dir[run].guest},
                        summary : {dir[run].summary}]
      BY <1>2 DEF SweepInv
    <3>2. QED BY <1>2, <1>6, <3>1
  <2>3. QED BY <1>1, <1>4, <2>1, <2>2 DEF FilesInv
<1>7. QED BY <1>1, <1>5, <1>6

LEMMA AnswersStep ==
  ASSUME CarriedInv, SweepInv, FilesInv, HelperInv, [Next]_vars
  PROVE  FilesInv' /\ HelperInv'
<1>0. job \in Jobs /\ IsSeq(responses) /\ job' = job
  BY DEF FilesInv, Next, ScriptStep, Export, StartGuest, RunGuest, FetchResponses, FetchSummary,
         Validate, Measure, Abort, Mismatch, Device, MeasureByHand, Restart, vars, scriptVars
<1>1. ASSUME UNCHANGED <<dir, responses>> PROVE FilesInv'
  BY <1>0, <1>1 DEF FilesInv
<1>2. ASSUME UNCHANGED mainVars PROVE HelperInv' /\ responses' = responses
  BY <1>0, <1>2, SameHelper DEF mainVars
<1>3. CASE RunGuest \/ Mismatch
  <2>1. (GuestStep \/ Issue(TRUE)) /\ dir' = dir
    BY <1>3 DEF RunGuest, Mismatch, scriptVars
  <2>2. IsSeq(responses') /\ HelperInv'
    BY <1>0, <2>1, HelperStep
  <2>3. FilesInv'
    BY <1>0, <2>1, <2>2 DEF FilesInv
  <2>4. QED BY <2>2, <2>3
<1>4. CASE Export
  <2>1. gpc' = "start" /\ dir' = dir /\ responses' = responses
    BY <1>4 DEF Export
  <2>2. QED BY <1>1, <2>1 DEF HelperInv
<1>5. CASE StartGuest
  <2>1. PICK found : GuestStart(found, ~live)
    BY <1>5 DEF StartGuest
  <2>2. /\ state' = NewState /\ responses' = <<>> /\ dir' = dir
        /\ gpc' \in {"failed", "handle", "issue"}
        /\ gpc' = "handle" => i' = 1
        /\ gpc' = "issue" => i' = 0
    BY <1>5, <2>1 DEF StartGuest, GuestStart
  <2>3. IsSeq(<<>>) /\ Len(<<>>) = 0
    BY DEF IsSeq
  <2>4. Loaded(NewState, 0)'
    <3>1. NewState.a = ZeroMatrix /\ NewState.b = ZeroMatrix /\ NewState.computed = FALSE
      BY DEF NewState
    <3>2. ZeroMatrix \in Matrix(0..255)
      BY DEF ZeroMatrix, Matrix
    <3>3. ~(0 > 2 * Cells) /\ \A n \in 1..Cells : ~(n <= 0) /\ ~(Cells + n <= 0)
      BY Sizes
    <3>4. QED BY <3>1, <3>2, <3>3 DEF Loaded
  <2>5. FilesInv'
    BY <1>0, <2>2, <2>3 DEF FilesInv
  <2>6. Loaded(state, Len(responses))'
    BY <2>2, <2>3, <2>4
  <2>7. 1 \in 1..StreamLength /\ 0 \in 0..StreamLength + 1
    BY Sizes
  <2>8. HelperInv'
    BY <2>2, <2>3, <2>6, <2>7 DEF HelperInv
  <2>9. QED BY <2>5, <2>8
<1>6. CASE FetchResponses
  <2>1. PICK file \in Transferred(responses, ResponseDamage) :
          dir' = [dir EXCEPT ![run].responses = file]
    BY <1>6 DEF FetchResponses
  <2>2. IsSeq(file.flits)
    BY <1>0, TransferFacts
  <2>3. run \in RunDirs /\ DOMAIN dir = RunDirs
    BY DEF SweepInv
  <2>4. \A r \in RunDirs \ {run} : dir'[r] = dir[r]
    BY <2>1, <2>3
  <2>5. dir'[run].responses = file /\ dir'[run].summary = dir[run].summary
    <3>1. dir[run] \in [responses : {dir[run].responses}, guest : {dir[run].guest},
                        summary : {dir[run].summary}]
      BY <2>3 DEF SweepInv
    <3>2. QED BY <2>1, <2>3, <3>1
  <2>6. UNCHANGED mainVars
    BY <1>6 DEF FetchResponses, guestVars
  <2>7. responses' = responses /\ HelperInv'
    BY <1>2, <2>6
  <2>8. FilesInv'
    BY <1>0, <2>2, <2>4, <2>5, <2>7 DEF FilesInv
  <2>9. QED BY <2>7, <2>8
<1>7. CASE FetchSummary
  <2>1. dir' = [dir EXCEPT ![run].guest = Some(guest_status)] /\ UNCHANGED mainVars
    BY <1>7 DEF FetchSummary, guestVars
  <2>2. run \in RunDirs /\ DOMAIN dir = RunDirs
    BY DEF SweepInv
  <2>3. \A r \in RunDirs \ {run} : dir'[r] = dir[r]
    BY <2>1, <2>2
  <2>4. dir'[run].responses = dir[run].responses /\ dir'[run].summary = dir[run].summary
    <3>1. dir[run] \in [responses : {dir[run].responses}, guest : {dir[run].guest},
                        summary : {dir[run].summary}]
      BY <2>2 DEF SweepInv
    <3>2. QED BY <2>1, <2>2, <3>1
  <2>5. FilesInv'
    BY <1>0, <1>2, <2>1, <2>3, <2>4 DEF FilesInv
  <2>6. QED BY <1>2, <2>1, <2>5
<1>8. CASE Validate
  <2>1. UNCHANGED mainVars
    BY <1>8 DEF Validate, guestVars
  <2>2. QED BY <1>2, <1>8, <2>1, SummaryStep
<1>9. CASE Measure \/ Abort \/ MeasureByHand \/ Restart
  <2>1. UNCHANGED mainVars /\ dir' = dir
    BY <1>9 DEF Measure, Abort, MeasureByHand, Restart, guestVars
  <2>2. QED BY <1>1, <1>2, <2>1
<1>10. CASE Device
  <2>1. UNCHANGED mainVars /\ dir' = dir
    BY <1>10 DEF Device, DeviceOk, DeviceFails, Complete
  <2>2. QED BY <1>1, <1>2, <2>1
<1>11. CASE UNCHANGED vars
  <2>1. UNCHANGED mainVars /\ dir' = dir
    BY <1>11 DEF vars, scriptVars, guestVars
  <2>2. QED BY <1>1, <1>2, <2>1
<1>12. QED BY <1>3, <1>4, <1>5, <1>6, <1>7, <1>8, <1>9, <1>10, <1>11 DEF Next, ScriptStep

\* The helper's answers to undamaged requests are right, request by request, for
\* every job and whatever the device does; and a summary says "pass" exactly if
\* the answers that were fetched are right.
THEOREM AnswersSafe == Spec => [](FilesInv /\ HelperInv)
<1>1. Init => FilesInv /\ HelperInv
  <2>1. ASSUME Init PROVE FilesInv /\ HelperInv
    <3>1. /\ job \in Jobs /\ responses = <<>> /\ gpc = "off"
          /\ dir = [r \in RunDirs |-> EmptyDir]
      BY <2>1 DEF Init, GuestInit
    <3>2. IsSeq(<<>>) /\ EmptyDir.responses.flits = <<>> /\ EmptyDir.summary = {}
      BY DEF IsSeq, EmptyDir, NoFile, File, None
    <3>3. QED BY <3>1, <3>2 DEF FilesInv, HelperInv
  <2>2. QED BY <2>1
<1>2. CarriedInv /\ SweepInv /\ FilesInv /\ HelperInv /\ [Next]_vars => FilesInv' /\ HelperInv'
  BY AnswersStep
<1>3. QED BY <1>1, <1>2, CarriedSafe, SweepSafe, PTL DEF Spec

\* An answer of the helper decodes to the right message.
LEMMA RightFlitDecodes ==
  ASSUME NEW j, NEW n \in 1..StreamLength
  PROVE  decode(RightFlit(j, n)) = Decoded("none", {RightMsg(j, n)})
<1> DEFINE t == DispatchStream(j, 0)[n].tag
           v == matmul(j)[DispatchStream(j, 0)[n].token.addr]
<1>1. ASSUME NEW tag, NEW data
      PROVE  /\ decode(AnswerFlit(4, 0, tag, data)) =
                  Decoded("none", {Msg("S2MNDR", "Cmp", tag, <<0, 0>>, data)})
             /\ decode(AnswerFlit(3, 0, tag, data)) =
                  Decoded("none", {Msg("S2MDRS", "MemData", tag, <<0, 0>>, data)})
  BY WireCodes DEF decode, AnswerFlit, Some
<1>2. CASE n <= 2 * Cells + 1
  <2>1. RightFlit(j, n) = AnswerFlit(4, 0, t, 0) /\ RightMsg(j, n) = Msg("S2MNDR", "Cmp", t, <<0, 0>>, 0)
    BY <1>2 DEF RightFlit, RightMsg, Answer, Response
  <2>2. QED BY <1>1, <2>1
<1>3. CASE ~(n <= 2 * Cells + 1)
  <2>1. RightFlit(j, n) = AnswerFlit(3, 0, t, v) /\ RightMsg(j, n) = Msg("S2MDRS", "MemData", t, <<0, 0>>, v)
    BY <1>3 DEF RightFlit, RightMsg, Answer, Response
  <2>2. QED BY <1>1, <2>1
<1>4. QED BY <1>2, <1>3

\* ValidatorExact holds of every job, number of runs and damage to the files.
THEOREM ValidatorSafe == Spec => []ValidatorExact
<1>1. ASSUME FilesInv, HelperInv PROVE ValidatorExact
  <2>1. ASSUME gpc = "written", requests = File(export_requests(job), FALSE)
        PROVE  RightAnswers(job, File(responses, FALSE))
    <3>1. Len(responses) = StreamLength /\ \A n \in 1..StreamLength : responses[n] = RightFlit(job, n)
      BY <1>1, <2>1 DEF HelperInv
    <3>2. ASSUME NEW n \in 1..StreamLength
          PROVE  LET decoded == decode(responses[n])
                 IN  decoded.error = "none" /\ {Kept(m) : m \in decoded.msg} = {Kept(RightMsg(job, n))}
      <4>1. decode(responses[n]) = Decoded("none", {RightMsg(job, n)})
        BY <3>1, RightFlitDecodes
      <4>2. QED BY <4>1 DEF Decoded
    <3>3. QED BY <3>1, <3>2 DEF RightAnswers, File
  <2>2. QED BY <1>1, <2>1 DEF ValidatorExact, FilesInv
<1>2. FilesInv /\ HelperInv => ValidatorExact
  BY <1>1
<1>3. QED BY <1>2, AnswersSafe, PTL

\* A report claims the boundary as measured only on right answers, and the
\* script's own report only, and always, on all runs of this very sweep.
THEOREM EvidenceSafe == Spec => []EvidenceSound
<1>1. ASSUME SweepInv, ValidatorExact, NEW rep \in report
      PROVE  /\ rep.bar2 = "Measured" =>
                  /\ DOMAIN rep.evidence # {}
                  /\ \A r \in DOMAIN rep.evidence : \A s \in rep.evidence[r].summary : s.right
             /\ rep.by = "script" =>
                  /\ rep.runtime = "PartiallyMeasured"
                  /\ DOMAIN rep.evidence = RunDirs
             /\ rep.by = "script" /\ phase = "complete" =>
                  \A r \in RunDirs : \A s \in rep.evidence[r].summary : s.sweep = sweep
  <2>1. /\ rep.bar2 = summarize_bar2_repeatability
        /\ rep.runtime = IF rep.bar2 = "Measured" THEN "PartiallyMeasured" ELSE "Blocked"
        /\ rep.evidence = [r \in Counted |-> dir[r]]
    <3>1. rep \in {Report("script"), Report("hand")}
      BY <1>1 DEF SweepInv
    <3>2. QED BY <3>1 DEF Report
  <2>2. DOMAIN rep.evidence = Counted /\ \A r \in Counted : rep.evidence[r] = dir[r]
    BY <2>1
  <2>3. rep.bar2 = "Measured" => Counted # {} /\ Counted = Passed
    BY <2>1 DEF summarize_bar2_repeatability
  <2>4. \A r \in Passed : \A s \in dir[r].summary : s.right
    BY <1>1 DEF Passed, Counted, ValidatorExact
  <2>5. CASE rep.by = "script"
    <3>1. \A r \in RunDirs : PassedNow(r)
      BY <1>1, <2>5 DEF SweepInv
    <3>2. Counted = RunDirs /\ Passed = RunDirs
      BY <3>1 DEF Counted, Passed, PassedNow
    <3>3. RunDirs # {}
      BY <1>1 DEF SweepInv
    <3>4. rep.runtime = "PartiallyMeasured"
      BY <2>1, <3>2, <3>3 DEF summarize_bar2_repeatability
    <3>5. QED BY <2>2, <2>3, <2>4, <3>1, <3>2, <3>4 DEF PassedNow
  <2>6. CASE rep.by # "script"
    BY <2>2, <2>3, <2>4, <2>6
  <2>7. QED BY <2>5, <2>6
<1>2. SweepInv /\ ValidatorExact => EvidenceSound
  BY <1>1 DEF EvidenceSound
<1>3. QED BY <1>2, SweepSafe, ValidatorSafe, PTL
============================================================================
