------------------------------ MODULE CxlHost ------------------------------
(***************************************************************************)
(* CxlHost, crates/slugarch-host/src/{host,dispatch,result}.rs: one thread *)
(* that turns a GEMM into a stream of FLITs, sends them one by one to the  *)
(* endpoint, clocks it until an answer arrives or it has waited too long,  *)
(* and decodes the answers.  The endpoint, with whatever an earlier run    *)
(* has left in it, is the same for all runs of a host; a new host has a    *)
(* new endpoint.                                                           *)
(***************************************************************************)
EXTENDS SlugCxlEndpoint

CONSTANTS
  Jobs,                  \* pairs of matrices
  FLIT_TIMEOUT_TICKS,
  MaxRuns                \* bound on the runs

ASSUME HostAssumption ==
  /\ Jobs \subseteq [a : Matrix(Bytes), b : Matrix(Bytes)]
  /\ FLIT_TIMEOUT_TICKS \in Nat /\ MaxRuns \in Nat

VARIABLES
  pc,                \* where run_gemm_inner is
  job, stream,       \* the job and its FLITs
  k,                 \* position in the stream
  waited, next_tag, read_responses,
  result, answer,    \* of the last run
  runs,
  timed_out          \* history: has a run of this host given up on an answer?

hostVars == <<pc, job, stream, k, waited, next_tag, read_responses, result,
              answer, runs, timed_out>>
vars == <<hostVars, endpointVars>>

NextTag(tag) == (tag + StreamLength) % TagSpace

run_gemm(j) ==
  /\ pc = "idle" /\ runs < MaxRuns
  /\ job' = j
  /\ stream' = DispatchStream(j, next_tag)
  /\ next_tag' = NextTag(next_tag)
  /\ read_responses' = <<>>
  /\ k' = 1 /\ waited' = 0
  /\ result' = "running"
  /\ runs' = runs + 1
  /\ pc' = "start"
  /\ UNCHANGED <<answer, timed_out, endpointVars>>

HostTick(from, to) ==
  /\ pc = from
  /\ Tick
  /\ pc' = to
  /\ UNCHANGED <<job, stream, k, waited, next_tag, read_responses, result,
                 answer, runs, timed_out>>

StartTick == HostTick("start", "send")
WaitTick == HostTick("wait", "poll")

SendFlit ==
  /\ pc = "send" /\ k <= Len(stream)
  /\ send_flit(stream[k])
  /\ waited' = 0
  /\ pc' = "wait"
  /\ UNCHANGED <<job, stream, k, next_tag, read_responses, result, answer,
                 runs, timed_out>>

\* Mutant: starts the count of ticks again at every poll.
WaitForever ==
  /\ pc = "poll" /\ outbound_flits = <<>>
  /\ waited < FLIT_TIMEOUT_TICKS
  /\ waited' = 0
  /\ pc' = "wait"
  /\ UNCHANGED <<job, stream, k, next_tag, read_responses, result, answer,
                 runs, timed_out, endpointVars>>

KeepWaiting ==
  /\ pc = "poll" /\ outbound_flits = <<>>
  /\ waited < FLIT_TIMEOUT_TICKS
  /\ waited' = waited + 1
  /\ pc' = "wait"
  /\ UNCHANGED <<job, stream, k, next_tag, read_responses, result, answer,
                 runs, timed_out, endpointVars>>

FlitTimeout ==
  /\ pc = "poll" /\ outbound_flits = <<>>
  /\ waited >= FLIT_TIMEOUT_TICKS
  /\ waited' = waited + 1
  /\ pc' = "idle" /\ result' = "FlitTimeout"
  /\ timed_out' = TRUE
  /\ UNCHANGED <<job, stream, k, next_tag, read_responses, answer, runs, endpointVars>>

\* Mutant: takes any answer for the one it waits for.
AnyTag(resp, tag) == IF resp.kind = "DispatchFailed" THEN "DispatchFailed" ELSE "running"

\* What the run makes of an answer to a FLIT with this tag.
Verdict(resp, tag) ==
  CASE resp.tag # tag -> "UnexpectedTag"
    [] resp.tag = tag /\ resp.kind = "DispatchFailed" -> "DispatchFailed"
    [] OTHER -> "running"

TakeResponse ==
  LET resp == Head(outbound_flits)
      verdict == Verdict(resp, stream[k].tag)
  IN  /\ pc = "poll"
      /\ recv_flit
      /\ result' = verdict
      /\ IF verdict = "running"
         THEN /\ pc' = "send" /\ k' = k + 1
              /\ read_responses' = IF resp.kind = "MemData"
                                   THEN Append(read_responses, resp) ELSE read_responses
         ELSE pc' = "idle" /\ UNCHANGED <<k, read_responses>>
      /\ UNCHANGED <<job, stream, waited, next_tag, answer, runs, timed_out>>

\* decode_results: the answers in the order of the reads, row by row.
DecodeResults ==
  [x \in Cell |-> read_responses[x[1] * Dim + x[2] + 1].data]

Finish ==
  /\ pc = "send" /\ k > Len(stream)
  /\ pc' = "idle"
  /\ IF Len(read_responses) = Cells
     THEN result' = "ok" /\ answer' = DecodeResults
     ELSE result' = "DispatchFailed" /\ UNCHANGED answer
  /\ UNCHANGED <<job, stream, k, waited, next_tag, read_responses, runs,
                 timed_out, endpointVars>>

\* CxlHost::new, in place of the host before.
NewHost ==
  /\ pc = "idle" /\ runs \in 1..MaxRuns - 1
  /\ EndpointReset
  /\ next_tag' = 0
  /\ result' = "none" /\ timed_out' = FALSE
  /\ UNCHANGED <<pc, job, stream, k, waited, read_responses, answer, runs>>

HostStep ==
  \/ StartTick \/ SendFlit \/ WaitTick \/ KeepWaiting \/ FlitTimeout
  \/ TakeResponse \/ Finish

Init ==
  /\ pc = "idle" /\ job = [a |-> Zero, b |-> Zero] /\ stream = <<>> /\ k = 1
  /\ waited = 0 /\ next_tag = 0 /\ read_responses = <<>>
  /\ result = "none" /\ answer = Zero /\ runs = 0 /\ timed_out = FALSE
  /\ EndpointInit

Next == (\E j \in Jobs : run_gemm(j)) \/ NewHost \/ HostStep

Spec == Init /\ [][Next]_vars

\* run_gemm is a loop of one thread that waits for nobody.
FairSpec == Spec /\ WF_vars(HostStep)

(***************************************************************************)
(* Properties                                                              *)
(***************************************************************************)
\* A run that succeeds returns the product of its own matrices, whatever runs
\* came before it on this host and however they ended.
RightAnswer == result = "ok" => answer = Product(job.a, job.b)

\* A run fails if and only if this host has given up on an answer, in this run or
\* an earlier one: however long the array takes, nothing else goes wrong between
\* host and endpoint, and once an answer is late it stays one ahead of every
\* later request, so that no run succeeds again.
OnlyTimeoutsFail == pc = "idle" => (timed_out <=> result \notin {"none", "ok"})

\* Every run comes to an end.
RunEnds == pc # "idle" ~> pc = "idle"
=============================================================================
