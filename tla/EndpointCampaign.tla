------------------------- MODULE EndpointCampaign -------------------------
(***************************************************************************)
(* The endpoint campaigns, targets/splash-endpoint/{driver,experiment,     *)
(* correctness}.py, on the endpoints of SlugEndpoint: rounds in which      *)
(* every endpoint gets one job, drained by stepping the virtual clock from *)
(* deadline to deadline, and checked against the driver's own oracles.     *)
(* A fault case takes two rounds: the last endpoint fails in the first,    *)
(* and all of them recover in the second; then the next case may follow.   *)
(*                                                                         *)
(* The clock stands still between clock_steps, so the register writes of   *)
(* one submission, or of the start of a round, are one action.             *)
(***************************************************************************)
EXTENDS SlugEndpoint, FiniteSetsExt, TLC

CONSTANTS
  Tiles,        \* the endpoints as a sequence
  Cases,        \* fault cases to run, "none" for a plain workload
  Sizes,        \* words per job
  Rounds,       \* bound on the number of rounds
  DrainLimit,   \* clock_steps after which drain gives up
  Inputs,       \* the input vector of each endpoint
  Fill          \* what the target area holds before a job

\* The cases of correctness.py.
FaultCase == {"request_failure", "completion_failure", "log_capacity", "stale_epoch",
              "invalid_range"}

\* A log holds both records of a job, and a register the byte address of every
\* word of memory. The cells of correctness.py run with enforce=True.
ASSUME CampaignAssumption ==
  /\ Tiles \in Seq(Dev) /\ {Tiles[i] : i \in DOMAIN Tiles} = Dev /\ Boot = Dev /\ HotPlug = {}
  /\ Sizes \subseteq 1..MaxWords /\ 2 * MaxWords <= MemWords /\ DrainLimit \in Nat
  /\ 2 <= MaxRecords /\ 8 * MemWords + 7 < MaxReg
  /\ Inputs \in [Dev -> [1..MaxWords -> Reg]] /\ Fill \in Reg
  /\ Cases \subseteq FaultCase \cup {"none"}
  /\ Cases \subseteq {"none"} \/ Enforced = Dev

VARIABLES
  case, schedule, words,   \* the cell
  stage, round, scalar,
  queue,                   \* endpoints that still get a job this round
  jobs,                    \* the jobs of this round, in order of submission
  start_ns, steps          \* when the round began, and its clock_steps

cellVars == <<case, schedule, words>>
campaignVars == <<cellVars, stage, round, scalar, queue, jobs, start_ns, steps>>
allVars == <<vars, campaignVars>>

SRC == 0
DST == 8 * MaxWords
Target == Tiles[Len(Tiles)]
FaultAt(d, r) == case # "none" /\ ~Even(r) /\ d = Target
JobNumber == IF case = "none" THEN round + 1 ELSE 1

(***************************************************************************)
(* The driver's oracles                                                    *)
(***************************************************************************)
Input(d) == [i \in 1..words |-> Inputs[d][i]]
oracle(d) == VectorJob(Input(d), scalar)

\* Mutant: ties go to the job submitted last.
LastFirst(i, j) ==
  LET key(n) == jobs[n].release + RecordCost(jobs[n].tile) + words * ComputeNs
  IN  key(i) < key(j) \/ (key(i) = key(j) /\ i > j)

Earlier(i, j) ==
  LET key(n) == jobs[n].release + RecordCost(jobs[n].tile) + words * ComputeNs
  IN  key(i) < key(j) \/ (key(i) = key(j) /\ i < j)

\* Resource oracle: one link, served in the order of the compute deadlines.
schedule_oracle ==
  LET pending == SortSeq([i \in DOMAIN jobs |-> i], Earlier)
      computed(n) == jobs[pending[n]].release + RecordCost(jobs[pending[n]].tile)
                     + words * ComputeNs
      free[n \in 0..Len(jobs)] ==
        IF n = 0 THEN 0 ELSE MaxOf(computed(n), free[n - 1]) + Serialization(words)
      row(n) == LET tile == jobs[pending[n]].tile
                    start == MaxOf(computed(n), free[n - 1])
                IN  [compute_start |-> jobs[pending[n]].release + RecordCost(tile),
                     compute_end |-> computed(n), link_start |-> start,
                     link_end |-> free[n] + LinkNs, queue_wait |-> start - computed(n),
                     finished |-> free[n] + LinkNs + RecordCost(tile)]
  IN  [d \in Dev |-> row(CHOOSE n \in DOMAIN jobs : jobs[pending[n]].tile = d)]

Reduction == MapThenSumSet(LAMBDA x : oracle(x[1])[x[2]], Dev \X (1..words)) % (MaxReg + 1)

(***************************************************************************)
(* A round                                                                 *)
(***************************************************************************)
Published(d) ==
  [w \in Word |-> IF w + 1 \in 1..words THEN Inputs[d][w + 1]
                  ELSE IF w - MaxWords + 1 \in 1..words THEN Fill ELSE ram[d][w]]

Capacity(d, r) == IF FaultAt(d, r) /\ case = "log_capacity" THEN 1 ELSE MaxRecords

\* A new epoch acknowledges what happened before; the capacity is set again.
Fresh(d, r) ==
  IF Writable(ep[d])
  THEN [NewEpoch(ep[d], ep[d].epoch + 1) EXCEPT !.capacity = Capacity(d, r)]
  ELSE [ep[d] EXCEPT !.rejected = @ + 2]

\* The orders of all endpoints.
Orders ==
  {o \in [1..Len(Tiles) -> Dev] : /\ \A i, j \in 1..Len(Tiles) : o[i] = o[j] => i = j
                                  /\ \A d \in Dev : \E i \in 1..Len(Tiles) : o[i] = d}

\* In a fault round the target is served first; the other rounds take any order.
StartRound ==
  /\ stage = "start" /\ round < Rounds
  /\ round' = round + 1
  /\ ep' = [d \in Dev |-> Fresh(d, round + 1)]
  /\ ram' = [d \in Dev |-> Published(d)]
  /\ base' = ram' /\ touched' = [d \in Dev |-> Word]
  /\ queue' \in {o \in Orders : FaultAt(Target, round + 1) => o[1] = Target}
  /\ jobs' = <<>> /\ steps' = <<>> /\ start_ns' = now
  /\ stage' = "submit"
  /\ UNCHANGED <<cellVars, scalar, present, link_free_ns, now, ahead>>

\* What submit writes to the descriptor registers.
Descriptor(d) ==
  [job_epoch |-> IF FaultAt(d, round) /\ case = "stale_epoch" THEN ep[d].epoch - 1 ELSE ep[d].epoch,
   job |-> JobNumber, src |-> SRC,
   dst |-> IF FaultAt(d, round) /\ case = "invalid_range" THEN MaxReg - 7 ELSE DST,
   words |-> words, scalar |-> scalar, release |-> now,
   fault |-> CASE FaultAt(d, round) /\ case = "request_failure" -> 1
               [] FaultAt(d, round) /\ case = "completion_failure" -> 2
               [] OTHER -> 0]

\* Endpoint.submit, with the doorbell: accepted or refused.
SubmitJob ==
  LET d == Head(queue)
      s == Cleared([ep[d] EXCEPT !.desc = Descriptor(d)])
      error == SubmitError(s, d, now)
      accepted == Accept(s, d, ram[d], now)
  IN  /\ stage = "submit" /\ queue # <<>>
      /\ queue' = Tail(queue)
      /\ jobs' = Append(jobs, [tile |-> d, release |-> now])
      /\ stage' = IF schedule = "serial" THEN "drain" ELSE stage
      /\ IF error = "E_NONE"
         THEN Update(d, accepted) /\ Arm(d, accepted.timer)
         ELSE Update(d, Fail(s, error, now)) /\ UNCHANGED ahead
      /\ base' = [base EXCEPT ![d] = ram[d]]
      /\ touched' = [touched EXCEPT ![d] = {}]
      /\ UNCHANGED <<cellVars, round, scalar, start_ns, steps, present, ram, link_free_ns, now>>

AllSubmitted ==
  /\ stage = "submit" /\ queue = <<>>
  /\ stage' = IF schedule = "serial" THEN "check" ELSE "drain"
  /\ UNCHANGED <<vars, cellVars, round, scalar, queue, jobs, start_ns, steps>>

Busy == {d \in Dev : ep[d].state = BUSY}

\* The clock_steps of the drain in work: those since the last submission.
DrainSteps == {i \in DOMAIN steps : steps[i] > jobs[Len(jobs)].release}

\* clock_step: the clock jumps to the next deadline; drain raises after too many.
ClockStep ==
  LET deadlines == {ep[d].timer : d \in {e \in Dev : Armed(e)}}
  IN  /\ stage = "drain" /\ Busy # {}
      /\ \A d \in Dev : ~Fires(d)
      /\ now' = Min(deadlines)
      /\ steps' = Append(steps, now')
      /\ stage' = IF Cardinality(DrainSteps) >= DrainLimit THEN "raised" ELSE stage
      /\ UNCHANGED <<present, ep, ram, link_free_ns, ahead, base, touched,
                     cellVars, round, scalar, queue, jobs, start_ns>>

\* The timers that are due run within clock_step.
RunTimer(d) == stage = "drain" /\ TimerStep(d) /\ UNCHANGED campaignVars

Drained ==
  /\ stage = "drain" /\ Busy = {}
  /\ stage' = IF queue = <<>> THEN "check" ELSE "submit"
  /\ UNCHANGED <<vars, cellVars, round, scalar, queue, jobs, start_ns, steps>>

\* The scalar of the next round is the sum of this one's outputs.
EndRound ==
  /\ stage = "check" /\ case = "none"
  /\ stage' = "start"
  /\ scalar' = Reduction
  /\ UNCHANGED <<vars, cellVars, round, queue, jobs, start_ns, steps>>

\* A failed endpoint turns a doorbell down.
EndFault ==
  /\ stage = "check" /\ FaultAt(Target, round)
  /\ stage' = "start"
  /\ scalar' = 11
  /\ Update(Target, [ep[Target] EXCEPT !.rejected = @ + 1])
  /\ UNCHANGED <<present, ram, link_free_ns, now, ahead, base, touched,
                 cellVars, round, queue, jobs, start_ns, steps>>

EndRecovery ==
  /\ stage = "check" /\ case # "none" /\ ~FaultAt(Target, round)
  /\ stage' = "start"
  /\ scalar' = 7
  /\ case' \in Cases \ {"none"}
  /\ UNCHANGED <<vars, schedule, words, round, queue, jobs, start_ns, steps>>

CampaignInit ==
  /\ Init
  /\ case \in Cases /\ schedule \in {"serial", "concurrent"} /\ words \in Sizes
  /\ case # "none" => schedule = "concurrent"
  /\ stage = "start" /\ round = 0
  /\ scalar = IF case = "none" THEN 1 ELSE 7
  /\ queue = <<>> /\ jobs = <<>> /\ steps = <<>> /\ start_ns = 0

CampaignNext ==
  \/ StartRound \/ SubmitJob \/ AllSubmitted \/ ClockStep
  \/ (\E d \in Dev : RunTimer(d)) \/ Drained \/ EndRound
  \/ EndFault \/ EndRecovery

CampaignSpec == CampaignInit /\ [][CampaignNext]_allVars

(***************************************************************************)
(* Properties                                                              *)
(***************************************************************************)
Area(d) == [i \in 1..words |-> ram[d][MaxWords + i - 1]]
Untouched == [i \in 1..words |-> Fill]

\* The device's own account of every job, made by timer callbacks that contend
\* for the link, is the one the driver's oracle derives from the arrivals; a job
\* of a serial round is released when the one before it is finished; the round
\* ends with the last of them and the clock steps only forward. No drain, of a
\* fault case either, takes so many steps that it gives up.
ScheduleAgrees ==
  /\ stage # "raised"
  /\ stage = "check" /\ case = "none" =>
       /\ \A d \in Dev : \A f \in DOMAIN schedule_oracle[d] : ep[d][f] = schedule_oracle[d][f]
       /\ \A i \in DOMAIN jobs :
            jobs[i].release = IF i = 1 \/ schedule = "concurrent" THEN start_ns
                              ELSE schedule_oracle[jobs[i - 1].tile].finished
       /\ now = Max({schedule_oracle[d].finished : d \in Dev})
       /\ steps[Len(steps)] = now
       /\ \A i \in 1..Len(steps) - 1 : steps[i] < steps[i + 1]

validate_records(d) ==
  /\ Len(ep[d].log) = 2
  /\ \A i \in 1..2 :
       LET r == ep[d].log[i]
       IN  /\ r.kind = i /\ r.sequence = i /\ r.epoch = ep[d].epoch
           /\ r.job = [job |-> JobNumber, src |-> SRC, dst |-> DST, words |-> words, scalar |-> scalar]
           /\ r.committed = i - 1
           /\ r.time = IF i = 1 THEN ep[d].desc["release"] ELSE ep[d].finished
           /\ r.digest = IF i = 1 THEN Input(d) ELSE oracle(d)

\* After a round every endpoint without an injected fault is done, holds the
\* output of its own job, and has exactly the records of this job.
RoundEvidence ==
  stage = "check" =>
    \A d \in Dev : ~FaultAt(d, round) =>
      /\ ep[d].state = DONE /\ ep[d].committed = 1 /\ ep[d].error = "E_NONE"
      /\ Area(d) = oracle(d)
      /\ IF Gate(d) THEN validate_records(d) ELSE ep[d].log = <<>>

FaultError ==
  CASE case = "request_failure" -> "E_REQUEST"
    [] case = "completion_failure" -> "E_COMPLETION"
    [] case = "log_capacity" -> "E_CAPACITY"
    [] case = "stale_epoch" -> "E_EPOCH"
    [] OTHER -> "E_RANGE"

\* An injected fault shows at its endpoint as the failure it is, with the output
\* stored only when the record of its completion is what failed.
FaultEvidence ==
  stage = "check" =>
    \A d \in Dev : FaultAt(d, round) =>
      LET post == case = "completion_failure"
          commit == IF post THEN 1 ELSE 0
      IN  /\ ep[d].state = IF post THEN POSTFAIL ELSE PREFAIL
          /\ ep[d].error = FaultError
          /\ ep[d].committed = commit /\ ep[d].failure.committed = commit
          /\ Area(d) = IF post THEN oracle(d) ELSE Untouched
          /\ Len(ep[d].log) = commit
=============================================================================
