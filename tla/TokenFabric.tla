---------------------------- MODULE TokenFabric ----------------------------
(***************************************************************************)
(* The fabric event loop, crates/slugarch-fabric/src/engine.rs.  A run     *)
(* takes a stream of dispatch commands, launches each once the token it    *)
(* waits for has retired, clocks the IPs that have commands in flight and  *)
(* retires the commands of every IP that shows done.                       *)
(*                                                                         *)
(* Commands are named by their position in the stream.  An IP is RTL under *)
(* Verilator and is external: after a clock it shows done or it does not.  *)
(* The order of the commands in flight decides only which late one a       *)
(* timeout names, so they are a function, not a sequence.  The counters    *)
(* per IP are reporting and left out.                                      *)
(***************************************************************************)
EXTENDS Integers, Sequences, FiniteSets

CONSTANTS
  Rtl,            \* IPs that are Verilated
  Cpu,            \* IPs that run on the CPU
  CycleBudget,    \* DEFAULT_IP_CYCLE_BUDGET
  Streams         \* streams a caller may run

\* What the engine reads of a DispatchCmd, and of a Vec of them.
DispatchCmd(c) ==
  c.ip \in Rtl \cup Cpu /\ c.opcode \in Nat /\ c.token_in \in Nat /\ c.token_out \in Nat
IsStream(s) ==
  Len(s) \in Nat /\ s = [c \in 1..Len(s) |-> s[c]] /\ \A c \in 1..Len(s) : DispatchCmd(s[c])

ASSUME FabricAssumption ==
  /\ Rtl \cap Cpu = {}
  /\ CycleBudget \in Nat \ {0}
  /\ \A s \in Streams : IsStream(s)

VARIABLES
  pc,             \* where run() is: "idle", "scan" or "tick"
  stream,         \* the commands of this run
  pending,        \* commands not launched yet
  i,              \* scan position in pending
  launched_any,   \* has this scan launched a command?
  in_flight,      \* cycles_elapsed of the commands launched on RTL
  retired,        \* tokens that have retired
  total_cycles,
  completions,
  result,         \* of the last run
  done            \* history: commands that have retired

fabricVars == <<pc, stream, pending, i, launched_any, in_flight, retired,
                total_cycles, completions, result, done>>

Result == {"none", "running", "ok", "stuck", "timeout", "global_timeout"}

Cmds == 1..Len(stream)
PendingSet == {pending[k] : k \in DOMAIN pending}
FlightSet == DOMAIN in_flight
NoFlight == [c \in {} |-> 0]

\* Mutant: truncates without moving the last element into the gap.
PopRemove(s, k) == [j \in 1..(Len(s) - 1) |-> s[j]]

\* Vec::swap_remove: the last element takes the place of the removed one.
SwapRemove(s, k) == [j \in 1..(Len(s) - 1) |-> IF j = k THEN s[Len(s)] ELSE s[j]]

CycleCost(opcode) ==
  CASE opcode \in 17..23 -> 4
    [] opcode = 254 -> 0
    [] OTHER -> 1

GlobalBudget == 4 * CycleBudget * (1 + Len(stream))

\* Mutant: a command may wait for a token that has not retired yet.
AnyToken(c) == TRUE

CanFire(c) == stream[c].token_in \in retired

(***************************************************************************)
(* run()                                                                   *)
(***************************************************************************)
AllDone(left, flying) == left = <<>> /\ flying = {}

\* The head of the outer loop, with these commands pending and in flight.
LoopTop(left, flying) ==
  /\ i' = 1
  /\ launched_any' = FALSE
  /\ pc' = IF AllDone(left, flying) THEN "idle" ELSE "scan"
  /\ result' = IF AllDone(left, flying) THEN "ok" ELSE "running"

Return(error) ==
  /\ pc' = "idle"
  /\ result' = error
  /\ UNCHANGED <<i, launched_any>>

Run(s) ==
  /\ pc = "idle"
  /\ stream' = s
  /\ pending' = [k \in 1..Len(s) |-> k]
  /\ in_flight' = NoFlight
  /\ retired' = {0}
  /\ total_cycles' = 0
  /\ completions' = 0
  /\ done' = {}
  /\ LoopTop(pending', {})

Skip ==
  /\ pc = "scan" /\ i <= Len(pending)
  /\ ~CanFire(pending[i])
  /\ i' = i + 1
  /\ UNCHANGED <<pc, stream, pending, launched_any, in_flight, retired,
                 total_cycles, completions, result, done>>

\* A CPU-backed command executes and retires on the spot.
LaunchCpu ==
  LET c == pending[i]
  IN  /\ pc = "scan" /\ i <= Len(pending)
      /\ CanFire(c) /\ stream[c].ip \in Cpu
      /\ pending' = SwapRemove(pending, i)
      /\ total_cycles' = total_cycles + CycleCost(stream[c].opcode)
      /\ retired' = retired \cup {stream[c].token_out}
      /\ completions' = completions + 1
      /\ done' = done \cup {c}
      /\ launched_any' = TRUE
      /\ UNCHANGED <<pc, stream, i, in_flight, result>>

Launched(c) == [b \in FlightSet \cup {c} |-> IF b = c THEN 0 ELSE in_flight[b]]

LaunchRtl ==
  LET c == pending[i]
  IN  /\ pc = "scan" /\ i <= Len(pending)
      /\ CanFire(c) /\ stream[c].ip \in Rtl
      /\ pending' = SwapRemove(pending, i)
      /\ in_flight' = Launched(c)
      /\ launched_any' = TRUE
      /\ UNCHANGED <<pc, stream, i, retired, total_cycles, completions,
                     result, done>>

ScanOver == pc = "scan" /\ i > Len(pending)

StartTick ==
  /\ ScanOver /\ FlightSet # {}
  /\ pc' = "tick"
  /\ UNCHANGED <<stream, pending, i, launched_any, in_flight, retired,
                 total_cycles, completions, result, done>>

\* Mutant: gives up as soon as a scan leaves something behind.
LeftBehind == pending # <<>>

\* Mutant: keeps looking again for a token that nothing will produce.
NeverGivesUp == FALSE

NoProgress == ~launched_any /\ pending # <<>>

ReportStuck ==
  /\ ScanOver /\ FlightSet = {} /\ NoProgress
  /\ Return("stuck")
  /\ UNCHANGED <<stream, pending, in_flight, retired, total_cycles,
                 completions, done>>

\* Only CPU commands ran: look again at what they have released.
Rescan ==
  /\ ScanOver /\ FlightSet = {} /\ ~NoProgress
  /\ LoopTop(pending, {})
  /\ UNCHANGED <<stream, pending, in_flight, retired, total_cycles,
                 completions, done>>

\* Mutant: a command's age stands still.
NeverAges(elapsed) == elapsed

Aged(elapsed) == elapsed + 1

UniqueIps == {stream[c].ip : c \in FlightSet}

\* One clock of every IP in use, then one look at each command in flight.
\* shows is the set of IPs that show done after this clock: a level, so it
\* retires every command in flight on that IP.
Tick(shows) ==
  LET gone == {c \in FlightSet : stream[c].ip \in shows}
      still == [c \in FlightSet \ gone |-> Aged(in_flight[c])]
      late == \E c \in FlightSet \ gone : still[c] > CycleBudget
  IN  /\ pc = "tick"
      /\ total_cycles' = total_cycles + 1
      /\ in_flight' = still
      /\ retired' = retired \cup {stream[c].token_out : c \in gone}
      /\ completions' = completions + Cardinality(gone)
      /\ done' = done \cup gone
      /\ IF late THEN Return("timeout")
         ELSE IF total_cycles' > GlobalBudget THEN Return("global_timeout")
         ELSE LoopTop(pending, FlightSet \ gone)
      /\ UNCHANGED <<stream, pending>>

FabricStep ==
  \/ Skip
  \/ LaunchCpu
  \/ LaunchRtl
  \/ StartTick
  \/ ReportStuck
  \/ Rescan
  \/ \E shows \in SUBSET UniqueIps : Tick(shows)

FabricInit ==
  /\ pc = "idle" /\ result = "none"
  /\ stream = <<>> /\ pending = <<>> /\ in_flight = NoFlight
  /\ i = 1 /\ launched_any = FALSE
  /\ retired = {0} /\ done = {}
  /\ total_cycles = 0 /\ completions = 0

\* All of this is local to run(): a second run finds nothing of the first but
\* the IPs, which may show done at any clock as it is.
FabricNext ==
  \/ FabricStep
  \/ result = "none" /\ (\E s \in Streams : Run(s))

FabricSpec == FabricInit /\ [][FabricNext]_fabricVars

\* run() is one thread that waits for nothing: once called it keeps stepping.
FairFabricSpec == FabricSpec /\ WF_fabricVars(FabricStep)

(***************************************************************************)
(* Properties                                                              *)
(***************************************************************************)
\* The locals of Fabric::run keep their types.
FabricTypeOK ==
  /\ pc \in {"idle", "scan", "tick"}
  /\ IsStream(stream)
  /\ pending \in Seq(Cmds)
  /\ i \in Nat \ {0}
  /\ launched_any \in BOOLEAN
  /\ FlightSet \subseteq Cmds /\ in_flight \in [FlightSet -> Nat]
  /\ retired \subseteq Nat
  /\ total_cycles \in Nat /\ completions \in Nat
  /\ result \in Result
  /\ done \subseteq Cmds

\* Every command of the stream is at any moment in exactly one place, pending,
\* in flight or retired, and pending holds it once: swap_remove, the drain of
\* the commands in flight and the immediate retirement lose and repeat nothing.
ExactlyOnce ==
  /\ \A j, k \in DOMAIN pending : pending[j] = pending[k] => j = k
  /\ PendingSet \cup FlightSet \cup done = Cmds
  /\ PendingSet \cap FlightSet = {} /\ PendingSet \cap done = {}
  /\ FlightSet \cap done = {}

\* A command that has been launched was waiting for nothing, or for a token
\* that some retired command of the stream produced.
TokenWait ==
  \A c \in Cmds \ PendingSet :
    stream[c].token_in = 0 \/ \E b \in done : stream[b].token_out = stream[c].token_in

\* A run that reports success has retired every command, counted once.
OkMeansAll == result = "ok" => done = Cmds /\ completions = Len(stream)

\* Each command of a stream waits for a token that a command before it yields.
WellTokened(s) ==
  \A c \in 1..Len(s) :
    s[c].token_in = 0 \/ \E b \in 1..(c - 1) : s[b].token_out = s[c].token_in

\* No well-tokened stream is ever reported as stuck, although a scan visits
\* the commands in an order that swap_remove keeps changing.
NeverStuck == WellTokened(stream) => result # "stuck"

\* The global cap is a safety net only: the budgets of the single commands
\* always give out first.
GlobalCapLoose == result # "global_timeout"

\* Every run comes to an end, whatever its tokens and whatever the IPs do.
FabricEnds == pc # "idle" ~> pc = "idle"
============================================================================
