------------------------- MODULE EndpointContract -------------------------
(***************************************************************************)
(* What a gated endpoint promises, without registers, timers, addresses or *)
(* costs: the request is on the trail before the work starts, the          *)
(* completion is on the trail before success shows, and a job that ends    *)
(* badly says whether its output was stored.                               *)
(***************************************************************************)
EXTENDS Naturals, Sequences

CONSTANTS
  Endpoints,    \* gated devices
  Jobs          \* what a request can ask for

VARIABLES
  alive,        \* endpoints that exist
  status,       \* what the host can see of the last job
  effect,       \* has that job's output been stored?
  trail,        \* the evidence of this epoch
  era           \* the epoch

abstractVars == <<alive, status, effect, trail, era>>

Entry == {"request", "completion"} \X Jobs
Statuses == {"idle", "working", "done", "refused", "lost"}

Rest(d) == status[d] \in {"idle", "done"}
Running(d) == status[d] = "working"

\* The job the last entry of a trail is about.
Asked(entries) == entries[Len(entries)][2]

Begin(d) ==
  /\ d \in alive /\ Rest(d)
  /\ trail'[d] # <<>> /\ Asked(trail'[d]) \in Jobs
  /\ trail' = [trail EXCEPT ![d] = Append(@, <<"request", Asked(trail'[d])>>)]
  /\ status' = [status EXCEPT ![d] = "working"]
  /\ effect' = [effect EXCEPT ![d] = FALSE]
  /\ UNCHANGED <<alive, era>>

Deny(d) ==
  /\ d \in alive /\ Rest(d)
  /\ status' = [status EXCEPT ![d] = "refused"]
  /\ effect' = [effect EXCEPT ![d] = FALSE]
  /\ UNCHANGED <<alive, trail, era>>

StoreOutput(d) ==
  /\ d \in alive /\ Running(d) /\ ~effect[d]
  /\ effect' = [effect EXCEPT ![d] = TRUE]
  /\ UNCHANGED <<alive, status, trail, era>>

\* Success needs the stored output and leaves the completion of the job that
\* the last request named.
Certify(d) ==
  /\ d \in alive /\ Running(d) /\ effect[d]
  /\ trail' = [trail EXCEPT ![d] = Append(@, <<"completion", Asked(@)>>)]
  /\ status' = [status EXCEPT ![d] = "done"]
  /\ UNCHANGED <<alive, effect, era>>

\* The completion could not be recorded: no success, but the store is told.
Lose(d) ==
  /\ d \in alive /\ Running(d) /\ effect[d]
  /\ status' = [status EXCEPT ![d] = "lost"]
  /\ UNCHANGED <<alive, effect, trail, era>>

\* Only a later era acknowledges a failure and retires the trail.
NewEra(d) ==
  /\ d \in alive /\ ~Running(d)
  /\ era'[d] > era[d] /\ era' = [era EXCEPT ![d] = era'[d]]
  /\ status' = [status EXCEPT ![d] = "idle"]
  /\ effect' = [effect EXCEPT ![d] = FALSE]
  /\ trail' = [trail EXCEPT ![d] = <<>>]
  /\ UNCHANGED alive

\* Plugging in or out starts an endpoint afresh.
Replug(d) ==
  /\ alive' \in {alive \cup {d}, alive \ {d}} \ {alive}
  /\ status' = [status EXCEPT ![d] = "idle"]
  /\ effect' = [effect EXCEPT ![d] = FALSE]
  /\ trail' = [trail EXCEPT ![d] = <<>>]
  /\ era' = [era EXCEPT ![d] = 1]

ContractInit ==
  /\ alive \subseteq Endpoints
  /\ status = [d \in Endpoints |-> "idle"]
  /\ effect = [d \in Endpoints |-> FALSE]
  /\ trail = [d \in Endpoints |-> <<>>]
  /\ era = [d \in Endpoints |-> 1]

ContractNext ==
  \E d \in Endpoints : \/ Begin(d) \/ Deny(d) \/ StoreOutput(d) \/ Certify(d)
                       \/ Lose(d) \/ NewEra(d) \/ Replug(d)

ContractSpec == ContractInit /\ [][ContractNext]_abstractVars
===========================================================================
