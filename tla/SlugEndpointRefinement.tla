---------------------- MODULE SlugEndpointRefinement ----------------------
(***************************************************************************)
(* The gated endpoints of SlugEndpoint implement EndpointContract.         *)
(***************************************************************************)
EXTENDS SlugEndpoint

\* How the host reads a device's state register.
StatusOf(s) ==
  CASE s.state = IDLE -> "idle"
    [] s.state = BUSY -> "working"
    [] s.state = DONE -> "done"
    [] s.state = PREFAIL -> "refused"
    [] s.state = POSTFAIL -> "lost"

EntryOf(r) == <<IF r.kind = Request THEN "request" ELSE "completion", r.job>>
TrailOf(s) == [i \in 1..Len(s.log) |-> EntryOf(s.log[i])]

Contract == INSTANCE EndpointContract WITH
  Endpoints <- Enforced,
  Jobs <- [JobField -> Reg],
  alive <- present \cap Enforced,
  status <- [d \in Enforced |-> StatusOf(ep[d])],
  effect <- [d \in Enforced |-> ep[d].committed = 1],
  trail <- [d \in Enforced |-> TrailOf(ep[d])],
  era <- [d \in Enforced |-> ep[d].epoch]

\* Every behaviour of the gate is one the contract allows: request before
\* work, completion before success, commitment kept through a failure
\* (submit(), complete(), fail() and the epoch register taken together).
ImplementsContract == Contract!ContractSpec
===========================================================================
