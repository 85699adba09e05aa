-------------------------- MODULE MCSlugEndpoint --------------------------
(***************************************************************************)
(* Instances of SlugEndpoint for TLC.  Each constant FieldValues below is  *)
(* what the host writes to the descriptor registers in one run.            *)
(***************************************************************************)
EXTENDS SlugEndpointRefinement

\* The register f takes the values of writes[f]; the others keep their reset 0.
Writes(writes) == [f \in Field |-> IF f \in DOMAIN writes THEN writes[f] ELSE {}]

\* One endpoint: stale epochs, empty jobs, late releases, injected faults, and a
\* source and target that overlap or lie out of range.
GateFields == Writes([job_epoch |-> {1, 2}, words |-> {1}, dst |-> {8, 12},
                      release |-> {6}, fault |-> {1, 2}])

\* Contention: jobs at once, or released while an earlier one holds the link.
LinkFields == Writes([job_epoch |-> {1}, words |-> {2}, release |-> {4}])
===========================================================================
