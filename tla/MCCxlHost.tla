----------------------------- MODULE MCCxlHost -----------------------------
(***************************************************************************)
(* Small jobs and three configurations of the pipeline for CxlReplay.      *)
(***************************************************************************)
EXTENDS CxlReplay

\* Matrices that tell rows from columns and positions from one another.
Upper == [x \in Cell |-> IF x[1] < x[2] THEN 2 ELSE IF x[1] = x[2] THEN 1 ELSE 0]
Mirror == [x \in Cell |-> IF x[1] # x[2] THEN 1 ELSE 0]

SampleJobs == {[a |-> Upper, b |-> Mirror], [a |-> Mirror, b |-> Upper]}

MCHjConfigs ==
  {[mode |-> "Validation", stride |-> 1, missed |-> 0],
   [mode |-> "Delta", stride |-> 1, missed |-> 4],
   [mode |-> "Full", stride |-> 3, missed |-> 2]}
=============================================================================
