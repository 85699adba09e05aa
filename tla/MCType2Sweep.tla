---------------------------- MODULE MCType2Sweep ----------------------------
(***************************************************************************)
(* A small job and the damage done to its files, for Type2Sweep.           *)
(***************************************************************************)
EXTENDS Type2Sweep

\* Matrices that tell rows from columns and positions from one another.
Upper == [x \in Cell |-> IF x[1] < x[2] THEN 2 ELSE IF x[1] = x[2] THEN 1 ELSE 0]
Mirror == [x \in Cell |-> IF x[1] # x[2] THEN 1 ELSE 0]

SampleJobs == {[a |-> Upper, b |-> Mirror]}

\* A load of B, the acknowledgement of the compute, and a read.
MCRequestDamage == {"partial", "opcode", "data"} \X {8}
MCResponseDamage == DamageKinds \X {9, 10}
=============================================================================
