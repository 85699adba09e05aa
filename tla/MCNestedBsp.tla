---------------------------- MODULE MCNestedBsp ----------------------------
(***************************************************************************)
(* The matrix of the experiment: its device counts and modes, with two     *)
(* blocks for its sixteen.                                                 *)
(***************************************************************************)
EXTENDS NestedBsp

CONSTANTS DeviceCounts, BlockCounts

AllCells == [devices : DeviceCounts, blocks : BlockCounts, mode : Mode, fault : FAULTS \cup {None}]
=============================================================================
