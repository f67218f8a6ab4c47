---------------------------- MODULE MCSelection ----------------------------
(***************************************************************************)
(* Instances of Selection for TLC.                                         *)
(***************************************************************************)
EXTENDS Selection

\* Refused, unset, the maximum, above the maximum.
SweepSizes == {-1, 0, 2, 3}
=============================================================================
