------------------------------ MODULE MC_Panel ------------------------------
(***************************************************************************)
(* Instances of Panel for TLC.                                             *)
(***************************************************************************)
EXTENDS Panel

\* Stop, and the shortest time whose eight bits are zero.
TimesToWrap == {0, 256}
=============================================================================
