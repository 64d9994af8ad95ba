---------------------------- MODULE MC_BindView ----------------------------
(***************************************************************************)
(* Instances of BindView for TLC.                                          *)
(***************************************************************************)
EXTENDS BindView

CONSTANTS a, b, g, zc1

TwoDevices == {a, b}
OneGroup   == {g}
OneNetwork == {zc1}

AllPresses == 2..5
AnyOutcome  == {"success", "no_response", "table_full"}
=============================================================================
