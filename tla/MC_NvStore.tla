----------------------------- MODULE MC_NvStore -----------------------------
(***************************************************************************)
(* Instances of NvStore for TLC: the two items of NV_MODULE_ZCL that the   *)
(* application writes, in sectors of three or four entries.                *)
(***************************************************************************)
EXTENDS NvStore, TLC

CONSTANTS report, onoff, new, newer

TwoItems  == {report, onoff}
TwoValues == {new, newer}

Alike == Permutations(TwoItems) \cup Permutations(TwoValues)
=============================================================================
