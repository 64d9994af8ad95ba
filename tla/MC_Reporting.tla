---------------------------- MODULE MC_Reporting ----------------------------
(***************************************************************************)
(* Instances of Reporting for TLC.  Intervals are in seconds, of 0..3.     *)
(***************************************************************************)
EXTENDS Reporting, TLC

CONSTANTS temp, hum

Both == {temp, hum}

S(n, x, c) == [min |-> n, max |-> x, change |-> c]

Defaults     == (temp :> S(1, 2, 2)) @@ (hum :> S(1, 3, 1))
Reconfigured == (temp :> {S(2, 2, 1), S(0, 2, 1), S(1, 0, 1), S(2, 1, 1), S(0, Never, 1)})
                @@ (hum :> {})
Readings     == (temp :> {0, 1, 2}) @@ (hum :> {0})
AtStart      == (temp :> -32768) @@ (hum :> 65535)
AllOnes      == (temp :> -1) @@ (hum :> 65535)
=============================================================================
