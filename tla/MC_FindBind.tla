---------------------------- MODULE MC_FindBind ----------------------------
(***************************************************************************)
(* Instances of FindBind for TLC.                                          *)
(***************************************************************************)
EXTENDS FindBind, TLC

CONSTANTS a, b

TwoDevices == {a, b}
OneDevice  == {a}

\* The two devices answer from different endpoints; the second endpoint of b has
\* nothing to bind.
ServedTwo    == (a :> 1) @@ (b :> 2)
DescribedTwo == (a :> {1, 2}) @@ (b :> {2}) @@ (None :> {1})
ServedOne    == a :> 1
DescribedOne == (a :> {1}) @@ (None :> {1})
=============================================================================
