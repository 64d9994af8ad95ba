-------------------------- MODULE MC_OnOffControl --------------------------
(***************************************************************************)
(* Instances of OnOffControl for TLC.  The values are scaled: thresholds   *)
(* 10 and 30 of a range 0..50; 20 is between them, 40 above, 99 out of     *)
(* range.                                                                  *)
(***************************************************************************)
EXTENDS OnOffControl

Heating         == [c \in Chan |-> {"ON_OFF"}]
BothActions     == [c \in Chan |-> {"ON_OFF", "OFF_ON"}]
EveryAction     == [c \in Chan |-> IF c = "temp" THEN {"ON_OFF", "TOGGLE"}
                                                 ELSE {"OFF_ON"}]
InsideBand      == {15}
OutsideBand     == {5, 35}
AroundBand      == {5, 20, 35}
NoThresholds    == [c \in Chan |-> {}]
Thresholds      == [c \in Chan |-> IF c = "temp" THEN {20, 30, 40, 99} ELSE {}]
NoChannel       == {}
TempOnly        == {"temp"}
AnyView         == {TRUE, FALSE}
NoView          == {}
=============================================================================
