------------------------- MODULE ControlEnvironment -------------------------
(***************************************************************************)
(* What OnOffControl assumes of the rest of the firmware about the network *)
(* and the binding view: the three flags the control reads, and the steps  *)
(* in which they change.  BindView, the module of the code that keeps them,*)
(* implements it; so an update of the view is the only step in which       *)
(* one_device changes, and once there is a view only a restart takes it    *)
(* away.                                                                   *)
(***************************************************************************)
VARIABLES
  joined,     \* zb_isDeviceJoinedNwk()
  bindIdle,   \* app_bind_tbl.idle: no binding view yet
  oneDevice   \* app_bind_tbl.one_device

flags == <<joined, bindIdle, oneDevice>>

Off == joined = FALSE /\ bindIdle = TRUE /\ oneDevice = FALSE

Update ==
  /\ bindIdle' = FALSE
  /\ oneDevice' \in BOOLEAN
  /\ UNCHANGED joined

Join  == ~joined /\ joined' = TRUE  /\ UNCHANGED <<bindIdle, oneDevice>>
Leave == joined  /\ joined' = FALSE /\ UNCHANGED <<bindIdle, oneDevice>>

Restart == Off'

Spec == Off /\ [][Update \/ Join \/ Leave \/ Restart]_flags

=============================================================================
