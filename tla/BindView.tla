------------------------------ MODULE BindView ------------------------------
(***************************************************************************)
(* The application's view of the binding table (src/src/app_binding.c).    *)
(* The table belongs to the stack; four parties change it: the network's   *)
(* Bind and Unbind requests (zdp.c), finding & binding (bdb.c), the button *)
(* (app_button.c) and the stack itself when the device leaves or restarts. *)
(* The view is one flag, one_device: do two On/Off bindings have the same  *)
(* destination?  It is computed anew by a task, which Bind and Unbind      *)
(* requests schedule at once and a timer schedules after joining and after *)
(* a successful commissioning.  No view is computed before the             *)
(* coordinator's IEEE address has been asked for and answered, because     *)
(* bindings to the coordinator do not count.                               *)
(***************************************************************************)
EXTENDS Naturals, FiniteSets

CONSTANTS
  Devices,       \* IEEE addresses (with endpoint) of On/Off devices
  Groups,        \* group addresses
  Coordinators,  \* IEEE addresses of the coordinators of the networks around
  None,          \* no network; an address that is not known
  TableSize,     \* APS_BINDING_TABLE_NUM
  MaxTasks,      \* bound: tasks app_update_bind_tbl scheduled at a time
  Presses,       \* the numbers of button presses that occur
  Outcomes       \* the ways finding & binding may end

ASSUME AddressesAssumption ==
  /\ None \notin Devices \cup Groups \cup Coordinators
  /\ Devices \cap Groups = {}
  /\ Devices \cap Coordinators = {}
  /\ Groups \cap Coordinators = {}
ASSUME BoundsAssumption == TableSize \in Nat /\ MaxTasks \in Nat \ {0}
ASSUME PressesAssumption == Presses \subseteq 2..5
ASSUME OutcomesAssumption == Outcomes \subseteq {"success", "no_response", "table_full"}

Endpoints == {1, 2}

\* The entries of the On/Off cluster; the others do not matter to the view.
Entry == [src : Endpoints, dst : Devices \cup Groups \cup Coordinators]

VARIABLES
  home,     \* the network in NV (its coordinator), None if factory new
  joined,   \* zb_isDeviceJoinedNwk()
  table,    \* the On/Off entries of the binding table
  known,    \* app_bind_tbl.extAddrCoordinator, None while not addrCrdnrSet
  idle,     \* app_bind_tbl.idle
  one,      \* app_bind_tbl.one_device
  timer,    \* timerAppBindEvt # NULL: app_bindTimerCb is scheduled
  tasks,    \* scheduled tasks app_update_bind_tbl
  asked,    \* a request for the coordinator's address awaits its response
  finding,  \* finding & binding, from the press on: "no", "started", "added" a
            \* binding
  rejoin,   \* "starting": the network in NV is looked for after a start;
            \* "backoff": switchRejoinBackoffTimerEvt # NULL; or "no"
  silent    \* history: what nobody was told since the timer was started or the
            \* view computed: the table changed, "deleted" by the button or
            \* "added" without a success; a network was "joined" by steering

vars == <<home, joined, table, known, idle, one, timer, tasks, asked, finding, rejoin, silent>>
view == <<known, idle, one, timer, tasks, asked>>

TypeOK ==
  /\ home \in Coordinators \cup {None}
  /\ joined \in BOOLEAN
  /\ table \subseteq Entry
  /\ Cardinality(table) <= TableSize
  /\ known \in Coordinators \cup {None}
  /\ idle \in BOOLEAN
  /\ one \in BOOLEAN
  /\ timer \in BOOLEAN
  /\ tasks \in 0..MaxTasks
  /\ asked \in BOOLEAN
  /\ finding \in {"no", "started", "added"}
  /\ rejoin \in {"no", "starting", "backoff"}
  /\ silent \subseteq {"deleted", "added", "joined"}

-----------------------------------------------------------------------------
\* Two entries with the same destination, other than the coordinator.
onoff_cmp_addr(t, coordinator) ==
  \E e, f \in t : e # f /\ e.dst = f.dst /\ e.dst # coordinator

\* The stack's table: a full table takes no entry, a present one is not doubled.
Bound(t, e) == IF Cardinality(t) < TableSize THEN t \cup {e} ELSE t

Init ==
  /\ home \in Coordinators \cup {None}
  /\ joined = FALSE
  /\ table = {}
  /\ known = None
  /\ idle = TRUE
  /\ one = FALSE
  /\ timer = FALSE
  /\ tasks = 0
  /\ asked = FALSE
  /\ finding = "no"
  /\ rejoin = IF home = None THEN "no" ELSE "starting"
  /\ silent = {}

\* The timer is started, in whatever way: from now on a joining is not unnoticed.
TimerStarts == timer' = TRUE /\ silent' = silent \ {"joined"}

-----------------------------------------------------------------------------
(***************************************************************************)
(* The view.                                                               *)
(***************************************************************************)

\* Mutant: the view is computed with or without the coordinator's address.
app_update_bind_tbl_AtOnce ==
  /\ tasks > 0
  /\ tasks' = tasks - 1
  /\ one' = onoff_cmp_addr(table, known)
  /\ idle' = FALSE
  /\ silent' = {}
  /\ UNCHANGED <<home, joined, table, known, timer, asked, finding, rejoin>>

\* The task app_update_bind_tbl.  Without the coordinator's address it only
\* starts the timer (one that runs is cancelled and scheduled again).
app_update_bind_tbl ==
  /\ tasks > 0
  /\ tasks' = tasks - 1
  /\ \/ /\ known = None
        /\ idle' = TRUE
        /\ TimerStarts
        /\ UNCHANGED one
     \/ /\ known # None
        /\ one' = onoff_cmp_addr(table, known)
        /\ idle' = FALSE
        /\ silent' = {}
        /\ UNCHANGED timer
  /\ UNCHANGED <<home, joined, table, known, asked, finding, rejoin>>

\* app_bindTimerCb on a joined device asks for the coordinator's address until
\* it is known, and then schedules the update.  (Not joined, it does nothing.)
app_bindTimerCb ==
  /\ timer /\ joined
  /\ \/ /\ known = None
        /\ asked' = TRUE
        /\ UNCHANGED <<timer, tasks>>
     \/ /\ known # None
        /\ tasks < MaxTasks
        /\ tasks' = tasks + 1
        /\ timer' = FALSE
        /\ UNCHANGED asked
  /\ UNCHANGED <<home, joined, table, known, idle, one, finding, rejoin, silent>>

\* The coordinator answers with its address or an error.
app_getIeeeCb(success) ==
  /\ joined /\ asked
  /\ asked' = FALSE
  /\ known' = IF success THEN home ELSE known
  /\ UNCHANGED <<home, joined, table, idle, one, timer, tasks, finding, rejoin, silent>>

-----------------------------------------------------------------------------
(***************************************************************************)
(* The table.                                                              *)
(***************************************************************************)

\* Mutant: the view is taken back until the update.
app_bindOrUnbindIndicate_Invalidates(t) ==
  /\ joined /\ tasks < MaxTasks
  /\ table' = t
  /\ tasks' = tasks + 1
  /\ idle' = TRUE
  /\ UNCHANGED <<home, joined, known, one, timer, asked, finding, rejoin, silent>>

\* A Bind or Unbind request leaves table t, and the update is scheduled.
app_bindOrUnbindIndicate(t) ==
  /\ joined /\ tasks < MaxTasks
  /\ table' = t
  /\ tasks' = tasks + 1
  /\ UNCHANGED <<home, joined, known, idle, one, timer, asked, finding, rejoin, silent>>

Bind(e)   == app_bindOrUnbindIndicate(Bound(table, e))
Unbind(e) == app_bindOrUnbindIndicate(table \ {e})

\* What n presses delete: the On/Off bindings of endpoint 1, of endpoint 2 or of
\* both whose destination is not the coordinator's address as it is known.
Deleted(n) ==
  LET eps == CASE n = 3 -> {1} [] n = 4 -> {2} [] n = 5 -> {1, 2} [] OTHER -> {}
  IN  {e \in table : e.src \in eps /\ e.dst # known}

\* Two, three and four presses also start finding & binding, at once or when a
\* commissioning that is under way has ended; the view is left as it is by all.
buttonPressed(n) ==
  /\ table' = table \ Deleted(n)
  /\ finding' = IF n \in 2..4 /\ finding = "no" THEN "started" ELSE finding
  /\ silent' = IF Deleted(n) = {} THEN silent ELSE silent \cup {"deleted"}
  /\ UNCHANGED <<home, joined, view, rejoin>>

\* Mutant: a full table is written past its end.
bdb_binding_Overflow(e) ==
  /\ joined /\ finding # "no"
  /\ e.dst \in Devices
  /\ table' = table \cup {e}
  /\ finding' = "added"
  /\ UNCHANGED <<home, joined, view, rejoin, silent>>

\* bdb_binding adds an On/Off binding to a device that answered.
bdb_binding(e) ==
  /\ joined /\ finding # "no"
  /\ e.dst \in Devices
  /\ Cardinality(table) < TableSize
  /\ table' = table \cup {e}
  /\ finding' = "added"
  /\ UNCHANGED <<home, joined, view, rejoin, silent>>

\* Mutant: a finished finding & binding does not start the timer.
zb_bdbCommissioningCb_NoTimer(outcome) ==
  /\ finding # "no" /\ rejoin # "starting"
  /\ outcome = "no_response" => finding = "started"
  /\ finding' = "no"
  /\ UNCHANGED <<home, joined, table, view, rejoin, silent>>

\* Finding & binding ends; only success starts the timer.  Without a response
\* there has been nothing to add; so too without a network.
zb_bdbCommissioningCb(outcome) ==
  /\ finding # "no" /\ rejoin # "starting"
  /\ outcome = "no_response" => finding = "started"
  /\ finding' = "no"
  /\ \/ /\ outcome = "success"
        /\ TimerStarts
        /\ rejoin' = "no"
     \/ /\ outcome # "success"
        /\ silent' = IF finding = "added" THEN silent \cup {"added"} ELSE silent
        /\ UNCHANGED <<timer, rejoin>>
  /\ UNCHANGED <<home, joined, table, known, idle, one, tasks, asked>>

-----------------------------------------------------------------------------
(***************************************************************************)
(* The network and the power.                                              *)
(***************************************************************************)

\* The device is on a network: the one in NV or, factory new, one that it steered.
OnNetwork(network) ==
  /\ home # None => network = home
  /\ joined' = TRUE
  /\ home' = network
  /\ UNCHANGED <<table, known, idle, one, tasks, asked, finding>>

\* zb_bdbInitCb with joined set, or zb_bdbCommissioningCb with success.
Join(network) ==
  /\ ~joined
  /\ OnNetwork(network)
  /\ TimerStarts
  /\ rejoin' = "no"

\* The application is not told: rejoining ends while finding & binding runs, or
\* finding & binding follows steering at once and its status is told instead.
JoinUnnoticed(network) ==
  /\ ~joined
  /\ finding # "no" /\ rejoin # "starting"
  /\ OnNetwork(network)
  /\ silent' = IF home = None THEN silent \cup {"joined"} ELSE silent
  /\ UNCHANGED <<timer, rejoin>>

\* Mutant: a start that fails is not followed up.
RejoinFailed_GivesUp ==
  /\ ~joined /\ home # None
  /\ rejoin' = "no"
  /\ UNCHANGED <<home, joined, table, view, finding, silent>>

\* zb_bdbInitCb after a failed start, or REJOIN_FAILURE.
RejoinFailed ==
  /\ ~joined /\ home # None
  /\ rejoin' = "backoff"
  /\ UNCHANGED <<home, joined, table, view, finding, silent>>

\* app_rejoinBacckoff: until it is confirmed, rejoining is requested every minute,
\* also of a device that has joined unnoticed.
app_rejoinBacckoff ==
  /\ joined /\ rejoin = "backoff"
  /\ TimerStarts
  /\ rejoin' = "no"
  /\ UNCHANGED <<home, joined, table, known, idle, one, tasks, asked, finding>>

ParentLost ==
  /\ joined
  /\ joined' = FALSE
  /\ UNCHANGED <<home, table, view, finding, rejoin, silent>>

\* app_leaveCnfHandler with success: the device is factory new again, without a
\* restart.  Whether the stack keeps the bindings and a commissioning under way is
\* its own affair.  (A leave that failed changes nothing.)
app_leaveCnfHandler ==
  /\ home # None
  /\ joined' = FALSE
  /\ home' = None
  /\ table' \in {table, {}}
  /\ asked' = FALSE
  /\ finding' \in {finding, "no"}
  /\ rejoin' = "no"
  /\ UNCHANGED <<known, idle, one, timer, tasks, silent>>

\* The stack restores the network and a table, the statics are initialised.
Reboot ==
  /\ joined' = FALSE
  /\ table' \in {table, {}}
  /\ known' = None
  /\ idle' = TRUE
  /\ one' = FALSE
  /\ timer' = FALSE
  /\ tasks' = 0
  /\ asked' = FALSE
  /\ finding' = "no"
  /\ rejoin' = IF home = None THEN "no" ELSE "starting"
  /\ silent' = {}
  /\ UNCHANGED home

Next ==
  \/ app_update_bind_tbl
  \/ app_bindTimerCb
  \/ \E success \in BOOLEAN : app_getIeeeCb(success)
  \/ \E e \in Entry : Bind(e)
  \/ \E e \in Entry : Unbind(e)
  \/ \E n \in Presses : buttonPressed(n)
  \/ \E e \in Entry : bdb_binding(e)
  \/ \E outcome \in Outcomes : zb_bdbCommissioningCb(outcome)
  \/ \E network \in Coordinators : Join(network)
  \/ \E network \in Coordinators : JoinUnnoticed(network)
  \/ RejoinFailed
  \/ app_rejoinBacckoff
  \/ ParentLost
  \/ app_leaveCnfHandler
  \/ Reboot

Spec == Init /\ [][Next]_vars

\* The event loop runs scheduled tasks and due timers; a request that is sent
\* again and again is answered with success some day, and so is a rejoining, but
\* for the times when finding & binding runs; it ends, as module FindBind shows.
FairSpec ==
  /\ Spec
  /\ WF_vars(app_update_bind_tbl)
  /\ WF_vars(app_bindTimerCb)
  /\ SF_vars(app_getIeeeCb(TRUE))
  /\ SF_vars(finding = "no" /\ app_rejoinBacckoff)
  /\ WF_vars(\E outcome \in Outcomes : zb_bdbCommissioningCb(outcome))

-----------------------------------------------------------------------------
(***************************************************************************)
(* Properties.                                                             *)
(***************************************************************************)

\* Do two On/Off bindings really have the same destination?
Shared ==
  \E e, f \in table : e # f /\ e.dst = f.dst /\ e.dst # home

\* A view that exists and does not agree with the table.
Stale == joined /\ ~idle /\ one # Shared

\* "true if multiple bindings share the same device, false otherwise"
\* (app_binding.c:139): on one network, a view that does not say so is about to be
\* computed anew: an update is scheduled, the timer runs or finding & binding has
\* not ended (zdp.c:36-39, zb_appCb.c:247-250).  Three changes go unnoticed until
\* something else causes an update: what the button deletes (app_button.c:240), what
\* a finding & binding adds that ends without success, and a network steered with
\* finding & binding asked for meanwhile (bdb.c:1220-1233).
StaleIsNoticed == Stale => tasks > 0 \/ timer \/ finding # "no" \/ silent # {}

\* The view is made of the coordinator's address: there is none before it is
\* known, and while it is being waited for, the timer that asks for it runs.
\* (app_binding.c:71-77, 170-172).
ViewHasAddress ==
  /\ ~idle => known # None
  /\ asked => timer \/ known # None

\* What the control relies on (app_on_off.c:654-661): the flags it reads change
\* in an update, by joining and leaving, and by a restart, and in no other way.
Env == INSTANCE ControlEnvironment WITH bindIdle <- idle, oneDevice <- one
ControlEnvironmentKept == Env!Spec

\* A device that stays on its network gets a view (app_binding.c:167-181), also if
\* the rejoining was confirmed to nobody (bdb.c:1388).  Left out is a network that
\* was steered with finding & binding asked for meanwhile, which then takes the
\* place of the confirmation (bdb.c:1220-1233, zb_appCb.c:172).
ViewArrives == joined ~> (~joined \/ ~idle \/ "joined" \in silent)
=============================================================================
