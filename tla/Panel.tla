------------------------------- MODULE Panel -------------------------------
(***************************************************************************)
(* The button, the link icon and the application's timers:                 *)
(* src/src/app_button.c, app_lcd.c (the icon), zcl_appCb.c (Identify),     *)
(* zb_appCb.c (the callbacks of commissioning and of leaving),             *)
(* app_utility.c (the poll rate), and the event timers of                  *)
(* src/tl_zigbee_sdk/proj/os/ev_timer.c they all share.                    *)
(*                                                                         *)
(* A timer fires at any time after it was scheduled.  Most have a handle,  *)
(* a pointer to their place in the pool of timers.  Which place that is    *)
(* matters only for a handle that outlives its timer: findbindTimerEvt,    *)
(* whose place may belong to another timer when it is cancelled next.  A   *)
(* timer that is cut in this way leaves a handle without a timer, too; the *)
(* module follows those kinds only whose handle is never cancelled, where  *)
(* that ends the matter.                                                   *)
(*                                                                         *)
(* Commissioning, whose steps are in module FindBind, is reduced to what   *)
(* it tells the application.                                               *)
(***************************************************************************)
EXTENDS Naturals

CONSTANTS
  Repeats,         \* how often an effect blinks, and how often the search does
  IdentifyTimes,   \* times of Identify commands
  MaxClicks,       \* bound: presses in a row
  MaxSearches,     \* bound: timers of net_steer_start_offCb at a time
  Followed         \* bound: kinds of timers followed into the place of an ended one,
                   \* of the two that nobody cancels through a handle of their own

ASSUME PanelAssumption ==
  /\ Repeats \subseteq Nat \ {0} /\ IdentifyTimes \subseteq Nat
  /\ MaxClicks \in Nat /\ MaxSearches \in Nat \ {0}

\* Timers, by their callback.  Held ones have a handle that the callback resets.
Held == {"blink",       \* timerLedEvt
         "identify",    \* identifyTimerEvt
         "steer",       \* steerTimerEvt
         "backoff",     \* switchRejoinBackoffTimerEvt
         "poll",        \* timerSetPollRateEvt
         "findBind"}    \* bdbFBTimerEvt
Kinds == Held \cup {"searchEnd",    \* net_steer_start_offCb, no handle
                    "flag"}         \* find_and_bind_clear_flag: findbindTimerEvt

\* The kinds for which no cancel is written: bdbFBTimerEvt is only tested for NULL,
\* and the end of the search has no handle.
Uncancelled == {"findBind", "searchEnd"}

ASSUME FollowedAssumption == Followed \subseteq Uncancelled

VARIABLES
  timers,    \* running: how many of each kind; handle: handles that are not NULL;
             \* later: kinds scheduled since findbindTimerEvt's place became free
  icon,      \* on; sta, times of g_appCtx (oriSta is never set);
             \* zero, a history: it was last told to blink, zero times
  button,    \* state, ctn; down: the key is held
  searching, \* g_appCtx.net_steer_start
  fast,      \* is the poll rate raised?
  net,       \* "new" (factory new), "joined", or "lost"
  leaving,   \* a leave confirm is to come, of a success or a failure
  bdb,       \* state and find (the mode is finding & binding, where it matters)
  rejoin,    \* asked: the stack tries; told: its result is to be confirmed
  cut        \* history: timers that were cancelled in place of another one

vars == <<timers, icon, button, searching, fast, net, leaving, bdb, rejoin, cut>>

Timers == [running : [Kinds -> 0..MaxSearches], handle : SUBSET (Held \cup {"flag"}),
           later : SUBSET Kinds]

TypeOK ==
  /\ timers \in Timers
  /\ \A k \in Kinds \ {"searchEnd"} : timers.running[k] <= 1
  /\ icon \in [on : BOOLEAN, sta : BOOLEAN, times : 0..255, zero : BOOLEAN]
  /\ button \in [state : {"normal", "check", "release", "doing"}, ctn : 0..MaxClicks, down : BOOLEAN]
  /\ searching \in BOOLEAN /\ fast \in BOOLEAN
  /\ net \in {"new", "joined", "lost"}
  /\ leaving \in BOOLEAN
  /\ bdb \in [state : {"init", "idle", "starting", "steering", "finding"}, find : BOOLEAN]
  /\ rejoin \in [asked : BOOLEAN, told : {"nothing", "success", "failure", "lost"}]
  /\ cut \subseteq Kinds

\* The device has started; bdb_init has been called.
Init ==
  /\ timers = [running |-> [k \in Kinds |-> 0], handle |-> {}, later |-> {}]
  /\ icon = [on |-> FALSE, sta |-> FALSE, times |-> 0, zero |-> FALSE]
  /\ button = [state |-> "normal", ctn |-> 0, down |-> FALSE]
  /\ searching = FALSE
  /\ fast = FALSE
  /\ net \in {"new", "joined"}
  /\ leaving = FALSE
  /\ bdb = [state |-> "init", find |-> FALSE]
  /\ rejoin = [asked |-> FALSE, told |-> "nothing"]
  /\ cut = {}

-----------------------------------------------------------------------------
(***************************************************************************)
(* The event timers (ev_timer.c).                                          *)
(***************************************************************************)
Running(t, k) == t.running[k] > 0

\* A handle of a timer that has ended.
Dangling(t) == "flag" \in t.handle /\ ~Running(t, "flag")

\* ev_timer_taskPost: a free place is taken, maybe the one of the dangling handle.
Schedule(t, k) ==
  [t EXCEPT !.running[k] = @ + 1,
            !.handle = IF k \in Held \cup {"flag"} THEN @ \cup {k} ELSE @,
            !.later = IF Dangling(t) THEN @ \cup ({k} \cap Followed) ELSE @]

\* ev_unon_timer: the place is free again.
Ended(t, k) ==
  [t EXCEPT !.running[k] = @ - 1,
            !.later = IF k = "flag" \/ t.running[k] = 1 THEN @ \ {k} ELSE @]

\* ev_timer_taskCancel, and the handle set to NULL.
Cancel(t, k) ==
  IF k \in t.handle
  THEN [(IF Running(t, k) THEN Ended(t, k) ELSE t) EXCEPT !.handle = @ \ {k}]
  ELSE t

\* if (handle) cancel; handle = schedule
Restart(t, k) == Schedule(Cancel(t, k), k)

\* Mutant: a timer is scheduled whether it runs or not.
Start_Twice(t, k) == Schedule(t, k)

\* if (!handle) handle = schedule
Start(t, k) == IF k \in t.handle THEN t ELSE Schedule(t, k)

\* Mutant: a callback ends its timer and leaves its handle.
Expired_Held(t, k) == Ended(t, k)

\* The callback of a timer resets the handle and returns -1.
Expired(t, k) == [Ended(t, k) EXCEPT !.handle = @ \ {k}]

-----------------------------------------------------------------------------
(***************************************************************************)
(* The link icon (app_lcd.c).                                              *)
(***************************************************************************)

Blinking == "blink" \in timers.handle

\* light_blink_start: what is left of the icon.  Blinking does not begin anew if it
\* is going on; the number of times is kept in eight bits.
Started(times) ==
  [on   |-> icon.on \/ ~Blinking,
   sta  |-> icon.sta \/ ~Blinking,
   times |-> times % 256,
   zero |-> times % 256 = 0]

\* Mutant: the icon stays as it is.
Stopped_AsItIs == IF Blinking THEN [icon EXCEPT !.times = 0, !.zero = FALSE] ELSE icon

\* light_blink_stop.
Stopped ==
  IF Blinking THEN [icon EXCEPT !.on = FALSE, !.times = 0, !.zero = FALSE] ELSE icon

Elsewhere == UNCHANGED <<button, searching, fast, net, leaving, bdb, rejoin, cut>>

lcd_link_blink_cb ==
  /\ Running(timers, "blink")
  /\ \/ /\ icon.times = 0
        /\ timers' = Expired(timers, "blink")
        /\ UNCHANGED icon
     \/ /\ ~icon.sta /\ icon.times = 1
        /\ timers' = Expired(timers, "blink")
        /\ icon' = [icon EXCEPT !.times = 0, !.on = FALSE]
     \/ /\ icon.times > (IF icon.sta THEN 0 ELSE 1)
        /\ icon' = [icon EXCEPT !.on = ~icon.sta, !.sta = ~icon.sta,
                                !.times = IF icon.sta THEN @ ELSE @ - 1]
        /\ UNCHANGED timers
  /\ Elsewhere

-----------------------------------------------------------------------------
(***************************************************************************)
(* Identify (zcl_appCb.c).                                                 *)
(***************************************************************************)

\* Blinking and countdown begin together.  A command that comes during the
\* countdown changes its time, which is not modelled, and nothing else.
app_zclIdentifyCmdHandler(time) ==
  /\ \/ /\ time = 0
        /\ icon' = Stopped
        /\ timers' = Cancel(Cancel(timers, "identify"), "blink")
     \/ /\ time # 0 /\ "identify" \notin timers.handle
        /\ icon' = Started(time)
        /\ timers' = Schedule(Start(timers, "blink"), "identify")
  /\ Elsewhere

\* The countdown has reached zero.
app_zclIdentifyTimerCb ==
  /\ Running(timers, "identify")
  /\ timers' = Expired(timers, "identify")
  /\ UNCHANGED <<icon>> /\ Elsewhere

\* Trigger effects; the one that stops is "zero times".
app_zcltriggerCmdHandler(times) ==
  /\ icon' = IF times = 0 THEN Stopped ELSE Started(times)
  /\ timers' = IF times = 0 THEN Cancel(timers, "blink") ELSE Start(timers, "blink")
  /\ Elsewhere

-----------------------------------------------------------------------------
(***************************************************************************)
(* The button (app_button.c).                                              *)
(***************************************************************************)
keyScan_keyPressedCB ==
  /\ ~button.down /\ button.ctn < MaxClicks
  /\ button' = [state |-> "check", ctn |-> button.ctn + 1, down |-> TRUE]
  /\ icon' = [icon EXCEPT !.on = TRUE]
  /\ UNCHANGED <<timers, searching, fast, net, leaving, bdb, rejoin, cut>>

keyScan_keyReleasedCB ==
  /\ button.down
  /\ button' = [button EXCEPT !.state = "release", !.down = FALSE]
  /\ icon' = [icon EXCEPT !.on = FALSE]
  /\ UNCHANGED <<timers, searching, fast, net, leaving, bdb, rejoin, cut>>

\* Mutant: the end of the search is not scheduled.
SearchScheduled_Not(t) == t

\* The end of the search, after 90 seconds.  A second long press schedules one more.
SearchScheduled(t) == Schedule(t, "searchEnd")

\* Held for five seconds: the network is left and searched for anew.
buttonKeepPressed ==
  /\ button.state = "check"
  /\ timers.running["searchEnd"] < MaxSearches
  /\ button' = [button EXCEPT !.state = "doing", !.ctn = 0]
  /\ leaving' = TRUE
  /\ searching' = TRUE
  /\ \E times \in Repeats : icon' = Started(times)
  /\ timers' = Start(SearchScheduled(timers), "blink")
  /\ UNCHANGED <<fast, net, bdb, rejoin, cut>>

net_steer_start_offCb ==
  /\ Running(timers, "searchEnd")
  /\ searching' = FALSE
  /\ icon' = Stopped
  /\ timers' = Cancel(Ended(timers, "searchEnd"), "blink")
  /\ UNCHANGED <<button, fast, net, leaving, bdb, rejoin, cut>>

\* The clicks are over: 250 ms after the release.
Clicked(n) ==
  /\ button.state = "release" /\ button.ctn = n
  /\ button' = [button EXCEPT !.state = "normal", !.ctn = 0]
  /\ UNCHANGED <<icon, searching, net, leaving, bdb>>

\* app_setPollRate: a raised poll rate for some time.
app_setPollRate(t) == Restart(t, "poll")

\* app_sensor_get_period, after new reporting intervals or a new read period.
app_sensor_get_period ==
  /\ "poll" \notin timers.handle
  /\ timers' = app_setPollRate(timers)
  /\ fast' = TRUE
  /\ UNCHANGED <<icon, button, searching, net, leaving, bdb, rejoin, cut>>

\* The timer of the report that follows a click changes nothing of this module.
buttonSinglePressed ==
  /\ Clicked(1)
  /\ IF net = "joined"
     THEN timers' = app_setPollRate(timers) /\ fast' = TRUE
     ELSE UNCHANGED <<timers, fast>>
  /\ rejoin' = IF net = "lost" THEN [rejoin EXCEPT !.asked = TRUE] ELSE rejoin
  /\ UNCHANGED cut

\* Two, three and four clicks: finding & binding starts in 50 ms, find_bind_flag is
\* cleared in three minutes; the timer of an earlier press is cancelled, or the one
\* that has its place by now.
buttonFindBind(n) ==
  LET t == Schedule(timers, "findBind")
  IN  /\ n \in 2..4
      /\ Clicked(n)
      /\ \/ /\ "findBind" \in timers.handle
            /\ UNCHANGED <<timers, cut>>
         \/ /\ "findBind" \notin timers.handle
            /\ timers' = [Restart(t, "flag") EXCEPT !.later = {}]
            /\ UNCHANGED cut
         \/ /\ "findBind" \notin timers.handle /\ Dangling(timers)
            /\ \E k \in t.later :
                 /\ timers' = [Schedule(Ended(t, k), "flag") EXCEPT !.later = {}]
                 /\ cut' = cut \cup {k}
      /\ UNCHANGED <<fast, rejoin>>

\* No clicks after a long press, or more than four: no timer is concerned.
buttonOtherwise ==
  /\ \E n \in {0} \cup {k \in 0..MaxClicks : k > 4} : Clicked(n)
  /\ UNCHANGED <<timers, fast, rejoin, cut>>

\* find_and_bind_clear_flag: the handle is not reset.
find_and_bind_clear_flag ==
  /\ Running(timers, "flag")
  /\ timers' = Ended(timers, "flag")
  /\ UNCHANGED <<icon>> /\ Elsewhere

set_pollRateCb ==
  /\ Running(timers, "poll")
  /\ timers' = Expired(timers, "poll")
  /\ fast' = FALSE
  /\ UNCHANGED <<icon, button, searching, net, leaving, bdb, rejoin, cut>>

-----------------------------------------------------------------------------
(***************************************************************************)
(* Commissioning, towards the application (zb_appCb.c, bdb.c).             *)
(***************************************************************************)

\* The stack confirms a success: a search is over, the icon is lit for 3 s.
ConfirmSuccess ==
  /\ searching' = FALSE
  /\ icon' = [on |-> TRUE, sta |-> TRUE, times |-> 1, zero |-> FALSE]
  /\ timers' = Cancel(Cancel(app_setPollRate(Restart(timers, "blink")), "steer"), "backoff")
  /\ fast' = TRUE
  /\ rejoin' = [asked |-> rejoin.asked \/ net' # "joined", told |-> "nothing"]

\* Mutant: a search that failed is not repeated.
SteerAgain_Once == timers' = timers

\* A search is repeated until it is over.
SteerAgain == timers' = IF searching THEN Restart(timers, "steer") ELSE timers

\* NO_NETWORK, TCLK_EX_FAILURE, TARGET_FAILURE.
ConfirmFailure == SteerAgain /\ UNCHANGED <<icon, searching, fast, rejoin>>

\* The other states of commissioning change nothing.
ConfirmNothing == UNCHANGED <<timers, icon, searching, fast, rejoin>>

Aside == UNCHANGED <<button, cut>>

\* A request writes the mode, refused or not.  It is read at the start of a commissioning
\* and when steering has joined, and is written anew before the next start.
Commissioning(state, find) ==
  [state |-> state, find |-> find /\ state \in {"starting", "steering"}]

\* zb_bdbInitCb, after bdb_init.
zb_bdbInitCb(ok) ==
  /\ bdb.state = "init"
  /\ bdb' = Commissioning("idle", bdb.find)
  /\ \/ /\ net = "new"
        /\ SteerAgain
        /\ UNCHANGED <<searching, fast, net>>
     \/ /\ net # "new" /\ ok
        /\ net' = "joined"
        /\ searching' = FALSE
        /\ fast' = TRUE
        /\ timers' = app_setPollRate(timers)
     \/ /\ net # "new" /\ ~ok
        /\ net' = "lost"
        /\ timers' = Start(timers, "backoff")
        /\ UNCHANGED <<searching, fast>>
  /\ UNCHANGED <<icon, leaving, rejoin>> /\ Aside

\* Another device asks this one to leave.
LeaveRequested ==
  /\ net # "new"
  /\ leaving' = TRUE
  /\ UNCHANGED <<timers, icon, searching, fast, net, bdb, rejoin>> /\ Aside

\* The network has been left: the stack is reset (tl_bdbReset), and
\* app_leaveCnfHandler starts a search in some seconds.
LeaveConfirmed ==
  /\ leaving
  /\ leaving' = FALSE
  /\ net' = "new"
  /\ bdb' = Commissioning("init", bdb.find)
  /\ rejoin' = [asked |-> FALSE, told |-> "nothing"]
  /\ timers' = Restart(Cancel(timers, "backoff"), "steer")
  /\ UNCHANGED <<icon, searching, fast>> /\ Aside

\* The stack could not leave, as when there is no network: nothing follows.
LeaveFailed ==
  /\ leaving
  /\ leaving' = FALSE
  /\ UNCHANGED <<timers, icon, searching, fast, net, bdb, rejoin>> /\ Aside

app_leaveCnfHandler(success) == IF success THEN LeaveConfirmed ELSE LeaveFailed

\* app_bdbNetworkSteerStart does not look whether it is refused.
app_bdbNetworkSteerStart(refused) ==
  /\ Running(timers, "steer")
  /\ bdb.state # "idle" => refused
  /\ timers' = Expired(timers, "steer")
  /\ bdb' = Commissioning(IF refused THEN bdb.state ELSE "starting", FALSE)
  /\ UNCHANGED <<icon, searching, fast, net, leaving, rejoin>> /\ Aside

\* app_bdbFindAndBindStart: refused, it is tried again in 2.5 s.
app_bdbFindAndBindStart(refused) ==
  /\ Running(timers, "findBind")
  /\ bdb.state # "idle" => refused
  /\ timers' = IF refused THEN timers ELSE Expired(timers, "findBind")
  /\ bdb' = Commissioning(IF refused THEN bdb.state ELSE "starting", TRUE)
  /\ UNCHANGED <<icon, searching, fast, net, leaving, rejoin>> /\ Aside

\* bdb_task(START).
bdb_task_start ==
  /\ bdb.state = "starting"
  /\ \/ /\ ~bdb.find
        /\ bdb' = Commissioning("steering", bdb.find)
        /\ ConfirmNothing
     \/ /\ bdb.find /\ net # "new"
        /\ bdb' = Commissioning("finding", bdb.find)
        /\ ConfirmNothing
     \/ /\ bdb.find /\ net = "new"
        /\ bdb' = Commissioning("idle", bdb.find)
        /\ ConfirmFailure
  /\ UNCHANGED <<net, leaving>> /\ Aside

\* Steering ends.  Joined, finding & binding follows if it was asked for meanwhile.
\* On a network there is nothing to search for.
SteerDone(joins) ==
  /\ bdb.state = "steering"
  /\ net' = IF net = "new" /\ joins THEN "joined" ELSE net
  /\ \/ /\ bdb.find /\ net' # "new"
        /\ bdb' = Commissioning("finding", bdb.find)
        /\ ConfirmNothing
     \/ /\ ~bdb.find /\ net' # "new"
        /\ bdb' = Commissioning("idle", bdb.find)
        /\ ConfirmSuccess
     \/ /\ net' = "new"
        /\ bdb' = Commissioning("idle", bdb.find)
        /\ ConfirmFailure
  /\ UNCHANGED leaving /\ Aside

\* Finding & binding ends, with success or without a device to bind.
FindBindDone ==
  /\ bdb.state = "finding"
  /\ bdb' = Commissioning("idle", bdb.find)
  /\ UNCHANGED net
  /\ ConfirmSuccess \/ ConfirmNothing
  /\ UNCHANGED leaving /\ Aside

-----------------------------------------------------------------------------
(***************************************************************************)
(* Losing the network and finding it again.                                *)
(***************************************************************************)

\* bdb_zdoStartDevCnf, outside of steering and start: what the application is to be
\* told.  While a commissioning runs, nothing.
Told(result) ==
  IF bdb.state \in {"idle", "starting"} THEN [rejoin EXCEPT !.told = result] ELSE rejoin

ParentLost ==
  /\ net = "joined"
  /\ bdb.state # "init"
  /\ net' = "lost"
  /\ rejoin' = Told("lost")
  /\ UNCHANGED <<timers, icon, searching, fast, leaving, bdb>> /\ Aside

\* The stack's rejoining ends.
Rejoined(ok) ==
  /\ rejoin.asked
  /\ bdb.state # "init"
  /\ net' = IF ok THEN "joined" ELSE net
  /\ rejoin' = [Told(IF ok THEN "success" ELSE "failure") EXCEPT !.asked = FALSE]
  /\ UNCHANGED <<timers, icon, searching, fast, leaving, bdb>> /\ Aside

\* Mutant: after a lost parent no rejoining is tried.
AfterLoss_Nothing == [asked |-> rejoin.asked, told |-> "nothing"]

AfterLoss == [asked |-> TRUE, told |-> "nothing"]

\* bdb_task(REJOIN_DONE); it is dropped if a commissioning has begun meanwhile.
bdb_task_rejoinDone ==
  /\ rejoin.told # "nothing"
  /\ UNCHANGED <<net, leaving, bdb>> /\ Aside
  /\ \/ /\ bdb.state \notin {"idle", "starting"}
        /\ rejoin' = [rejoin EXCEPT !.told = "nothing"]
        /\ UNCHANGED <<timers, icon, searching, fast>>
     \/ /\ bdb.state \in {"idle", "starting"} /\ rejoin.told = "success"
        /\ ConfirmSuccess
     \/ /\ bdb.state \in {"idle", "starting"} /\ rejoin.told = "lost"
        /\ rejoin' = AfterLoss
        /\ UNCHANGED <<timers, icon, searching, fast>>
     \/ /\ bdb.state \in {"idle", "starting"} /\ rejoin.told = "failure"
        /\ rejoin' = [rejoin EXCEPT !.told = "nothing"]
        /\ timers' = Start(timers, "backoff")
        /\ UNCHANGED <<icon, searching, fast>>

\* Every minute, until a success.
app_rejoinBacckoff ==
  /\ Running(timers, "backoff")
  /\ timers' = IF net = "new" THEN Expired(timers, "backoff") ELSE timers
  /\ rejoin' = IF net = "new" THEN rejoin ELSE [rejoin EXCEPT !.asked = TRUE]
  /\ UNCHANGED <<icon, searching, fast, net, leaving, bdb>> /\ Aside

-----------------------------------------------------------------------------
Next ==
  \/ lcd_link_blink_cb
  \/ \E time \in IdentifyTimes : app_zclIdentifyCmdHandler(time)
  \/ app_zclIdentifyTimerCb
  \/ \E times \in {0} \cup Repeats : app_zcltriggerCmdHandler(times)
  \/ keyScan_keyPressedCB \/ keyScan_keyReleasedCB
  \/ buttonKeepPressed \/ net_steer_start_offCb
  \/ buttonSinglePressed \/ \E n \in 0..MaxClicks : buttonFindBind(n)
  \/ buttonOtherwise
  \/ find_and_bind_clear_flag \/ set_pollRateCb \/ app_sensor_get_period
  \/ \E ok \in BOOLEAN : zb_bdbInitCb(ok)
  \/ LeaveRequested \/ \E success \in BOOLEAN : app_leaveCnfHandler(success)
  \/ \E refused \in BOOLEAN : app_bdbNetworkSteerStart(refused)
  \/ \E refused \in BOOLEAN : app_bdbFindAndBindStart(refused)
  \/ bdb_task_start
  \/ \E joins \in BOOLEAN : SteerDone(joins)
  \/ FindBindDone
  \/ ParentLost \/ \E ok \in BOOLEAN : Rejoined(ok)
  \/ bdb_task_rejoinDone \/ app_rejoinBacckoff

Spec == Init /\ [][Next]_vars

-----------------------------------------------------------------------------
(***************************************************************************)
(* Properties.                                                             *)
(***************************************************************************)

\* A handle is not NULL exactly while its timer runs: otherwise what its timer does
\* would never be done again, or be done twice.  The exceptions are timers that were
\* cancelled through findbindTimerEvt (app_button.c:130).
HandlesLive ==
  \A k \in Held : /\ Running(timers, k) => k \in timers.handle
                  /\ k \in timers.handle => Running(timers, k) \/ k \in cut

\* The icon is dark when nothing blinks and the key is not held, in whatever order
\* commands, presses and timers came; unless it was told to blink a multiple of 256
\* times (zcl_appCb.c:495).
IconGoesOut == ~Blinking /\ ~button.down /\ ~icon.zero => ~icon.on

\* A search has a timer that ends it, and a raised poll rate one that lowers it,
\* however often they are begun anew and whatever the network does.
TemporaryEnds ==
  /\ searching => Running(timers, "searchEnd") \/ "searchEnd" \in cut
  /\ fast => Running(timers, "poll")

\* A search that is on without an attempt on the way would blink for nothing.
Attempted ==
  Running(timers, "steer") \/ leaving \/ bdb.state \in {"init", "starting", "steering"}

\* While the device is factory new and the search is on, attempts follow each other;
\* there are two gaps only: the stack refuses the attempt (zb_appCb.c:88), or leaving,
\* with which a long press begins, fails (zb_appCb.c:389).
SearchGoesOn ==
  [][searching /\ searching' /\ net = "new" /\ net' = "new" /\ Attempted =>
       \/ Attempted'
       \/ Running(timers, "steer") /\ ~Running(timers', "steer")
       \/ leaving /\ ~leaving' /\ UNCHANGED timers]_vars

\* Something is done to find the lost network again.
Sought ==
  rejoin.asked \/ rejoin.told # "nothing" \/ Running(timers, "backoff")

\* A device that loses its network seeks it until it has it again or leaves it;
\* there is one gap only: what is told while a commissioning runs (bdb.c:1388).
NetworkSought ==
  [][net' = "lost" /\ (net = "joined" \/ Sought) =>
       Sought' \/ bdb.state \in {"steering", "finding"}]_vars

\* "Fixed the check for the running timer findbindTimerEvt" (README.md, 1.0.02): the
\* timer that a press cancels is the one of the press before.
CancelsOwn == cut = {}
=============================================================================
