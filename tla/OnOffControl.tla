---------------------------- MODULE OnOffControl ----------------------------
(***************************************************************************)
(* The On/Off control of the sensor (src/src/app_on_off.c): every          *)
(* measurement is compared with the thresholds of its channel, and On/Off  *)
(* commands are sent to the devices bound to the channel's endpoint (1 for *)
(* temperature, 2 for humidity).  A command can be repeated by a timer.    *)
(* When both endpoints are bound to the same device ("one device") the two *)
(* channels are combined: the device is On while either of them wants it.  *)
(*                                                                         *)
(* The firmware is one event loop without preemption, so every handler is  *)
(* one action: the measurement in app_task, the write requests of the ZCL  *)
(* layer, with (app_zclWriteReqCmd) and without the application's part,    *)
(* the two repeat timers, the update of the binding view                   *)
(* (app_update_bind_tbl), joining, leaving and a reboot.                   *)
(* The handlers are written as operators on the record of the state they   *)
(* change; an action applies the handler to the present state.             *)
(***************************************************************************)
EXTENDS Integers

CONSTANTS
  Actions,        \* the switch actions each channel may be written with
  Measured,       \* the values a measurement may return
  Written,        \* the thresholds each channel may be sent in write requests
  Unchecked,      \* the channels whose attributes are also written unchecked
  LimitMin,       \* TEMPERATURE_ONOFF_MIN / HUMIDITY_ONOFF_MIN
  LimitMax,       \* TEMPERATURE_ONOFF_MAX / HUMIDITY_ONOFF_MAX
  StoredLow,      \* thresholds found in NV at the first start
  StoredHigh,
  Rebinding,      \* may the binding view change after its first update?
  InitialViews    \* the values of one_device the first update may find

SwitchAction == {"ON_OFF", "OFF_ON", "TOGGLE"}

ASSUME ValuesAssumption  == Measured \subseteq Int /\ Measured # {}
ASSUME LimitsAssumption  == /\ {LimitMin, LimitMax, StoredLow, StoredHigh} \subseteq Int
                            /\ LimitMin <= StoredLow
                            /\ StoredLow < StoredHigh
                            /\ StoredHigh <= LimitMax
ASSUME ViewsAssumption   == /\ Rebinding \in BOOLEAN
                            /\ InitialViews \subseteq BOOLEAN

Chan == {"temp", "hum"}
Threshold == {"low", "high"}

ASSUME ActionsAssumption  == Actions \in [Chan -> SUBSET SwitchAction]
ASSUME RequestsAssumption == Written \in [Chan -> SUBSET Int] /\ Unchecked \subseteq Chan

Other(c) == IF c = "temp" THEN "hum" ELSE "temp"

ON   == "ON"
OFF  == "OFF"
IDLE == "IDLE"
Unknown == "unknown"

Switch  == {IDLE, ON, OFF}
Command == {Unknown, ON, OFF}

VARIABLES
  joined,     \* zb_isDeviceJoinedNwk()
  bindIdle,   \* app_bind_tbl.idle: no binding view yet
  oneDevice,  \* app_bind_tbl.one_device
  config,     \* config_t: enabled, repeat, low, high
  attr,       \* the attributes the control reads: value, low, high, action
  ctl,        \* the statics of app_on_off.c: sw, common, timer, save, and two
              \* histories: the last command each endpoint's devices were sent
              \* by a decision (decided) and by a decision or a repeat (relay)
  saved,      \* the switch actions in NV
  loose       \* a history: the thresholds of each channel whose last write was
              \* unchecked, doubled in its request, or not stored

vars == <<joined, bindIdle, oneDevice, config, attr, ctl, saved, loose>>

Config == [enabled : [Chan -> BOOLEAN], repeat : BOOLEAN,
           low : [Chan -> Int], high : [Chan -> Int]]
Attr   == [value : [Chan -> Int], low : [Chan -> Int], high : [Chan -> Int],
           action : [Chan -> SwitchAction]]
Ctl    == [sw : [Chan -> Switch], common : [Chan -> Switch],
           timer : [Chan -> BOOLEAN], save : [Chan -> Int],
           decided : [Chan -> Command], relay : [Chan -> Command]]

TypeOK ==
  /\ joined \in BOOLEAN
  /\ bindIdle \in BOOLEAN
  /\ oneDevice \in BOOLEAN
  /\ config \in Config
  /\ attr \in Attr
  /\ ctl \in Ctl
  /\ saved \in [Chan -> SwitchAction]
  /\ loose \in [Chan -> SUBSET Threshold]

-----------------------------------------------------------------------------
(***************************************************************************)
(* Commands and timers.                                                    *)
(***************************************************************************)

\* cmdOnOff(ep, cmd): every device bound to the endpoint gets the command.
\* With one device both endpoints reach it.
Reached(c) == IF oneDevice THEN Chan ELSE {c}

cmdOnOff(k, c, cmd) ==
  [k EXCEPT !.decided = [d \in Chan |-> IF d \in Reached(c) THEN cmd ELSE @[d]],
            !.relay   = [d \in Chan |-> IF d \in Reached(c) THEN cmd ELSE @[d]]]

\* if (timerXEvt) { cancel; timerXEvt = NULL; }
Cancel(k, c) == [k EXCEPT !.timer[c] = FALSE]

\* Cancel, and schedule again if the commands are to be repeated.
Restart(cf, k, c) == [k EXCEPT !.timer[c] = cf.repeat]

\* Mutant: the other channel's timer is not cancelled.
TakeOver_KeepsOther(cf, k, c) == Restart(cf, Cancel(k, c), c)

\* Cancel both timers, and let c's timer repeat the command just sent.
TakeOver(cf, k, c) == Restart(cf, Cancel(Cancel(k, Other(c)), c), c)

\* The attributes' values before the first successful measurement: 0x8000 for
\* the temperature and 0xffff for the humidity.
Unmeasured == [c \in Chan |-> IF c = "temp" THEN -32768 ELSE 65535]

\* What the measurement at the start leaves in the attributes.
FirstReading == [Chan -> Measured] \cup {Unmeasured}

\* C's integer division by ten truncates towards zero.
Tenth(v) == IF v >= 0 THEN v \div 10 ELSE -((-v) \div 10)

-----------------------------------------------------------------------------
(***************************************************************************)
(* The decision of one channel.                                            *)
(***************************************************************************)

AtHigh(at, c) == at.value[c] >= at.high[c]
AtLow(at, c)  == at.value[c] <= at.low[c]

\* The first decision after a reset: On anywhere but past the Off threshold.
Startup(at, c) ==
  IF at.action[c] = "ON_OFF" THEN IF AtHigh(at, c) THEN OFF ELSE ON
                             ELSE IF AtLow(at, c)  THEN OFF ELSE ON

WantsOn(at, c)  == \/ AtHigh(at, c) /\ at.action[c] = "OFF_ON"
                   \/ AtLow(at, c)  /\ at.action[c] = "ON_OFF"
WantsOff(at, c) == \/ AtHigh(at, c) /\ at.action[c] = "ON_OFF"
                   \/ AtLow(at, c)  /\ at.action[c] = "OFF_ON"

\* Mutant: the startup rule is used also when the channel is Off.
Decision_NoBand(at, k, c) ==
  IF k.sw[c] = ON /\ ~WantsOff(at, c) THEN ON ELSE Startup(at, c)

\* Mutant: there is no startup rule, a reset channel waits for a threshold.
Decision_NoStartup(at, k, c) ==
  CASE WantsOn(at, c)  -> ON
    [] WantsOff(at, c) -> OFF
    [] OTHER           -> k.sw[c]

\* The next value of sw_onoff[c] when the channel is enabled.
Decision(at, k, c) ==
  CASE k.sw[c] = IDLE -> Startup(at, c)
    [] k.sw[c] = OFF  -> IF WantsOn(at, c)  THEN ON  ELSE OFF
    [] OTHER          -> IF WantsOff(at, c) THEN OFF ELSE ON

\* Mutants: the timer is left running; the decision is not forgotten.
Disabled_KeepsTimer(k, c) ==
  LET released == IF k.sw[c] = ON THEN cmdOnOff(k, c, OFF) ELSE k
  IN  IF oneDevice THEN k ELSE [released EXCEPT !.sw[c] = IDLE]

Disabled_KeepsDecision(k, c) ==
  LET stopped == Cancel(k, c)
  IN  IF ~oneDevice /\ k.sw[c] = ON THEN cmdOnOff(stopped, c, OFF) ELSE stopped

\* A disabled channel drops its timer and, on its own device, switches it off.
Disabled(k, c) ==
  LET stopped  == Cancel(k, c)
      released == IF k.sw[c] = ON THEN cmdOnOff(stopped, c, OFF) ELSE stopped
  IN  IF oneDevice THEN stopped ELSE [released EXCEPT !.sw[c] = IDLE]

\* Mutant: the command is sent whether or not the decision has changed.
Decided_Always(cf, at, k, c) ==
  LET new  == Decision(at, k, c)
      next == [k EXCEPT !.sw[c] = new, !.save[c] = at.value[c]]
  IN  IF oneDevice THEN next ELSE cmdOnOff(Restart(cf, next, c), c, new)

\* An enabled channel records a changed decision; on its own device it sends
\* the command and restarts the repetition.
Decided(cf, at, k, c) ==
  LET kept == IF cf.repeat THEN k ELSE Cancel(k, c)
      new  == Decision(at, k, c)
      next == [kept EXCEPT !.sw[c] = new, !.save[c] = at.value[c]]
  IN  IF new = k.sw[c] THEN kept
      ELSE IF oneDevice THEN next
      ELSE cmdOnOff(Restart(cf, next, c), c, new)

proc_temp_onoff(cf, at, k, c) ==
  IF ~joined THEN k
  ELSE IF cf.enabled[c] THEN Decided(cf, at, k, c) ELSE Disabled(k, c)

\* proc_hum_onoff is the same code for the humidity.
proc_hum_onoff(cf, at, k) == proc_temp_onoff(cf, at, k, "hum")

-----------------------------------------------------------------------------
(***************************************************************************)
(* Two channels on one device (procTempHumOnOff).                          *)
(***************************************************************************)

\* Mutant: && for || in the test of the two decisions.
NoneEnabled_BothOn(k) ==
  LET stopped  == Cancel(Cancel(k, "temp"), "hum")
      released == IF \A c \in Chan : k.sw[c] = ON
                  THEN cmdOnOff(stopped, "temp", OFF) ELSE stopped
  IN  [released EXCEPT !.sw     = [c \in Chan |-> IDLE],
                       !.common = [c \in Chan |-> IDLE]]

\* Both controls are disabled.
NoneEnabled(k) ==
  LET stopped  == Cancel(Cancel(k, "temp"), "hum")
      released == IF \E c \in Chan : k.sw[c] = ON
                  THEN cmdOnOff(stopped, "temp", OFF) ELSE stopped
  IN  [released EXCEPT !.sw     = [c \in Chan |-> IDLE],
                       !.common = [c \in Chan |-> IDLE]]

\* Mutant: the timer is not scheduled again for the channel that stays.
OneEnabled_NotRearmed(cf, k, c) ==
  LET o        == Other(c)
      stopped  == Cancel(k, o)
      released == IF k.sw[o] = ON /\ k.sw[c] = OFF
                  THEN cmdOnOff(stopped, o, OFF) ELSE stopped
      alone    == [released EXCEPT !.sw[o] = IDLE, !.common[o] = IDLE]
  IN  IF k.sw[c] \in {ON, OFF} /\ k.common[c] # k.sw[c]
      THEN Restart(cf, [cmdOnOff(alone, c, k.sw[c]) EXCEPT !.common[c] = k.sw[c]], c)
      ELSE alone

\* Only channel c is enabled.
OneEnabled(cf, k, c) ==
  LET o        == Other(c)
      stopped  == Cancel(k, o)
      released == IF k.sw[o] = ON /\ k.sw[c] = OFF
                  THEN cmdOnOff(stopped, o, OFF) ELSE stopped
      alone    == [released EXCEPT !.sw[o] = IDLE, !.common[o] = IDLE]
      told     == IF k.sw[c] \in {ON, OFF} /\ k.common[c] # k.sw[c]
                  THEN Cancel([cmdOnOff(alone, c, k.sw[c])
                                 EXCEPT !.common[c] = k.sw[c]], c)
                  ELSE alone
  IN  IF told.timer[c] THEN told ELSE Restart(cf, told, c)

\* Both are enabled: a channel that turns On switches the device on, ...
OnEdge(cf, k, c) ==
  IF k.sw[c] = ON /\ k.common[c] # ON
  THEN TakeOver(cf, [cmdOnOff(k, c, ON) EXCEPT !.common[c] = ON], c)
  ELSE k

\* Mutant: Off is sent although the other channel may want the device On.
OffEdge_Unilateral(cf, k, c) ==
  IF k.sw[c] # OFF \/ k.common[c] = OFF THEN k
  ELSE TakeOver(cf, [cmdOnOff(k, c, OFF) EXCEPT !.common[c] = OFF], c)

\* ... one that turns Off switches it off only if the other is Off too.
OffEdge(cf, k, c) ==
  LET seen == [k EXCEPT !.common[c] = OFF]
  IN  IF k.sw[c] # OFF \/ k.common[c] = OFF THEN k
      ELSE IF k.common[Other(c)] = OFF
           THEN TakeOver(cf, cmdOnOff(seen, c, OFF), c)
           ELSE seen

BothEnabled(cf, k) ==
  OffEdge(cf, OffEdge(cf, OnEdge(cf, OnEdge(cf, k, "temp"), "hum"), "temp"), "hum")

procTempHumOnOff(cf, at, k) ==
  LET p == proc_hum_onoff(cf, at, proc_temp_onoff(cf, at, k, "temp"))
  IN  CASE ~joined -> k
        [] joined /\ ~cf.enabled["temp"] /\ ~cf.enabled["hum"] -> NoneEnabled(p)
        [] joined /\ ~cf.enabled["temp"] /\ cf.enabled["hum"]  -> OneEnabled(cf, p, "hum")
        [] joined /\ cf.enabled["temp"] /\ ~cf.enabled["hum"]  -> OneEnabled(cf, p, "temp")
        [] joined /\ cf.enabled["temp"] /\ cf.enabled["hum"]   -> BothEnabled(cf, p)

\* The entry point of the control.
proc_temp_hum_onoff(cf, at, k) ==
  IF bindIdle THEN k
  ELSE IF oneDevice THEN procTempHumOnOff(cf, at, k)
  ELSE proc_hum_onoff(cf, at, proc_temp_onoff(cf, at, k, "temp"))

reset_control(k, c) == [k EXCEPT !.sw[c] = IDLE, !.common[c] = IDLE]

repeat_timer_stop(k) ==
  reset_control(reset_control(Cancel(Cancel(k, "temp"), "hum"), "temp"), "hum")

-----------------------------------------------------------------------------
(***************************************************************************)
(* Write requests.  The ZCL layer stores the attributes of all records of  *)
(* the request; app_zclWriteReqCmd then handles the records one by one,    *)
(* those too that could not be stored (another endpoint, another type).    *)
(* The control reads the thresholds from the attributes, but whether it is *)
(* enabled and repeats from config; so stored matters for thresholds only. *)
(***************************************************************************)

Records(c) ==
  [field : {"onoff"}, value : BOOLEAN, stored : {TRUE}]
    \cup [field : Threshold, value : Written[c], stored : BOOLEAN]
    \cup IF c = "temp" THEN [field : {"repeat"}, value : BOOLEAN, stored : {TRUE}] ELSE {}

Store(at, c, r) ==
  CASE r.stored /\ r.field = "low"  -> [at EXCEPT !.low[c]  = r.value]
    [] r.stored /\ r.field = "high" -> [at EXCEPT !.high[c] = r.value]
    [] OTHER                        -> at

\* The channel's loose thresholds after a request with the record r, or with
\* two records of the same attribute.
Loosen(fields, r)  == IF r.stored THEN fields \ {r.field} ELSE fields \cup {r.field}
Doubled(fields, r) == fields \cup ({r.field} \cap Threshold)

InRange(v) == LimitMin <= v /\ v <= LimitMax

\* Mutant: a refused threshold stays in the attribute.
ChangeLow_NotPutBack(w, c, v) ==
  IF InRange(v) /\ v < w.config.high[c] THEN [w EXCEPT !.config.low[c] = v] ELSE w

\* A threshold in range replaces the configured one if the two stay ordered,
\* and is put back to the configured one if not.  A threshold out of range
\* stays in the attribute.
ChangeLow(w, c, v) ==
  IF ~InRange(v) THEN w
  ELSE IF v < w.config.high[c]
       THEN [w EXCEPT !.config.low[c] = v]
       ELSE [w EXCEPT !.attr.low[c] = w.config.low[c]]

\* Mutant: >= for > in the comparison with the configured low threshold.
ChangeHigh_AllowsEqual(w, c, v) ==
  IF ~InRange(v) THEN w
  ELSE IF v >= w.config.low[c]
       THEN [w EXCEPT !.config.high[c] = v]
       ELSE [w EXCEPT !.attr.high[c] = w.config.high[c]]

ChangeHigh(w, c, v) ==
  IF ~InRange(v) THEN w
  ELSE IF v > w.config.low[c]
       THEN [w EXCEPT !.config.high[c] = v]
       ELSE [w EXCEPT !.attr.high[c] = w.config.high[c]]

Process(w) == [w EXCEPT !.ctl = proc_temp_hum_onoff(w.config, w.attr, @)]

HandleRecord(w, c, r) ==
  CASE r.field = "onoff" ->
         Process([w EXCEPT !.config.enabled[c] = r.value])
    [] r.field = "low" ->
         Process([ChangeLow(w, c, r.value) EXCEPT !.ctl = reset_control(@, c)])
    [] r.field = "high" ->
         Process([ChangeHigh(w, c, r.value) EXCEPT !.ctl = reset_control(@, c)])
    [] r.field = "repeat" ->
         Process([w EXCEPT !.config.repeat = r.value, !.ctl = repeat_timer_stop(@)])

Become(w) == config' = w.config /\ attr' = w.attr /\ ctl' = w.ctl

-----------------------------------------------------------------------------
(***************************************************************************)
(* The actions.                                                            *)
(***************************************************************************)

Initial(stored) ==
  [sw |-> [c \in Chan |-> IDLE], common |-> [c \in Chan |-> IDLE],
   timer |-> [c \in Chan |-> FALSE], save |-> stored,
   decided |-> [c \in Chan |-> Unknown], relay |-> [c \in Chan |-> Unknown]]

Init ==
  /\ joined \in BOOLEAN
  /\ bindIdle = TRUE
  /\ oneDevice = FALSE
  /\ config \in [enabled : [Chan -> BOOLEAN], repeat : BOOLEAN,
                 low  : {[c \in Chan |-> StoredLow]},
                 high : {[c \in Chan |-> StoredHigh]}]
  /\ attr \in [value : FirstReading, low : {config.low},
               high : {config.high}, action : [Chan -> SwitchAction]]
  /\ \A c \in Chan : attr.action[c] \in Actions[c]
  /\ ctl = Initial([c \in Chan |-> 0])
  /\ saved = attr.action
  /\ loose = [c \in Chan |-> {}]

\* app_task: the read period has passed.  Both values are measured anew; when
\* the sensor cannot be read they stay, and the control is run all the same.
Measure(value) ==
  /\ attr' = [attr EXCEPT !.value = value]
  /\ ctl' = proc_temp_hum_onoff(config, attr', ctl)
  /\ UNCHANGED <<joined, bindIdle, oneDevice, config, saved, loose>>

\* A Write request with one record, or with two, also of the same attribute:
\* requests are bounded to two records.
app_zclWriteReqCmd(c, r) ==
  /\ joined
  /\ Become(HandleRecord([config |-> config, attr |-> Store(attr, c, r), ctl |-> ctl],
                         c, r))
  /\ loose' = [loose EXCEPT ![c] = Loosen(@, r)]
  /\ UNCHANGED <<joined, bindIdle, oneDevice, saved>>

WriteTwoRecords(c, r1, r2) ==
  /\ joined
  /\ LET w == [config |-> config, ctl |-> ctl,
               attr |-> Store(Store(attr, c, r1), c, r2)]
     IN  Become(HandleRecord(HandleRecord(w, c, r1), c, r2))
  /\ loose' = [loose EXCEPT ![c] = IF r1.field = r2.field THEN Doubled(@, r1)
                                   ELSE Loosen(Loosen(@, r1), r2)]
  /\ UNCHANGED <<joined, bindIdle, oneDevice, saved>>

\* Write No Response and Write Undivided: the ZCL layer stores the attribute,
\* the application neither checks nor saves it and runs no control.
WriteUnchecked(c, r) ==
  /\ joined
  /\ r.field \in Threshold
  /\ r.stored
  /\ attr' = Store(attr, c, r)
  /\ loose' = [loose EXCEPT ![c] = @ \cup {r.field}]
  /\ UNCHANGED <<joined, bindIdle, oneDevice, config, ctl, saved>>

WriteActionUnchecked(c, a) ==
  /\ joined
  /\ attr' = [attr EXCEPT !.action[c] = a]
  /\ UNCHANGED <<joined, bindIdle, oneDevice, config, ctl, saved, loose>>

\* The switch action of an endpoint: both endpoints' actions are saved and both
\* channels start over, but no command is sent and no timer is stopped before
\* the next measurement.
WriteSwitchAction(c, a) ==
  /\ joined
  /\ attr' = [attr EXCEPT !.action[c] = a]
  /\ saved' = attr'.action
  /\ ctl' = reset_control(reset_control(ctl, "temp"), "hum")
  /\ UNCHANGED <<joined, bindIdle, oneDevice, config, loose>>

\* A calibration offset: the measured value moves, the control is not run.
WriteOffset(c, v) ==
  /\ joined
  /\ attr' = [attr EXCEPT !.value[c] = v]
  /\ UNCHANGED <<joined, bindIdle, oneDevice, config, ctl, saved, loose>>

\* Has the value, in tenths, stayed at the one of the last decision or moved
\* up (down) from it?
Rose(at, k, c) == Tenth(at.value[c]) >= Tenth(k.save[c])
Fell(at, k, c) == Tenth(at.value[c]) <= Tenth(k.save[c])

\* Mutant: the decision is not looked at.
RepeatsOn_Undecided(k, c) ==
  \/ oneDevice /\ config.enabled[Other(c)]
  \/ Rose(attr, k, c) /\ attr.action[c] = "OFF_ON"
  \/ Fell(attr, k, c) /\ attr.action[c] = "ON_OFF"

\* What the repeat callback sends.  IDLE is 0xFF in C, so it counts as On.
RepeatsOn(k, c) ==
  /\ k.sw[c] # OFF
  /\ \/ oneDevice /\ config.enabled[Other(c)]
     \/ Rose(attr, k, c) /\ attr.action[c] = "OFF_ON"
     \/ Fell(attr, k, c) /\ attr.action[c] = "ON_OFF"

RepeatsOff(k, c) ==
  /\ k.sw[c] = OFF
  /\ \/ oneDevice /\ config.enabled[Other(c)]
     \/ Rose(attr, k, c) /\ attr.action[c] = "ON_OFF"
     \/ Fell(attr, k, c) /\ attr.action[c] = "OFF_ON"

\* Mutant: sw_onoff[idx] itself is sent, IDLE included.
Resend_Decision(k, c, cmd) ==
  [k EXCEPT !.relay = [d \in Chan |-> IF d \in Reached(c) THEN k.sw[c] ELSE @[d]]]

Resend(k, c, cmd) ==
  [k EXCEPT !.relay = [d \in Chan |-> IF d \in Reached(c) THEN cmd ELSE @[d]]]

\* temp_cmd_repeatCb and hum_cmd_repeatCb: the timer of channel c expires.  It
\* goes on running unless the repetition has been disabled.
cmd_repeatCb(c) ==
  /\ ctl.timer[c]
  /\ ctl' = CASE ~config.repeat                      -> Cancel(ctl, c)
              [] config.repeat /\ RepeatsOn(ctl, c)  -> Resend(ctl, c, ON)
              [] config.repeat /\ RepeatsOff(ctl, c) -> Resend(ctl, c, OFF)
              [] OTHER                               -> ctl
  /\ UNCHANGED <<joined, bindIdle, oneDevice, config, attr, saved, loose>>

\* app_update_bind_tbl once the coordinator's address is known: what is bound
\* to the endpoints may be other devices than before.
app_update_bind_tbl(one) ==
  /\ bindIdle \/ Rebinding
  /\ bindIdle' = FALSE
  /\ oneDevice' = one
  /\ ctl' = [ctl EXCEPT !.decided = [c \in Chan |-> Unknown],
                        !.relay   = [c \in Chan |-> Unknown]]
  /\ UNCHANGED <<joined, config, attr, saved, loose>>

Join ==
  /\ ~joined
  /\ joined' = TRUE
  /\ UNCHANGED <<bindIdle, oneDevice, config, attr, ctl, saved, loose>>

Leave ==
  /\ joined
  /\ joined' = FALSE
  /\ UNCHANGED <<bindIdle, oneDevice, config, attr, ctl, saved, loose>>

\* A power cycle: config and the switch actions come back from NV, the other
\* attributes from config (config_restore), the statics are initialised.
Reboot(value) ==
  /\ joined' = FALSE
  /\ bindIdle' = TRUE
  /\ oneDevice' = FALSE
  /\ attr' = [value |-> value, low |-> config.low, high |-> config.high, action |-> saved]
  /\ ctl' = Initial([c \in Chan |-> 0])
  /\ loose' = [c \in Chan |-> {}]
  /\ UNCHANGED <<config, saved>>

Measuring == \E value \in [Chan -> Measured] \cup {attr.value} : Measure(value)

Next ==
  \/ Measuring
  \/ \E c \in Chan : \E r \in Records(c) : app_zclWriteReqCmd(c, r)
  \/ \E c \in Chan : \E r1, r2 \in Records(c) : WriteTwoRecords(c, r1, r2)
  \/ \E c \in Chan : \E a \in Actions[c] : WriteSwitchAction(c, a)
  \/ \E c \in Unchecked : \E r \in Records(c) : WriteUnchecked(c, r)
  \/ \E c \in Unchecked : \E a \in Actions[c] : WriteActionUnchecked(c, a)
  \/ \E c \in Chan, v \in Measured : WriteOffset(c, v)
  \/ \E c \in Chan : cmd_repeatCb(c)
  \/ \E one \in InitialViews : app_update_bind_tbl(one)
  \/ Join
  \/ Leave
  \/ \E value \in FirstReading : Reboot(value)

Spec == Init /\ [][Next]_vars

\* app_task polls the read period for ever; nothing else is owed: requests,
\* the network and the power are the environment's.
FairSpec == Spec /\ WF_vars(Measuring)

-----------------------------------------------------------------------------
(***************************************************************************)
(* Safety.                                                                 *)
(***************************************************************************)

\* The channels whose decisions together settle what c's devices are told.
Group(c) == IF oneDevice THEN {d \in Chan : config.enabled[d]} ELSE {c}

\* c is enabled, and every channel of its group has decided.
Settled(c) == config.enabled[c] /\ \A d \in Group(c) : ctl.sw[d] # IDLE

\* The configured thresholds stay ordered and in range through any sequence of
\* write requests, whatever the attributes hold meanwhile: doubled records,
\* records that were not stored, unchecked writes (zcl_appCb.c:210-247, 280-318).
ThresholdsOrdered ==
  \A c \in Chan :
    /\ InRange(config.low[c]) /\ InRange(config.high[c])
    /\ config.low[c] < config.high[c]

\* A threshold attribute, which the control reads, holds the configured value
\* or one out of range, unless it is loose; a plain Write of the attribute ends
\* that, and so does a restart.  (zcl_appCb.c:210-247, 280-318; zcl.c:1346-1359
\* stores all records before the first is checked.)
AttributesAgree ==
  \A c \in Chan :
    /\ "low"  \notin loose[c] /\ InRange(attr.low[c])  => attr.low[c]  = config.low[c]
    /\ "high" \notin loose[c] /\ InRange(attr.high[c]) => attr.high[c] = config.high[c]

\* A repeat timer runs only for an enabled channel while the repetition is
\* enabled, whatever the order of requests, measurements and rebindings; so no
\* callback repeats a command for a control that has been switched off
\* (app_on_off.c:250, 266, 493-500, 707).
TimerJustified ==
  \A c \in Chan : ctl.timer[c] => config.enabled[c] /\ config.repeat

\* A channel that is not enabled holds no decision (app_on_off.c:255, 505-520).
LatchJustified ==
  \A c \in Chan : ctl.sw[c] # IDLE => config.enabled[c] /\ ~bindIdle

\* While the bindings stay as they are, the devices were last told On by a
\* decision exactly if a channel of their group decided On: with one device,
\* one channel's Off is held back while the other wants On, and is not
\* forgotten when the other turns Off or is disabled (app_on_off.c:511-636).
DecisionSent ==
  \A c \in Chan :
    Settled(c) =>
      ctl.decided[c] = IF \E d \in Group(c) : ctl.sw[d] = ON THEN ON ELSE OFF

\* With one device at most one timer repeats its commands (app_on_off.c:580-635).
OneRepeater == oneDevice => ~ (ctl.timer["temp"] /\ ctl.timer["hum"])

\* With the repetition enabled, a settled group has a timer running: no sequence
\* of enabling, disabling and re-deciding loses it (app_on_off.c:540, 573, 617).
RepeaterArmed ==
  \A c \in Chan : Settled(c) /\ config.repeat => \E d \in Group(c) : ctl.timer[d]

\* The devices of a channel with a device of its own were last sent what it
\* decided, but for one case: a switch action is rewritten, which forgets the
\* decision and leaves the timer running; the repeat takes IDLE for On, and an
\* On follows the Off that was decided (app_on_off.c:157-170, zcl_appCb.c:322-330).
RepeatAgreesApart ==
  \A c \in Chan :
    ~oneDevice /\ ctl.relay[c] # ctl.decided[c] =>
      ctl.sw[c] = IDLE /\ ctl.decided[c] = OFF /\ ctl.relay[c] = ON

\* The next measurement puts that right, unless the channel was disabled in the
\* meantime: then its device stays On, since no decision is left to take back
\* (app_on_off.c:255-261, 278-296).
RepeatIsPutRight ==
  [][Measuring /\ joined /\ ~bindIdle /\ ~oneDevice =>
       \A c \in Chan : config.enabled[c] => ctl'.relay[c] = ctl'.decided[c]]_vars

\* Processing the same measurement again sends nothing and touches no timer, as
\* long as the thresholds in the attributes are ordered.  Without this the
\* device would chatter at the read period, and a repeat time longer than the
\* read period would never pass (app_on_off.c:238-332, 477-641).
Unsaid(k) == [k EXCEPT !.decided = [c \in Chan |-> Unknown],
                       !.relay   = [c \in Chan |-> Unknown]]
ProcIdempotent ==
  (\A c \in Chan : attr.low[c] < attr.high[c]) =>
     LET once == Unsaid(proc_temp_hum_onoff(config, attr, ctl))
     IN  proc_temp_hum_onoff(config, attr, once) = once

\* Disabling a channel that is On switches its devices off, unless another
\* channel of the group wants them On (app_on_off.c:256, 502, 516, 549).  Left
\* out is a request that first enables and then disables the channel: enabling
\* decides once more, and after a rebinding a decided Off may be held back.
EnablesFirst(c) ==
  \E r1, r2 \in Records(c) : r1.field = "onoff" /\ r1.value /\ WriteTwoRecords(c, r1, r2)

DisableReleases ==
  [][\A c \in Chan :
       /\ config.enabled[c] /\ ~config'.enabled[c]
       /\ ctl.sw[c] = ON
       /\ ~(oneDevice /\ ctl'.sw[Other(c)] = ON)
       /\ ctl'.decided[c] # OFF
       => EnablesFirst(c)]_vars

\* A measurement makes a channel change its mind only past the threshold that
\* calls for it: inside the band the last decision is kept.  (A write of a
\* threshold or of the repetition resets the decision and may turn a device
\* over inside the band: app_on_off.c:297-329, zcl_appCb.c:227, 246, 254.)
Hysteresis ==
  [][Measuring =>
       \A c \in Chan :
         {ctl.sw[c], ctl'.sw[c]} = {ON, OFF} =>
           IF ctl'.sw[c] = ON THEN WantsOn(attr', c) ELSE WantsOff(attr', c)]_vars

-----------------------------------------------------------------------------
(***************************************************************************)
(* Liveness.                                                               *)
(***************************************************************************)

\* Once joined and with a binding view, an enabled channel gets a command to
\* its devices, also after the switch action has been rewritten.
Controls(c) == joined /\ ~bindIdle /\ config.enabled[c]
ControlEngages ==
  \A c \in Chan :
    Controls(c) ~> (~Controls(c) \/ (ctl.sw[c] # IDLE /\ ctl.decided[c] # Unknown))

=============================================================================
