# A TLA+ model of the ts0201_wing_zed firmware

The repository is the firmware of a battery-powered Zigbee temperature and
humidity sensor with an LCD (Telink TLSR8258, Zigbee SDK). The device measures,
reports, and - this is where most of its own logic is - controls up to two
On/Off devices by sending them commands over bindings, without the coordinator.
This directory holds its formal model: TLA+ modules translated from the source,
the configurations TLC checks them with, and proofs for TLAPS.

All source paths are relative to the repository root. The firmware's own code is
`src/src/` (about 10,500 lines of C); `src/tl_zigbee_sdk/` is the vendor's SDK.

## 1. The system

### Execution

The firmware is one event loop (`src/src/main.c:147-170`): `ev_main` (due timers
and the polling callbacks, of which `app_task` is one, `src/src/app_main.c:302`)
and `tl_zbTaskProcedure` (the Zigbee stack's queue of tasks and messages). Nothing preempts a handler but hardware interrupts, which
only queue work. So **every handler, timer callback or task is one atomic
action** of the model, and concurrency is the arbitrary interleaving of handlers:
a request can arrive between a timer's start and its expiry, the network can
leave between a request and its response, and the power can fail at any of these
points.

### Inventory

| component | source (`src/src/`) | state | operations | interacts with |
|---|---|---|---|---|
| On/Off control | `app_on_off.c` | `sw_onoff[2]`, `sw_common[2]`, the two repeat timers, the value at the last decision | `proc_temp_hum_onoff`, the repeat callbacks, `reset_control_*`, `repeat_timer_stop` | reads attributes, configuration and binding view; sends commands to bound devices |
| Attribute writes | `zcl_appCb.c:100-420` | attributes, `config` | `app_zclWriteReqCmd`, record by record | control, sensor offsets, configuration save |
| Configuration | `app_config.c`, `zcl_onoffSwitchCfg.c` | `config` in RAM and NV | init/save/restore, restore of the switch actions | everything at start, writes |
| Binding view | `app_binding.c`, `zdo/zdp.c` | `app_bind_tbl` (idle, one_device, coordinator address), `timerAppBindEvt` | `app_update_bind_tbl`, `app_bindTimerCb`, `app_getIeeeCb` | control; scheduled by bind requests, joining, commissioning |
| Sensor | `app_sensor.c`, `app_sht30.c`, `app_i2c.c` | raw values, attributes `value` | measure, apply offsets, read period | main loop |
| Main loop | `app_main.c` | `g_appCtx` | `user_app_init`, `app_task` | all |
| Button | `app_button.c` | press count, times | 1 press: report; 2-4: delete bindings, start finding & binding; 5: delete all; 5 s: leave the network and search for one | binding table, commissioning, icon, timers |
| Finding & binding, commissioning | `zigbee/bdb/bdb.c`, `zb_appCb.c`, `zcl_appCb.c:540-600` | `g_bdbCtx` state, queue, timers; `find_bind_flag/src_ep/dst_ep` | state machine `bdb_task`, ZDO responses, timeouts | button, binding table |
| Reporting | `zigbee/zcl/zcl_reporting.c`, `app_reporting.c` | reporting entries, minimum/maximum timers | `report_handler`, timers, configure | attributes, bindings, NV |
| Link icon (LCD) | `app_lcd.c` | blink counters and timer | `light_blink_start/stop` | Identify, joining, button |
| Poll rate, sleep | `app_utility.c`, `app_pm.c` | poll-rate timer | `app_setPollRate` | button, joining |
| Application timer | `app_timer.c` | hardware timer | `app_timer_exceed` | sensor, battery |
| Battery, flash, endpoint tables, OTA header | `app_battery.c`, `flash.c`, `app_endpoint_cfg.c`, `main.c` | - | I/O, tables | - |
| Event timers (SDK) | `src/tl_zigbee_sdk/proj/os/ev_timer.c` | pool of 24 events | schedule, cancel, execute | every handle the application keeps |
| Non-volatile storage (SDK) | `src/tl_zigbee_sdk/proj/drivers/drv_nv.c`, `drv_flash.c` | two sectors per module of items, each with an index | `nv_flashWriteNew`, `nv_flashReadNew` | configuration, reporting table, switch actions |

### What is hard, and what makes each component correct

* **On/Off control.** Two channels, two switch actions, an optional repetition,
  and "one device" mode, in which both channels' decisions are combined. Requests,
  measurements, timers, network changes and reboots interleave. Correct means: a
  device was last told what the enabled channels decided together; disabling
  releases it; there is hysteresis and no chatter; a repeat timer belongs to an
  enabled channel, at most one per device, and repeats the current decision.
* **Attribute writes.** One request carries several records, all stored before
  the first is handled. Correct means the thresholds stay ordered.
* **Configuration.** NV and RAM differ between a handler's effects and the
  save. Correct means a reboot restores a state the device was in, which the
  storage must guarantee: a write that is interrupted anywhere leaves the old or the
  new value, and nothing else is lost.
* **Binding view.** A cached summary of a table that four parties change.
  Correct means the cache, when it claims to be valid, is.
* **Finding & binding.** Responses may be late, lost, duplicated, come from
  several devices, or belong to an earlier attempt. Correct means it always comes
  back to idle, and binds the endpoint that answered.
* **Reporting.** A change must be reported within the maximum interval and
  not before the minimum; an entry may be rewritten while its timers run.
* **Timers.** A handle may outlive its timer, and its slot may be reused.
* **Icon, search, rejoining.** Many parties start and stop the same timers. Correct
  means the icon goes out, a search ends and until then makes attempts, a raised poll
  rate is lowered, a lost network is sought.

The hazards in `PROJECT.json` name the lines where each of these bites.


## 2. The modules

| module | models | state | actions |
|---|---|---|---|
| `OnOffControl` | `app_on_off.c`, the write records of `zcl_appCb.c` that reach it, the measuring step of `app_main.c` | `config`, `attr`, `ctl` (the statics), `joined`, `bindIdle`, `oneDevice`, `saved` (switch actions in NV), `loose` (history) | `Measure`, `app_zclWriteReqCmd`, `WriteTwoRecords`, `WriteUnchecked`, `WriteActionUnchecked`, `WriteSwitchAction`, `WriteOffset`, `cmd_repeatCb`, `app_update_bind_tbl`, `Join`, `Leave`, `Reboot` |
| `BindView` | `app_binding.c`, the indications of `zdp.c`, what the button, finding & binding and leaving do to the table | `table`, the view (`known`, `idle`, `one`), its `timer`, `tasks`, the request `asked`, `home`, `joined`, `finding`, `rejoin`, `silent` (history) | the update task, the timer, the address response, `Bind`, `Unbind`, `buttonPressed`, `bdb_binding`, end of commissioning, `Join`, `JoinUnnoticed`, `RejoinFailed`, `app_rejoinBacckoff`, `ParentLost`, `app_leaveCnfHandler`, `Reboot` |
| `ControlEnvironment` | abstract specification: what `OnOffControl` assumes of the flags that `BindView` keeps | `joined`, `bindIdle`, `oneDevice` | `Update`, `Join`, `Leave`, `Restart` |
| `FindBind` | `bdb.c`: finding & binding and what steering and rejoining do to it; the starts of `zb_appCb.c` and `app_button.c`; the answer to an Identify Query in `zcl_appCb.c` | `bdb` (state machine), `queue`, `findDst`, `bindDst`, `match`, `timer`, `tasks`, `app` (flag, endpoints, timers), `air`, `bound` | one per start, task, timer and answer |
| `Reporting` | `zcl_reporting.c`, the Configure Reporting handler of the SDK's `zcl.c`, the saved table of `zcl_nv.c` | `entry` (setting, counters, value compared with, timer), `value`, `bound`, `nv`, `due` | `AppTask`, `Expire`, `ReportAttrs`, `Configure`, `ConfigureDefault`, `Rebind`, `Activate`, `Reboot`, `Tick` |
| `NvStore` | `drv_nv.c` of the SDK | `flash` (two sectors: flag, index), `task` (the call under way), `weak` battery | `Write`, `Read`, one action per operation of the flash, `PowerLoss`, `BatteryLow`, `BrokenOff` |
| `NvRegister` | abstract specification: a register per item | `store`, `writing` | `Begin`, `Commit`, `End` |
| `Panel` | `app_button.c`, the link icon of `app_lcd.c`, Identify in `zcl_appCb.c`, the callbacks of `zb_appCb.c`, the poll rate, `ev_timer.c` | `timers` (running, handles, what took the place of an ended one), `icon`, `button`, `searching`, `fast`, `net`, `leaving`, `bdb`, `rejoin` | one per callback, command, press and timer |
| `AppTimer` | `app_timer.c` and its use in `app_task` | `timeout`, `ref` | `ev_timer_update`, `app_task` |
| `MC_*` | instances for TLC | - | - |
| `*Proofs` | theorems, checked by TLAPS | - | - |

### OnOffControl

The handlers are operators on a record: `proc_temp_onoff(cf, at, k, c)` is what the
C function does to the statics `k` under the configuration `cf` and the
attributes `at`. An action applies the operators in the order of the calls.
The two channels `"temp"` and `"hum"` are the C code's duplicated functions and
arrays: `ctl.sw`, `ctl.common` are `sw_onoff[2]`, `sw_common[2]`; `ctl.timer[c]` is
`timerTempEvt`/`timerHumEvt # NULL`; `ctl.save` is the value at the last decision.
`ctl.decided` and `ctl.relay` do not exist in the code: they record what
`cmdOnOff` sent, to each endpoint's devices, by a decision and by a decision or a
repetition. With `oneDevice` both endpoints reach the same device, so `Reached`
is both.

A write request is atomic, but has an inner order that matters: the ZCL layer
stores the attributes of *all* records (`Store`), then the callback handles one
record after the other, each time running the control. `WriteTwoRecords` is
that with any two records of one endpoint, of the same attribute too; two is a bound. A record that could not be
stored (`stored` = FALSE: wrong type, another endpoint) is handed to the application all the same. Write No Response and
Write Undivided store attributes and never reach `app_zclWriteReqCmd` (`zcl_appCb.c:89-125` knows only `ZCL_CMD_WRITE`):
`WriteUnchecked` for the thresholds, `WriteActionUnchecked` for the switch action. Whether the control is enabled and repeats is read
from `config` alone, so there the model has no attribute to differ.
Thresholds are kept twice (`config`, which is
saved, and the attribute the control compares with) and may differ: `loose` is the set of those whose attribute was last written
twice in one request, unchecked, or not at all though the application handled the record. `saved` are the switch actions in NV, which only
`WriteSwitchAction` changes.

### BindView

`table` holds the On/Off entries of the stack's binding table; `app_update_bind_tbl`
compares their destinations. `known` is `None` while `addrCrdnrSet` is false.
`home` is the network in NV: after leaving it is `None`, and a different network may
be joined without a restart. The presses of the button delete entries by
the coordinator's address *as it is known*, as the code does. The button's deletions and
a finding & binding that ends without success schedule no update, although the table has
changed, and a network may be joined without anybody being told; the history variable `silent` remembers that, and `StaleIsNoticed` says
that these are the only ways to a wrong view.

Joining is told to the application by `zb_bdbInitCb` or `zb_bdbCommissioningCb`, which start the timer (`Join`), or not at all
(`JoinUnnoticed`): while finding & binding runs, the default case of `bdb_zdoStartDevCnf` (`bdb.c:1388`) drops the
confirmation of a rejoining, and finding & binding that was asked for during steering follows it and tells its own result. What puts the first
right is the rejoining that failed before: it left `switchRejoinBackoffTimerEvt` running (`rejoin` = "backoff"), whose callback asks for
rejoining until a success is confirmed. `starting` is the time before `zb_bdbInitCb` of a device with a network.

### FindBind

`bdb.state` has the states this device reaches; steering is one step with an
outcome (`SteerDone`). `tasks` is the queue of scheduled tasks, run in order;
`air` holds the answers on their way: they arrive in any order, at any later time
(when another device is being asked, or another round runs) or never. Answers to a
query are forgotten when the next query is broadcast; descriptor and address
answers are not. The button has one variable for the endpoint of the press and one for
the endpoint of the last device that answered (`app.src`, `app.dst`), for all
devices, as the code does. The timer of the C code is one handle
(`identifyTimer`), so `timer` says what it stands for at present.
Deleting bindings by presses is in `BindView`; `FindBind` says what follows.
`app.clear` is the timer of three minutes whose handle is not reset when it ends: a later press
may then cancel the timer that has its place by now. Here only `bdbFBTimerEvt` can be hit
(`app.cut`: its own handle stays set, and no later press is taken up); that a timer of
the stack itself is not hit is an assumption of `FindBindEnds` and `NeverStranded`.
`network` is `nodeIsOnANetwork`. Besides steering and rejoining, the exchange of keys with the coordinator changes it, which may go on after
steering is over (`KeyExchanged`: cleared when a key is requested, `bdb.c:938`, or the exchange fails, `bdb.c:904`; set when it is done). Bound: not in the middle of finding & binding, which
does not look at it. Leaving the network resets everything by `tl_bdbReset` (`bdb.c:1894`); the module is about the time from one such reset to the
next (sections 5 and 6).

### Reporting

An entry of the table is a record, and `Poll`, `Expired`, `Reported`, `Update`, `Reset` are what the
functions do to it. Time passes in ticks of a second when all that is due has been done,
so that a timer is exact and everything between two ticks is interleaved. `sent` is history:
the value last reported, the time since then, and whether anything has interfered (a
new setting, a binding lost or made, the device inactive, a reboot). What the
code does and one might not expect:
a maximum interval of 0 makes every change go out at once, whatever the minimum;
an entry whose binding is lost while its report is due keeps its counter of 0 and is later sent
with another entry's report, without its own timer being stopped;
the table is saved with the counters of the moment.

### NvStore

One action per operation on the flash. `nv_flashWriteNew` starts with `Select` (which sector),
may erase the other sector and copy (`Erase`, `Dedupe`, `Copy`, `Copied`), then writes the entry
(`AppendNew`), its state (`Validate`), invalidates the predecessor (`Delete`) and, if the sector
changed, hands over with three flags (`Ready`, `Retire`, `Enter`). `PowerLoss` may leave the entry or the
flag under way half-written (`Interrupted`). With a low battery the driver writes nothing
(`Written`), and some results are not looked at, as in the code. Assumed: single bytes and half words
are programmed, and sectors erased, or not; checksums match; the index, not the
content, is what gets full.

### Panel

A timer fires at any time after it was scheduled; most kinds have one handle, which is in
`timers.handle` while it is not NULL. Places of the pool do not matter but for the one handle that
dangles: `timers.later` are the kinds of timers scheduled since its place became free, one
of which may have that place. Commissioning is reduced to what it tells the application: `bdb.state` and what `zb_bdbInitCb` and
`zb_bdbCommissioningCb` do. Leaving is done by a binary library; its confirm reports success or failure
(`zb_appCb.c:389`). Assumed is that on success it has reset BDB by `tl_bdbReset` (`bdb.c:1894`), whose timers are not ended, and that a failure changes nothing.
A timer that is cut through the dangling handle leaves a handle that dangles itself. If that one is cancelled later, a third timer may be hit, and so on.
The model stops this chain where the code does: it follows only timers that nobody cancels (`Uncancelled`: `bdbFBTimerEvt`, which is only compared with NULL,
and the end of the search, which has no handle), and `Followed` may name no other. The time of an Identify command is not modelled.

### AppTimer

The timer of two hours counts down and begins anew; `app_timer_exceed` computes the distance of two of its values in
unsigned integers. `ref` = 0 at the start makes the difference wrap, so that the first reading is made at
once. There is no run: the theorem says all, for any period.

## 3. The runs

| run | question | result |
|---|---|---|
| `onoff_static` | Do the devices get what the channels decided, combined on one device, repeated by the right timer, put right if a repetition said otherwise, without chatter, in every order of requests, measurements, timers and reboots? | yes |
| `onoff_rebinding` | Do timers and decisions belong to enabled channels, and does disabling release the devices, also when the view changes at any moment, with Toggle and with switch actions written unchecked? | yes |
| `onoff_thresholds` | Do configured thresholds stay ordered, and attributes agree with them unless loose, under requests of one or two records (doubled, not stored) and unchecked writes? | yes |
| `onoff_engages` | Does an enabled channel get its first command? | yes |
| `bindview` | Is a wrong view about to be renewed unless nobody was told, made with the coordinator's address, as the control assumes, and made at all, also after a rejoining that was confirmed to nobody? | yes |
| `findbind_safety` | With two devices that answer late, disordered or never: is finding & binding always taken on, and one address awaited at a time? | yes |
| `findbind_ends` | With steering, rejoining and a late exchange of keys in between: does it end, is each press taken up, is IN_PROGRESS given back? | yes |
| `findbind_bound_at_pressed` | Is a device bound to the endpoint that was chosen? | no, the second one is not |
| `reporting` | Are reports neither late nor early, and are changes not lost, also after reconfigurations, lost bindings and reboots? | yes |
| `nvstore` | Is every item a register, and is there room, with power failures and a low battery in any operation? | yes |
| `panel` | Do handles and timers agree, does the icon go out, do search and fast polling end, does the search go on, is the network sought? | yes, but for the gaps the properties name |
| `panel_stale_timer` | Does a press cancel only its own timer? | no |

### Bounds, and why they are enough

* *Values.* The control only compares a value with two thresholds and with the
  value at the last decision, in tenths. `AroundBand` has a value below, between and above
  the thresholds 10 and 30, whose order covers every outcome of the
  comparisons; 99 is a threshold out of range. Before the first measurement the values
  are the code's own -32768 and 65535. In tenths 5, 20 and 35
  are 0, 2 and 3: rising, falling and staying are all distinguished, also from the
  initial `save` of 0.
* *Write requests.* `onoff_thresholds` writes thresholds between the stored ones (20), at one of them (30), beyond both (40) and out of
  range (99), alone, in pairs of different and of the same attributes, not stored, and unchecked, onto configured thresholds that the earlier writes
  have moved, so equal, crossing, rejected and doubled thresholds all occur; only the temperature's, since the channels' thresholds do not meet.
  No binding view ever comes in this run, so the control idles: handling a record reads nothing of its state for the thresholds. The other runs write no
  thresholds and start from the stored ones. `onoff_rebinding` has Toggle and one action at the temperature, written with and without the application,
  and the other action at the humidity.
* *Views.* `onoff_static` keeps the view it got first (either value): what newly
  bound devices were sent is not known to the control. `onoff_rebinding` lets it
  change at any moment.
* *Table.* Two devices, a group and a coordinator, four entries in place of
  `APS_BINDING_TABLE_NUM` = 16: enough for a shared and an unshared destination at a
  time, and for a full table. At most two updates are scheduled at a time; a third
  would find the same table.
* *Finding & binding.* Two devices and a queue of one element
  (`QueueSize` = 2 leaves one place of the ring empty; the code has 5), so both the
  full queue and a device waiting behind another occur. They describe different
  endpoints, one of them none that matches. `MaxTasks` = 2. The safety run has only
  four presses, no steering and no end of the three minutes; the run for liveness has
  all of that with one device.
* *Reporting.* Two entries: one is reconfigured to five other settings (longer and shorter minimum,
  minimum 0, maximum 0, no reports), has values that differ by less and by as much as the reportable change; the other shares the
  reporting timer. Intervals of 0 to 3 s order minimum, maximum, old and new ones in every way. `MaxCalls` = 3
  interferences: a new setting, a lost binding and its return, for instance. Between them the time is not bounded.
* *NvStore.* Two items, two values, sectors of three entries: one more than the items, as few as
  the code allows, so the sectors change with every third write. Six writes change them twice; two failures may hit the write and the
  recovery from it. Items and values are alike for the code, hence the symmetry. When the bounds are
  used up nothing is left to do: deadlock is not checked.
* *Panel.* Two clicks stand for two to four, which do the same here; two long presses at a time (`MaxSearches`); effects of zero
  and one blinks (`panel_stale_timer`: two as well); Identify times of 0 and 256, which is 0 in eight bits. `Followed` = {findBind}: of the timers that
  may get the place of the dangling handle only that one is followed in `panel`; the violated run follows both that are never cancelled.

### Fairness

* `OnOffControl`: weak fairness of `Measuring`: `app_task` polls the read period for ever.
  Requests, the network and the power owe nothing.
* `BindView`: weak fairness of the update task and of the timer, which the event loop runs;
  strong fairness of a *successful* address response, because the timer repeats the request
  until it is answered and `ViewArrives` is about a device that stays on its network; strong fairness of a rejoining that is confirmed while no
  finding & binding runs, because `app_rejoinBacckoff` requests it every minute until a success stops it; weak fairness of the end of finding & binding, which `FindBindEnds` shows.
* `FindBind`: weak fairness of tasks, timers and the end of steering. Two assumptions are
  about the environment: an address that was asked for is answered with success, and
  a start that is tried again and again is accepted some day (the stack is not
  occupied for ever). The first one is needed: **the code sets no timer while it waits for an
  address** (`bdb_ieeeAddrResp`, `src/src/zigbee/bdb/bdb.c:417-432`, does nothing with an
  error status), so without an answer it stays in FINDORBIND and refuses every later start.
  `NeverStranded` counts an awaited address as something that takes it on, for that reason.

## 4. The theorems

| module | theorem | for all values of the constants |
|---|---|---|
| `OnOffControlProofs` | `TypeCorrect` | `TypeOK` |
| | `TimersAreJustified` | `TimerJustified`: a repeat timer runs only for an enabled channel with repetition enabled |
| | `DecisionsAreJustified` | `LatchJustified`: only an enabled channel with a view holds a decision |
| | `DecisionsAreSent`, `RepeaterIsOne`, `RepeaterIsArmed`, `RepeatsAgree`, `RepeatsArePutRight` | `DecisionSent`, `OneRepeater`, `RepeaterArmed`, `RepeatAgreesApart`, `RepeatIsPutRight`, all five with `~Rebinding` |
| | `ProcIsIdempotent` | `ProcIdempotent` |
| | `Banded`, `DisablingReleases` | `Hysteresis`, `DisableReleases` |
| `ThresholdProofs` | `ThresholdsStayOrdered` | `ThresholdsOrdered` |
| | `AttributesStayAgreed` | `AttributesAgree` |
| `BindViewProofs` | `ViewsHaveAddresses` | `ViewHasAddress` |
| | `ImplementsControlEnvironment` | `BindView` implements `ControlEnvironment` |
| | `ViewTyping` | `TypeOK` |
| | `StalenessNoticed` | `StaleIsNoticed`, if there is one coordinator |
| `FindBindProofs` | `CommissioningIsReleased` | `BusyReleased` |
| | `FindBindIsTakenOn` | `NeverStranded` |
| | `AddressesComeSingly` | `OneAddressAwaited` |
| | `Typing` | `TypeOK` |
| `ReportingProofs` | `Typing` | `TypeOK` |
| | `InTime` | `ReportedInTime` |
| | `Apart` | `MinimumKept` |
| | `InTimeAgain` | `ReportedAgain` |
| | `ChangeIsNotLost` | `ChangeOnItsWay` |
| `NvStoreProofs` | `Types` | `TypeOK` |
| | `StoredFound` | `StoredIsFound` |
| | `RoomLeft` | `RoomForAll` |
| | `Registers` | `IsRegister`: `NvStore` implements `NvRegister` |
| `PanelProofs` | `Typing` | `TypeOK` |
| | `HandlesAgree` | `HandlesLive` |
| | `NothingForEver` | `TemporaryEnds` |
| | `Dark` | `IconGoesOut` |
| | `Searched`, `LostIsSought` | `SearchGoesOn`, `NetworkSought` |
| `AppTimer` | `ReadInTime` | the time since the last reading is never overestimated, and exact but for what the timer lost |

**OnOffControl.** `JustifiedInv` is `TypeOK`, `TimerJustified`, a decision only for an enabled
channel, and `bindIdle => Quiet`: without a view no timer runs and nothing is decided. The last part is
needed because with `bindIdle` the control returns at once
(`app_on_off.c:654`), so a write that disables a channel would stop nothing: there must be
nothing to stop. The lemmas follow the calls: for each operator
one says what it does to types, one what it does to timers and decisions.
What makes the proof go through is that after `proc_temp_hum_onoff` every *disabled* channel is
quiet whatever it held before: the handler of "onoff" breaks the invariant
before it runs the control, and the control repairs it. A device that is not joined
cannot be written to, so configuration and control stay as they are.

What the devices were *told* needs `SentInv`: `JustifiedInv`, `Sent`, and `bindIdle => Fresh`. With a device
per channel, `Apart`: what was decided was sent, repeated unchanged, and has its timer, until the decision is forgotten. For what is repeated then, `RepeatInv` adds:
a timer runs only after something was decided, and a repetition can turn an Off that was decided into an On, not an On into an Off. With one device,
`Together`: if a channel wants On, the last decision sent was On; if all that have a say decided Off, it was Off; in both cases one
timer runs, and never two. That also covers the states between two records of a request, where one channel has been reset and
not yet decided again. `AllDecided` (enabled channels decide in the same run, `app_on_off.c:505-520`) is needed when a channel is disabled: had it not decided beside one
that decided Off, then without it all that have a say would have decided Off and nobody been told. `common = sw` is needed because the code keeps
two copies of a decision.
The five theorems assume `~Rebinding`: when the binding view changes from one device to two, the
devices newly bound have been told nothing, and the control does not know. `onoff_static` checks them under the same condition.

`ProcIsIdempotent` follows the control through a second run: with ordered thresholds a decision taken once `Stands`, for each channel and then for the
common device. For `DisableReleases` the reason why the devices of the disabled channel are or will be Off (`Due`) is carried over the second record
of the same request, which may rerun the control with the channel disabled already. `Hysteresis` and it are
unconditional, as is `ProcIdempotent`.

**ThresholdProofs.** The order of the configured thresholds is kept by every record that is handled, whatever the attributes hold. Agreement of the attributes does
not hold within a request: all records are stored
before the first is handled. `AgreeBut(cf, at, open)` says that all attributes agree with the
configuration but those in `open`: storing a record opens its field
(`StorePends`), handling it closes the field if the attribute still holds the record's value (`HandleSettles`) - for the second of two records
of one threshold it does not, nor for one that was not stored, and these fields stay `loose`. `AgreeAlways` has both properties.

**BindView.** `ViewInv` adds `joined => home # None`: a successful answer to the request
then brings an address. For the refinement, each action maps to one of the four
steps or to a stutter; `Join`, `ParentLost` and leaving change `joined` alone, and the update
is the only one that changes the two flags besides a restart. `StalenessNoticed` rests on `Renewed`: whenever there is a network and a view, joined or not, the flag disagrees
with the table only if a task, the timer, a commissioning or a silent change is there. It needs one coordinator:
with two, leaving the first and joining the second makes the view wrong by itself (section 5).

**FindBind.** `Shape` is the part of the type invariant that the proofs need. Given it, each of the
three properties is inductive by itself. `NeverStranded` and `BusyReleased` talk of
scheduled tasks; four lemmas on the queue (what an append or the removal of the first task
leaves scheduled) and `OthersKeep` (every step but running a task only appends)
carry them through all the actions. The types add `Rest` to `Shape`: the ring of devices never fills its last place, and a device whose
descriptor or address is asked for is a known one or `None`. `None` is the address 0 of the cleared structure, and the
proof is where it showed that the code may really ask for it (section 5). Neither the number of devices nor `QueueSize` nor
`MaxTasks` matters.

The assumptions are those on the constants in the modules, which TLC evaluates in every run.

**Reporting.** The invariant says, per entry: where its counters stand depending on its timer and on the time since the
last report. Without interference a running maximum timer was started with the last report;
a minimum timer was started later, but not after the maximum would have passed; so age plus the time left is at most
maximum + minimum. The counters only come to zero by the minimum timer's end, which gives `Apart`.
Lemmas per operator (`Poll`, `Expired`, `Reported`, ...) carry it; one entry's lemma serves all, since the
actions treat the entries alike.
`ReportedAgain` is about the times *after* an interference. It needs `AllBounded` (no counter exceeds its interval, the ones in
the saved table included) and `AllAwaited`: at most one minimum timer of an earlier setting runs first, then a timer of the present
one, then the entry is due; the age plus what is left of this chain is bounded. The bound, `LongestMin`, is a largest
element; that it exists is proved from all minimum intervals being below `Never`. `AllSettled` is for `ChangeOnItsWay`: the value the code compares with
(`prev`) is the value last reported, unless a minimum timer runs or the entry is due with a counter of 0; it
has to be said also for the moment between measuring and polling, where the value is newer than any comparison.

**NvStoreProofs.** `IInv` has three layers. `CallShape` and `TornLast` hold whatever the battery does: where the call stands, that it
knows a valid sector when it must, that a half-written entry is the last. `Copying` says that what has been copied comes
from the other sector and names no item twice but those the old sector does (for `RoomForAll`). With a good battery
(`~weak => GoodBattery`) there is one conjunct for each stage of a write: while the sectors change, the new one `Mirrors` the old one
up to the entry reached for every item but the one being written; after the new entry is validated the copy is `Complete`, and only then do the flags change,
so that at each of the three flag operations it does not matter for the other items which sector is found. With a low battery none of these
need hold, but nothing is written in that call any more (`Written`), and it makes no promise. There is one lemma per action. For the refinement every action leaves all items as they
are (`Kept`) or changes the item being written from its old value to its new one (`Took`), which happens once: at `Validate` in a
sector in use, at `Header` in one just formatted, and on a change of sectors at `Ready` or at `Retire`, depending on which of the two is sector 0,
which `nv_sector_read` looks at first. Assumed of the constants: finitely many items, and `None` differs from items, values and records.

**PanelProofs.** `Good(timers, cut)` is what the operations on timers preserve: handles agree
with their timers except for those in `cut`, and what may have the place of the dangling handle does run, so cancelling it
cuts a timer that is there. One lemma per operation (`Scheduled`, `Ending`, `Cancelling`,
`Restarting`, `Starting`) says that it keeps `Good` and touches no other kind; the rest is the promises of `TemporaryEnds`, that
blinking with no times left was begun with none (`OverAtOnce`), and that a stack being initialized has
nothing to tell (`NothingToTell`: otherwise a leave would let a result be dropped). `Kept` adds the two action properties, so
each action is looked at once. Neither the number of overlapping searches nor of clicks matters, and any of the `Uncancelled` kinds may
be followed: the invariant has `cut` within them, so no cancel of the application's own ever meets a handle whose timer was cut.

**AppTimer.** `ref` and `timeout` are in 1..Period after the first reading, so no difference wraps (`Elapsed`); an
update takes from the countdown what it adds to the time, or loses what it exceeds it by.

**Only model-checked:** the liveness properties (`ControlEngages`, `ViewArrives`, `FindBindEnds`, `PressIsTakenUp`), because
fairness and `ENABLED` are out of the prover's reach; and the two counterexamples of section 5. Every safety invariant and
action property of the passing runs is stated by a theorem, those on what the devices were told for
unchanged bindings.

## 5. Where code and documentation disagree, and other known deviations

Shown by a run:

1. **The second device is bound from endpoint 1** (`findbind_bound_at_pressed`). The first binding
   clears `find_bind_flag`.
2. **A press cancels another timer** (`panel_stale_timer`). `find_and_bind_clear_flag` (`app_button.c:32-36`) leaves the handle of
   its timer; a press more than three minutes later cancels what has the timer's place. The run shows it for `bdbFBTimerEvt`, whose handle then
   stays set, so that finding & binding is impossible until a reset. By reading the code, it may as well be the timer that tries to rejoin a lost network;
   and a timer that is cut this way leaves a handle through which a later cancel hits yet another one.

Seen while modelling, and modelled as they are, so that the properties except them:

3. **Repetition may contradict the decision.** With one device, the repeat callback sends its own channel's `sw_onoff`
   (`app_on_off.c:165`); the other channel may keep the device On while it repeats Off. With devices of their own, a rewritten switch action forgets the decision
   (0xff) and leaves the timer running (`zcl_appCb.c:322-330`); the callback takes 0xff for On (`app_on_off.c:157-158`), and a device that was
   told Off by the decision is told On, until the next measurement decides anew - or for good, if the channel is disabled before that, because there is no decision left to take
   back. Hence the form of `RepeatAgreesApart` and `RepeatIsPutRight`.
4. **Deciding on nothing.** If the sensor cannot be read at the start, the control compares 0x8000 and 0xffff with
   the thresholds and switches the devices (`app_sensor.c:43`, `app_main.c:209-217`).
5. **Presses leave a stale view.** Nothing schedules an update after the button deleted bindings
   (`app_button.c:240`), nor after a finding & binding that bound something and ended without success. Nor after joining, if finding & binding was asked for
   while a factory-new device steered: it follows steering, and if it ends without success the device has a network but no view, and the control stays idle, until the next Bind request, successful commissioning or restart. Hence `silent`.
6. **The former coordinator's address.** `addrCrdnrSet` is never cleared (`app_binding.c:171`); after joining another network
   the comparison uses the old address. Hence one coordinator in `StalenessNoticed`. Before the address is known, a press compares with zeros and deletes the coordinator's own bindings as well (`app_button.c:158`).
7. **A dip of the voltage can lose an item.** If the battery is low for exactly the operation that validates an entry and good again
   for the next, the result is not looked at (`drv_nv.c:397`) and the predecessor is invalidated (`drv_nv.c:742`).
   `NvStore` lets the voltage fall within a call but rise only between calls.
8. **An Identify time that is a multiple of 256** blinks zero times and leaves the icon lit (`zcl_appCb.c:495`, `app_lcd.c:324`).
9. **A refused attempt ends the attempts** until the search is over (`zb_appCb.c:88`), and so does **a leave that fails** (`zb_appCb.c:389`), with which a long press begins; **a loss of the network while a
   commissioning runs** starts no rejoining (`bdb.c:1388`). `SearchGoesOn` and `NetworkSought` name these gaps.
10. **The coordinator may be asked for its descriptor.** If finding & binding ends and begins again while the task that asks for a
   descriptor is scheduled, the task reads the cleared structure (`bdb.c:343`) and asks the short address 0, endpoint 0
   (`bdb.c:564`). It takes four scheduled tasks, more than the runs have; the proof of `FindBind`'s types met it. `None` stands for that address.
11. **Attributes that differ from the configuration.** All records of a request are stored before the first is checked, and Write No Response and Write Undivided are never checked
   (`zcl.c:702-709, 1346-1359`). Two records of one threshold, a record of the wrong type, or an unchecked write leave the attribute, with which the control compares,
   different from `config`, which is saved: any value, in any order with the other threshold, until a plain write or a restart. `AttributesAgree` excepts these (`loose`).
   An unchecked switch action takes effect and is forgotten by a restart; an unchecked "onoff" or "repeat" is read back by the network and ignored by the control.
12. **Enabling and disabling in one request.** After the bindings have changed, enabling a channel of a common device decides once more and may hold its Off back for the other channel; disabling it in the same request
   then releases nothing. `DisableReleases` excepts it (`EnablesFirst`).
13. **Leaving forgets what finding & binding looks for.** `tl_bdbReset` (`bdb.c:1900`) clears `g_bdbCtx`: the list of clusters, which is set once after the start (`app_main.c:309`), is empty
   afterwards, so nothing matches until the next restart; the handle `identifyTimer` is NULL while its timer runs on. Found by reading; `FindBind` ends where it happens.

## 6. What is not modelled

* Hardware: I2C and the sensor's protocol, the ADC, flash chips, sleeping, segment data of the LCD.
* The vendor's SDK but for the files named above. It is more than 95 % of the lines in the repository: the registers and drivers of
  a dozen chips of which the device has one, profile clusters it does not use, Green Power, touchlink, and a stack
  of which the parts that matter most come as a binary library. Its behaviour towards the application (binding table, task queue, write handler, leaving) is
  modelled by what the application sees of it. A share of the repository's lines says therefore little; of `src/src/`,
  what is left out is listed here.
* Poll control (`zcl_appCb.c:941-1200`): not compiled (`ZCL_POLL_CTRL` is not defined). The callbacks of groups, scenes and IAS
  zones change no state.
* The computation of the reading period from the reporting table (`app_sensor.c:134-177`), but for its effect on the poll rate; the
  reports that `app_reporting.c` forces.
* The exchange of keys and install codes within steering, which is one step with an outcome; of a late exchange, its effect on `nodeIsOnANetwork` alone.
* In `FindBind`, leaving the network: `tl_bdbReset` ends what the module is about. `Panel` has its effect on the state of commissioning, `BindView` on network and table.
* Requests of more than two records; records for attributes that the control does not read.
* The pool of timers is not bounded: 24 suffice as long as fewer than about a dozen long presses fall into 90 seconds.
* The frame counter's own storage and the reset of the storage to factory new.

What remains worth doing: the composition of `OnOffControl` and `BindView` (what newly bound devices are
owed), with which `~Rebinding` could be weakened in the theorems on what the devices were told.
