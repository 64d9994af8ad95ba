------------------------- MODULE OnOffControlProofs -------------------------
(***************************************************************************)
(* Theorems about OnOffControl for every value of its constants, checked   *)
(* by TLAPS.  The handlers are operators on records, so the proofs rest on *)
(* one lemma per operator about the record it returns.                     *)
(***************************************************************************)
EXTENDS OnOffControl, TLAPS

-----------------------------------------------------------------------------
(***************************************************************************)
(* The operators return records of the right type.                         *)
(***************************************************************************)

\* A command is one of the two the control sends.
LEMMA CmdType ==
  ASSUME NEW k \in Ctl, NEW c \in Chan, NEW cmd \in {ON, OFF}
  PROVE  cmdOnOff(k, c, cmd) \in Ctl
BY DEF cmdOnOff, Ctl, Command, ON, OFF

\* What the repeat callback records as sent.
LEMMA ResendType ==
  ASSUME NEW k \in Ctl, NEW c \in Chan, NEW cmd \in {ON, OFF}
  PROVE  Resend(k, c, cmd) \in Ctl
BY DEF Resend, Ctl, Command, ON, OFF

\* Stopping and starting timers, and resetting a channel.
LEMMA TimerType ==
  ASSUME NEW cf \in Config, NEW k \in Ctl, NEW c \in Chan
  PROVE  /\ Cancel(k, c) \in Ctl
         /\ Restart(cf, k, c) \in Ctl
         /\ reset_control(k, c) \in Ctl
BY DEF Cancel, Restart, reset_control, Ctl, Config, Switch

\* The other channel is a channel.
LEMMA OtherType == ASSUME NEW c \in Chan PROVE Other(c) \in Chan
BY DEF Other, Chan

\* Handing the repetition over to one channel keeps the types.
LEMMA TakeOverType ==
  ASSUME NEW cf \in Config, NEW k \in Ctl, NEW c \in Chan
  PROVE  TakeOver(cf, k, c) \in Ctl
BY TimerType, OtherType DEF TakeOver

\* A decision is On or Off, never IDLE.
LEMMA DecisionType ==
  ASSUME NEW at \in Attr, NEW k \in Ctl, NEW c \in Chan
  PROVE  Decision(at, k, c) \in {ON, OFF}
BY DEF Decision, Startup, Ctl, Switch, ON, OFF, IDLE

\* A disabled channel's clean-up keeps the types.
LEMMA DisabledType ==
  ASSUME NEW k \in Ctl, NEW c \in Chan
  PROVE  Disabled(k, c) \in Ctl
<1>1. Cancel(k, c) \in Ctl
  BY DEF Cancel, Ctl
<1>2. cmdOnOff(Cancel(k, c), c, OFF) \in Ctl
  BY <1>1, CmdType
<1>3. \A j \in Ctl : [j EXCEPT !.sw[c] = IDLE] \in Ctl
  BY DEF Ctl, Switch
<1> QED
  BY <1>1, <1>2, <1>3 DEF Disabled

\* An enabled channel's decision keeps the types.
LEMMA DecidedType ==
  ASSUME NEW cf \in Config, NEW at \in Attr, NEW k \in Ctl, NEW c \in Chan
  PROVE  Decided(cf, at, k, c) \in Ctl
<1> DEFINE new == Decision(at, k, c)
           kept == IF cf.repeat THEN k ELSE Cancel(k, c)
           nxt == [kept EXCEPT !.sw[c] = new, !.save[c] = at.value[c]]
<1>1. new \in {ON, OFF}
  BY DecisionType
<1>2. kept \in Ctl
  BY TimerType
<1>3. nxt \in Ctl
  BY <1>1, <1>2 DEF Ctl, Attr, Switch
<1>4. cmdOnOff(Restart(cf, nxt, c), c, new) \in Ctl
  BY <1>1, <1>3, TimerType, CmdType
<1> QED
  BY <1>2, <1>3, <1>4 DEF Decided

\* proc_temp_onoff and proc_hum_onoff keep the types.
LEMMA ProcChannelType ==
  ASSUME NEW cf \in Config, NEW at \in Attr, NEW k \in Ctl, NEW c \in Chan
  PROVE  proc_temp_onoff(cf, at, k, c) \in Ctl
BY DisabledType, DecidedType DEF proc_temp_onoff

\* The four cases of procTempHumOnOff.
LEMMA NoneEnabledType ==
  ASSUME NEW k \in Ctl
  PROVE  NoneEnabled(k) \in Ctl
<1> DEFINE stopped == Cancel(Cancel(k, "temp"), "hum")
<1>1. stopped \in Ctl
  BY DEF Cancel, Ctl
<1>2. cmdOnOff(stopped, "temp", OFF) \in Ctl
  BY <1>1, CmdType DEF Chan
<1>3. \A j \in Ctl : [j EXCEPT !.sw     = [c \in Chan |-> IDLE],
                              !.common = [c \in Chan |-> IDLE]] \in Ctl
  BY DEF Ctl, Switch
<1> QED
  BY <1>1, <1>2, <1>3 DEF NoneEnabled

\* procTempHumOnOff with one enabled channel keeps the types.
LEMMA OneEnabledType ==
  ASSUME NEW cf \in Config, NEW k \in Ctl, NEW c \in Chan
  PROVE  OneEnabled(cf, k, c) \in Ctl
<1> DEFINE o == Other(c)
           stopped == Cancel(k, o)
           released == IF k.sw[o] = ON /\ k.sw[c] = OFF
                       THEN cmdOnOff(stopped, o, OFF) ELSE stopped
           alone == [released EXCEPT !.sw[o] = IDLE, !.common[o] = IDLE]
           sent == cmdOnOff(alone, c, k.sw[c])
           told == IF k.sw[c] \in {ON, OFF} /\ k.common[c] # k.sw[c]
                   THEN Cancel([sent EXCEPT !.common[c] = k.sw[c]], c) ELSE alone
<1>1. o \in Chan
  BY OtherType
<1>2. stopped \in Ctl
  BY <1>1 DEF Cancel, Ctl
<1>3. cmdOnOff(stopped, o, OFF) \in Ctl
  BY <1>1, <1>2, CmdType
<1>4. \A j \in Ctl : [j EXCEPT !.sw[o] = IDLE, !.common[o] = IDLE] \in Ctl
  BY <1>1 DEF Ctl, Switch
<1>5. alone \in Ctl
  BY <1>2, <1>3, <1>4
<1>6. ASSUME k.sw[c] \in {ON, OFF}
      PROVE  Cancel([sent EXCEPT !.common[c] = k.sw[c]], c) \in Ctl
  <2>1. sent \in Ctl
    BY <1>5, <1>6, CmdType
  <2>2. \A j \in Ctl : [j EXCEPT !.common[c] = k.sw[c]] \in Ctl
    BY <1>6 DEF Ctl, Switch
  <2>3. \A j \in Ctl : Cancel(j, c) \in Ctl
    BY TimerType
  <2> QED
    BY <2>1, <2>2, <2>3
<1>7. told \in Ctl
  BY <1>5, <1>6
<1> HIDE DEF told
<1>8. Restart(cf, told, c) \in Ctl
  BY <1>7, TimerType
<1> QED
  BY <1>7, <1>8 DEF OneEnabled, told

\* A channel's turn On or Off on the common device keeps the types.
LEMMA EdgeType ==
  ASSUME NEW cf \in Config, NEW k \in Ctl, NEW c \in Chan
  PROVE  OnEdge(cf, k, c) \in Ctl /\ OffEdge(cf, k, c) \in Ctl
<1>1. \A j \in Ctl, cmd \in {ON, OFF} : [j EXCEPT !.common[c] = cmd] \in Ctl
  BY DEF Ctl, Switch
<1>2. \A j \in Ctl : TakeOver(cf, j, c) \in Ctl
  BY TakeOverType
<1>3. \A j \in Ctl, cmd \in {ON, OFF} : cmdOnOff(j, c, cmd) \in Ctl
  BY CmdType
<1>4. TakeOver(cf, [cmdOnOff(k, c, ON) EXCEPT !.common[c] = ON], c) \in Ctl
  BY <1>1, <1>2, <1>3
<1>5. [k EXCEPT !.common[c] = OFF] \in Ctl
  BY <1>1
<1>6. TakeOver(cf, cmdOnOff([k EXCEPT !.common[c] = OFF], c, OFF), c) \in Ctl
  BY <1>2, <1>3, <1>5
<1> QED
  BY <1>4, <1>5, <1>6 DEF OnEdge, OffEdge

\* procTempHumOnOff with both channels enabled keeps the types.
LEMMA BothEnabledType ==
  ASSUME NEW cf \in Config, NEW k \in Ctl
  PROVE  BothEnabled(cf, k) \in Ctl
BY EdgeType DEF BothEnabled, Chan

\* The entry point of the control.
LEMMA ProcType ==
  ASSUME NEW cf \in Config, NEW at \in Attr, NEW k \in Ctl,
         joined \in BOOLEAN
  PROVE  proc_temp_hum_onoff(cf, at, k) \in Ctl
<1> DEFINE p == proc_hum_onoff(cf, at, proc_temp_onoff(cf, at, k, "temp"))
<1>1. p \in Ctl
  BY ProcChannelType DEF proc_hum_onoff, Chan
<1>2. /\ NoneEnabled(p) \in Ctl
      /\ OneEnabled(cf, p, "hum") \in Ctl
      /\ OneEnabled(cf, p, "temp") \in Ctl
      /\ BothEnabled(cf, p) \in Ctl
  BY <1>1, NoneEnabledType, OneEnabledType, BothEnabledType DEF Chan
<1>3. cf.enabled["temp"] \in BOOLEAN /\ cf.enabled["hum"] \in BOOLEAN
  BY DEF Config, Chan
<1> HIDE DEF p
<1>4. procTempHumOnOff(cf, at, k) \in Ctl
  BY <1>2, <1>3 DEF procTempHumOnOff, p
<1> QED
  BY <1>1, <1>4 DEF proc_temp_hum_onoff, p

-----------------------------------------------------------------------------
(***************************************************************************)
(* Write requests.                                                         *)
(***************************************************************************)

Writable == [config : Config, attr : Attr, ctl : Ctl]

\* The records of a request.
LEMMA RecordsType ==
  ASSUME NEW c \in Chan, NEW r \in Records(c)
  PROVE  /\ r.stored \in BOOLEAN
         /\ \/ r.field \in {"onoff", "repeat"} /\ r.value \in BOOLEAN
            \/ r.field \in Threshold /\ r.value \in Int
<1>1. Written[c] \subseteq Int
  BY RequestsAssumption
<1> QED
  BY <1>1 DEF Records, Threshold

\* Storing a record's attribute keeps the types of the attributes.
LEMMA StoreType ==
  ASSUME NEW at \in Attr, NEW c \in Chan, NEW r \in Records(c)
  PROVE  Store(at, c, r) \in Attr
<1>1. CASE r.field \in {"onoff", "repeat"}
  BY <1>1 DEF Store
<1>2. CASE r.field = "low" /\ r.value \in Int
  BY <1>2, RecordsType DEF Store, Attr
<1>3. CASE r.field = "high" /\ r.value \in Int
  BY <1>3, RecordsType DEF Store, Attr
<1> QED
  BY <1>1, <1>2, <1>3, RecordsType DEF Threshold

\* What a request leaves loose are thresholds of its channel.
LEMMA LooseType ==
  ASSUME NEW fields \in SUBSET Threshold, NEW c \in Chan, NEW r \in Records(c)
  PROVE  Loosen(fields, r) \in SUBSET Threshold /\ Doubled(fields, r) \in SUBSET Threshold
<1>1. r.stored \/ r.field \in Threshold
  BY DEF Records
<1> QED
  BY <1>1 DEF Loosen, Doubled

\* Accepting or refusing a threshold keeps the types.
LEMMA ChangeType ==
  ASSUME NEW w \in Writable, NEW c \in Chan, NEW v \in Int
  PROVE  /\ ChangeLow(w, c, v) \in Writable
         /\ ChangeHigh(w, c, v) \in Writable
<1>1. w.config \in Config /\ w.attr \in Attr /\ w.ctl \in Ctl
  BY DEF Writable
<1>2. /\ [w.config EXCEPT !.low[c] = v] \in Config
      /\ [w.config EXCEPT !.high[c] = v] \in Config
  BY <1>1 DEF Config
<1>3. /\ [w.attr EXCEPT !.low[c] = w.config.low[c]] \in Attr
      /\ [w.attr EXCEPT !.high[c] = w.config.high[c]] \in Attr
  BY <1>1 DEF Config, Attr
<1>4. /\ [w EXCEPT !.config.low[c] = v] \in Writable
      /\ [w EXCEPT !.config.high[c] = v] \in Writable
  BY <1>2 DEF Writable
<1>5. /\ [w EXCEPT !.attr.low[c] = w.config.low[c]] \in Writable
      /\ [w EXCEPT !.attr.high[c] = w.config.high[c]] \in Writable
  BY <1>3 DEF Writable
<1> QED
  BY <1>4, <1>5 DEF ChangeLow, ChangeHigh

\* Handling a record: what is handed to the control.
Prepared(w, c, r) ==
  CASE r.field = "onoff"  -> [w EXCEPT !.config.enabled[c] = r.value]
    [] r.field = "low"    -> [ChangeLow(w, c, r.value) EXCEPT !.ctl = reset_control(@, c)]
    [] r.field = "high"   -> [ChangeHigh(w, c, r.value) EXCEPT !.ctl = reset_control(@, c)]
    [] r.field = "repeat" -> [w EXCEPT !.config.repeat = r.value,
                                       !.ctl = repeat_timer_stop(@)]

\* Every record is a change of the configuration followed by the control.
LEMMA HandlePrepared ==
  ASSUME NEW w, NEW c \in Chan, NEW r \in Records(c)
  PROVE  HandleRecord(w, c, r) = Process(Prepared(w, c, r))
<1>1. CASE r.field = "onoff"
  BY <1>1 DEF HandleRecord, Prepared
<1>2. CASE r.field = "low"
  BY <1>2 DEF HandleRecord, Prepared
<1>3. CASE r.field = "high"
  BY <1>3 DEF HandleRecord, Prepared
<1>4. CASE r.field = "repeat"
  BY <1>4 DEF HandleRecord, Prepared
<1> QED
  BY <1>1, <1>2, <1>3, <1>4, RecordsType DEF Threshold

\* The change a record makes before the control runs keeps the types.
LEMMA PreparedType ==
  ASSUME NEW w \in Writable, NEW c \in Chan, NEW r \in Records(c)
  PROVE  Prepared(w, c, r) \in Writable
<1>1. w.config \in Config /\ w.attr \in Attr /\ w.ctl \in Ctl
  BY DEF Writable
<1>2. CASE r.field = "onoff" /\ r.value \in BOOLEAN
  <2>1. [w.config EXCEPT !.enabled[c] = r.value] \in Config
    BY <1>1, <1>2 DEF Config
  <2> QED
    BY <1>2, <2>1 DEF Prepared, Writable
<1>3. \A v \in Writable : [v EXCEPT !.ctl = reset_control(@, c)] \in Writable
  BY TimerType DEF Writable
<1>4. CASE r.field = "low" /\ r.value \in Int
  BY <1>3, <1>4, ChangeType DEF Prepared
<1>5. CASE r.field = "high" /\ r.value \in Int
  BY <1>3, <1>5, ChangeType DEF Prepared
<1>6. CASE r.field = "repeat" /\ r.value \in BOOLEAN
  <2>1. [w.config EXCEPT !.repeat = r.value] \in Config
    BY <1>1, <1>6 DEF Config
  <2>2. repeat_timer_stop(w.ctl) \in Ctl
    BY <1>1, TimerType DEF repeat_timer_stop, Chan
  <2> QED
    BY <1>6, <2>1, <2>2 DEF Prepared, Writable
<1> QED
  BY <1>2, <1>4, <1>5, <1>6, RecordsType DEF Threshold

\* Running the control on a prepared state keeps the types.
LEMMA ProcessType ==
  ASSUME NEW w \in Writable, joined \in BOOLEAN
  PROVE  Process(w) \in Writable
<1>1. w.config \in Config /\ w.attr \in Attr /\ w.ctl \in Ctl
  BY DEF Writable
<1>2. proc_temp_hum_onoff(w.config, w.attr, w.ctl) \in Ctl
  BY <1>1, ProcType
<1> QED
  BY <1>2 DEF Process, Writable

\* Handling a record keeps the types of everything it may change.
LEMMA HandleRecordType ==
  ASSUME NEW w \in Writable, joined \in BOOLEAN, NEW c \in Chan, NEW r \in Records(c)
  PROVE  HandleRecord(w, c, r) \in Writable
BY HandlePrepared, PreparedType, ProcessType

-----------------------------------------------------------------------------
(***************************************************************************)
(* Type correctness.                                                       *)
(***************************************************************************)

\* The statics have their types after the start.
LEMMA InitialType ==
  ASSUME NEW stored \in [Chan -> Int]
  PROVE  Initial(stored) \in Ctl
BY DEF Initial, Ctl, Switch, Command

\* What the first reading leaves are integers.
LEMMA ReadingType == FirstReading \subseteq [Chan -> Int]
<1>1. Measured \subseteq Int
  BY ValuesAssumption
<1>2. [Chan -> Measured] \subseteq [Chan -> Int]
  BY <1>1
<1>3. -32768 \in Int /\ 65535 \in Int
  OBVIOUS
<1>4. Unmeasured \in [Chan -> Int]
  BY <1>3 DEF Unmeasured
<1> QED
  BY <1>2, <1>4 DEF FirstReading

\* What is read and restored at the start has its type.
LEMMA TypeInit == Init => TypeOK
<1> SUFFICES ASSUME Init PROVE TypeOK
  OBVIOUS
<1>1. Measured \subseteq Int /\ StoredLow \in Int /\ StoredHigh \in Int
  BY ValuesAssumption, LimitsAssumption
<1>2. config \in Config
  BY <1>1 DEF Init, Config
<1>3. /\ attr.value \in [Chan -> Int]
      /\ attr.low = config.low
      /\ attr.high = config.high
      /\ attr.action \in [Chan -> SwitchAction]
      /\ attr = [value |-> attr.value, low |-> attr.low,
                 high |-> attr.high, action |-> attr.action]
  BY <1>1, ReadingType, ActionsAssumption DEF Init
<1>4. attr \in Attr
  BY <1>2, <1>3 DEF Attr, Config
<1>5. ctl \in Ctl
  BY InitialType DEF Init
<1>6. saved \in [Chan -> SwitchAction] /\ loose \in [Chan -> SUBSET Threshold]
  BY <1>3 DEF Init
<1> QED
  BY <1>2, <1>4, <1>5, <1>6 DEF Init, TypeOK

\* Every action preserves the types.
LEMMA TypeStep == TypeOK /\ [Next]_vars => TypeOK'
<1> SUFFICES ASSUME TypeOK, [Next]_vars PROVE TypeOK'
  OBVIOUS
<1> USE DEF TypeOK
<1> DEFINE before == [config |-> config, attr |-> attr, ctl |-> ctl]
<1>1. ASSUME NEW value \in [Chan -> Measured] \cup {attr.value}, Measure(value)
      PROVE  TypeOK'
  <2>1. value \in [Chan -> Int]
    BY ValuesAssumption DEF Attr
  <2>2. attr' \in Attr
    BY <1>1, <2>1 DEF Measure, Attr
  <2> QED
    BY <1>1, <2>2, ProcType DEF Measure
<1>2. ASSUME NEW c \in Chan, NEW r \in Records(c), app_zclWriteReqCmd(c, r)
      PROVE  TypeOK'
  <2> DEFINE w == [config |-> config, attr |-> Store(attr, c, r), ctl |-> ctl]
  <2>1. w \in Writable
    BY StoreType DEF Writable
  <2>2. HandleRecord(w, c, r) \in Writable
    BY <2>1, HandleRecordType
  <2>3. config' \in Config /\ attr' \in Attr /\ ctl' \in Ctl
    BY <1>2, <2>2 DEF app_zclWriteReqCmd, Become, Writable
  <2>4. loose' \in [Chan -> SUBSET Threshold]
    <3>1. Loosen(loose[c], r) \in SUBSET Threshold
      BY LooseType
    <3> QED BY <1>2, <3>1 DEF app_zclWriteReqCmd
  <2> QED
    BY <1>2, <2>3, <2>4 DEF app_zclWriteReqCmd
<1>3. ASSUME NEW c \in Chan, NEW r1 \in Records(c), NEW r2 \in Records(c),
             WriteTwoRecords(c, r1, r2)
      PROVE  TypeOK'
  <2> DEFINE w == [config |-> config, ctl |-> ctl,
                   attr |-> Store(Store(attr, c, r1), c, r2)]
  <2>1. w \in Writable
    BY StoreType DEF Writable
  <2>2. HandleRecord(HandleRecord(w, c, r1), c, r2) \in Writable
    BY <2>1, HandleRecordType
  <2>3. config' \in Config /\ attr' \in Attr /\ ctl' \in Ctl
    BY <1>3, <2>2 DEF WriteTwoRecords, Become, Writable
  <2>4. loose' \in [Chan -> SUBSET Threshold]
    <3>1. /\ Loosen(Loosen(loose[c], r1), r2) \in SUBSET Threshold
          /\ Doubled(loose[c], r1) \in SUBSET Threshold
      BY LooseType
    <3> QED BY <1>3, <3>1 DEF WriteTwoRecords
  <2> QED
    BY <1>3, <2>3, <2>4 DEF WriteTwoRecords
<1>4. ASSUME NEW c \in Chan, NEW a \in Actions[c], WriteSwitchAction(c, a)
      PROVE  TypeOK'
  <2>1. attr' \in Attr /\ saved' \in [Chan -> SwitchAction]
    BY <1>4, ActionsAssumption DEF WriteSwitchAction, Attr
  <2>2. ctl' \in Ctl
    BY <1>4, TimerType DEF WriteSwitchAction, Chan
  <2> QED
    BY <1>4, <2>1, <2>2 DEF WriteSwitchAction
<1>5. ASSUME NEW c \in Chan, cmd_repeatCb(c) PROVE TypeOK'
  <2>1. /\ Cancel(ctl, c) \in Ctl
        /\ Resend(ctl, c, ON) \in Ctl
        /\ Resend(ctl, c, OFF) \in Ctl
    BY TimerType, ResendType
  <2>2. ctl' \in Ctl
    BY <1>5, <2>1 DEF cmd_repeatCb, Config
  <2> QED
    BY <1>5, <2>2 DEF cmd_repeatCb
<1>6. ASSUME NEW one \in InitialViews, app_update_bind_tbl(one) PROVE TypeOK'
  <2>1. ctl' \in Ctl
    BY <1>6 DEF app_update_bind_tbl, Ctl, Command
  <2> QED
    BY <1>6, <2>1, ViewsAssumption DEF app_update_bind_tbl
<1>7. CASE Join
  BY <1>7 DEF Join
<1>8. CASE Leave
  BY <1>8 DEF Leave
<1>9. ASSUME NEW value \in FirstReading, Reboot(value) PROVE TypeOK'
  <2>1. attr' \in Attr
    BY <1>9, ReadingType DEF Reboot, Attr, Config
  <2>2. ctl' \in Ctl
    BY <1>9, InitialType DEF Reboot
  <2> QED
    BY <1>9, <2>1, <2>2 DEF Reboot
<1>10. ASSUME NEW c \in Chan, NEW v \in Measured, WriteOffset(c, v) PROVE TypeOK'
  BY <1>10, ValuesAssumption DEF WriteOffset, Attr
<1>11. CASE UNCHANGED vars
  BY <1>11 DEF vars
<1>12. ASSUME NEW c \in Chan, NEW r \in Records(c), WriteUnchecked(c, r) PROVE TypeOK'
  <2>1. attr' \in Attr
    BY <1>12, StoreType DEF WriteUnchecked
  <2>2. loose' \in [Chan -> SUBSET Threshold]
    BY <1>12 DEF WriteUnchecked
  <2> QED
    BY <1>12, <2>1, <2>2 DEF WriteUnchecked
<1>13. ASSUME NEW c \in Chan, NEW a \in Actions[c], WriteActionUnchecked(c, a) PROVE TypeOK'
  BY <1>13, ActionsAssumption DEF WriteActionUnchecked, Attr
<1> QED
  BY <1>1, <1>2, <1>3, <1>4, <1>5, <1>6, <1>7, <1>8, <1>9, <1>10, <1>11, <1>12, <1>13,
     RequestsAssumption
  DEF Next, Measuring

\* Every reachable state of the control is well typed, for any thresholds,
\* measurements and rebindings (app_on_off.c:11-16, app_config.c:9).
THEOREM TypeCorrect == Spec => []TypeOK
BY TypeInit, TypeStep, PTL DEF Spec

-----------------------------------------------------------------------------
(***************************************************************************)
(* Timers and decisions are justified by the configuration.                *)
(***************************************************************************)

TimersFor(cf, k)    == \A c \in Chan : k.timer[c] => cf.enabled[c] /\ cf.repeat
DecisionsFor(cf, k) == \A c \in Chan : k.sw[c] # IDLE => cf.enabled[c]
Quiet(k)            == \A c \in Chan : ~k.timer[c] /\ k.sw[c] = IDLE

\* Without a binding view the control has never run since the start.
JustifiedInv ==
  /\ TypeOK
  /\ TimersFor(config, ctl)
  /\ DecisionsFor(config, ctl)
  /\ bindIdle => Quiet(ctl)

\* What the small operators do to the timers and decisions.
LEMMA CmdKeeps ==
  ASSUME NEW k \in Ctl, NEW c \in Chan, NEW cmd
  PROVE  cmdOnOff(k, c, cmd).timer = k.timer /\ cmdOnOff(k, c, cmd).sw = k.sw
BY DEF cmdOnOff, Ctl

\* Cancelling a timer stops it and touches no decision.
LEMMA CancelEffect ==
  ASSUME NEW k \in Ctl, NEW c \in Chan
  PROVE  /\ Cancel(k, c).timer = [k.timer EXCEPT ![c] = FALSE]
         /\ Cancel(k, c).sw = k.sw
BY DEF Cancel, Ctl

\* A restarted timer runs exactly if the repetition is enabled.
LEMMA RestartEffect ==
  ASSUME NEW cf \in Config, NEW k \in Ctl, NEW c \in Chan
  PROVE  /\ Restart(cf, k, c).timer = [k.timer EXCEPT ![c] = cf.repeat]
         /\ Restart(cf, k, c).sw = k.sw
BY DEF Restart, Ctl

\* A channel's own timer and decision are justified after its procedure, and
\* the other channel's are left alone.
LEMMA DisabledEffect ==
  ASSUME NEW k \in Ctl, NEW c \in Chan
  PROVE  LET j == Disabled(k, c)
         IN  /\ ~j.timer[c]
             /\ ~oneDevice => j.sw[c] = IDLE
             /\ \A d \in Chan \ {c} : j.timer[d] = k.timer[d] /\ j.sw[d] = k.sw[d]
<1> DEFINE stopped == Cancel(k, c)
           released == IF k.sw[c] = ON THEN cmdOnOff(stopped, c, OFF) ELSE stopped
           idle == [released EXCEPT !.sw[c] = IDLE]
<1>1. stopped \in Ctl
  BY DEF Cancel, Ctl
<1>2. stopped.timer = [k.timer EXCEPT ![c] = FALSE] /\ stopped.sw = k.sw
  BY CancelEffect
<1>3. released \in Ctl /\ released.timer = stopped.timer /\ released.sw = stopped.sw
  BY <1>1, CmdKeeps, CmdType
<1>4. k.timer \in [Chan -> BOOLEAN] /\ k.sw \in [Chan -> Switch]
  BY DEF Ctl
<1> HIDE DEF stopped, released
<1>5. idle.timer = released.timer /\ idle.sw = [released.sw EXCEPT ![c] = IDLE]
  BY <1>3 DEF Ctl
<1>6. Disabled(k, c) = IF oneDevice THEN stopped ELSE idle
  BY DEF Disabled, stopped, released
<1> HIDE DEF idle
<1> QED
  BY <1>2, <1>3, <1>4, <1>5, <1>6

\* An enabled channel's timer runs afterwards only if commands are repeated, and
\* the other channel is left alone.
LEMMA DecidedEffect ==
  ASSUME NEW cf \in Config, NEW at \in Attr, NEW k \in Ctl, NEW c \in Chan
  PROVE  LET j == Decided(cf, at, k, c)
         IN  /\ j.timer[c] => cf.repeat
             /\ \A d \in Chan \ {c} : j.timer[d] = k.timer[d] /\ j.sw[d] = k.sw[d]
<1> DEFINE new == Decision(at, k, c)
           kept == IF cf.repeat THEN k ELSE Cancel(k, c)
           nxt == [kept EXCEPT !.sw[c] = new, !.save[c] = at.value[c]]
           again == Restart(cf, nxt, c)
           sent == cmdOnOff(again, c, new)
<1>1. new \in {ON, OFF}
  BY DecisionType
<1>2. kept \in Ctl
  BY TimerType
<1>3. kept.sw = k.sw /\ kept.timer = IF cf.repeat THEN k.timer ELSE [k.timer EXCEPT ![c] = FALSE]
  BY CancelEffect
<1>4. k.timer \in [Chan -> BOOLEAN] /\ k.sw \in [Chan -> Switch] /\ cf.repeat \in BOOLEAN
  BY DEF Ctl, Config
<1> HIDE DEF kept, new
<1>5. nxt \in Ctl /\ nxt.timer = kept.timer /\ nxt.sw = [kept.sw EXCEPT ![c] = new]
  BY <1>1, <1>2 DEF Ctl, Attr, Switch
<1> HIDE DEF nxt
<1>6. again \in Ctl /\ again.timer = [nxt.timer EXCEPT ![c] = cf.repeat] /\ again.sw = nxt.sw
  <2>1. Restart(cf, nxt, c) \in Ctl
    BY <1>5, TimerType
  <2> QED BY <1>5, <2>1, RestartEffect
<1> HIDE DEF again
<1>7. sent.timer = again.timer /\ sent.sw = again.sw
  BY <1>6, CmdKeeps
<1>8. Decided(cf, at, k, c) = IF new = k.sw[c] THEN kept ELSE IF oneDevice THEN nxt ELSE sent
  BY DEF Decided, new, kept, nxt, again, sent
<1> HIDE DEF sent
<1> QED
  BY <1>3, <1>4, <1>5, <1>6, <1>7, <1>8

\* proc_temp_onoff and proc_hum_onoff justify their own channel's timer and
\* decision and leave the other channel alone.
LEMMA ChannelEffect ==
  ASSUME NEW cf \in Config, NEW at \in Attr, NEW k \in Ctl, NEW c \in Chan, joined
  PROVE  LET j == proc_temp_onoff(cf, at, k, c)
         IN  /\ j.timer[c] => cf.enabled[c] /\ cf.repeat
             /\ ~oneDevice /\ j.sw[c] # IDLE => cf.enabled[c]
             /\ \A d \in Chan \ {c} : j.timer[d] = k.timer[d] /\ j.sw[d] = k.sw[d]
<1>1. cf.enabled[c] \in BOOLEAN
  BY DEF Config
<1>2. CASE cf.enabled[c]
  BY <1>2, DecidedEffect DEF proc_temp_onoff
<1>3. CASE ~cf.enabled[c]
  BY <1>3, DisabledEffect DEF proc_temp_onoff
<1> QED
  BY <1>1, <1>2, <1>3

\* Both procedures, one after the other.
LEMMA BothProcsEffect ==
  ASSUME NEW cf \in Config, NEW at \in Attr, NEW k \in Ctl, joined
  PROVE  LET p == proc_hum_onoff(cf, at, proc_temp_onoff(cf, at, k, "temp"))
         IN  p \in Ctl /\ TimersFor(cf, p) /\ (~oneDevice => DecisionsFor(cf, p))
<1> DEFINE j == proc_temp_onoff(cf, at, k, "temp")
           p == proc_temp_onoff(cf, at, j, "hum")
<1>0. Chan = {"temp", "hum"} /\ "temp" # "hum"
  BY DEF Chan
<1>1. j \in Ctl /\ p \in Ctl
  BY <1>0, ProcChannelType
<1>2. /\ j.timer["temp"] => cf.enabled["temp"] /\ cf.repeat
      /\ ~oneDevice /\ j.sw["temp"] # IDLE => cf.enabled["temp"]
  BY <1>0, ChannelEffect
<1> HIDE DEF j
<1>3. /\ p.timer["hum"] => cf.enabled["hum"] /\ cf.repeat
      /\ ~oneDevice /\ p.sw["hum"] # IDLE => cf.enabled["hum"]
      /\ p.timer["temp"] = j.timer["temp"] /\ p.sw["temp"] = j.sw["temp"]
  BY <1>0, <1>1, ChannelEffect
<1> HIDE DEF p
<1>4. TimersFor(cf, p) /\ (~oneDevice => DecisionsFor(cf, p))
  BY <1>0, <1>2, <1>3 DEF TimersFor, DecisionsFor
<1> QED
  BY <1>1, <1>4 DEF p, j, proc_hum_onoff

\* The cases of procTempHumOnOff leave justified timers and decisions.
LEMMA NoneEnabledEffect ==
  ASSUME NEW k \in Ctl
  PROVE  Quiet(NoneEnabled(k))
<1> DEFINE half == Cancel(k, "temp")
           stopped == Cancel(half, "hum")
           released == IF \E c \in Chan : k.sw[c] = ON
                       THEN cmdOnOff(stopped, "temp", OFF) ELSE stopped
<1>0. Chan = {"temp", "hum"} /\ "temp" # "hum" /\ k.timer \in [Chan -> BOOLEAN]
  BY DEF Chan, Ctl
<1>1. half \in Ctl /\ half.timer = [k.timer EXCEPT !["temp"] = FALSE]
  BY <1>0, CancelEffect DEF Cancel, Ctl
<1> HIDE DEF half
<1>2. stopped \in Ctl /\ stopped.timer = [half.timer EXCEPT !["hum"] = FALSE]
  BY <1>0, <1>1, CancelEffect DEF Cancel, Ctl
<1> HIDE DEF stopped
<1>3. released \in Ctl /\ released.timer = stopped.timer
  BY <1>0, <1>2, CmdKeeps, CmdType
<1> HIDE DEF released
<1>4. LET j == [released EXCEPT !.sw = [c \in Chan |-> IDLE], !.common = [c \in Chan |-> IDLE]]
      IN  j.timer = released.timer /\ j.sw = [c \in Chan |-> IDLE]
  BY <1>3 DEF Ctl
<1>5. NoneEnabled(k) = [released EXCEPT !.sw = [c \in Chan |-> IDLE],
                                        !.common = [c \in Chan |-> IDLE]]
  BY DEF NoneEnabled, released, stopped, half
<1>6. \A c \in Chan : ~released.timer[c]
  BY <1>0, <1>1, <1>2, <1>3
<1> QED
  BY <1>4, <1>5, <1>6 DEF Quiet

\* With one enabled channel the other's timer is stopped and its decision
\* forgotten, and a timer runs only if commands are repeated.
LEMMA OneEnabledEffect ==
  ASSUME NEW cf \in Config, NEW k \in Ctl, NEW c \in Chan, cf.enabled[c], TimersFor(cf, k)
  PROVE  TimersFor(cf, OneEnabled(cf, k, c)) /\ DecisionsFor(cf, OneEnabled(cf, k, c))
<1> DEFINE o == Other(c)
           stopped == Cancel(k, o)
           released == IF k.sw[o] = ON /\ k.sw[c] = OFF
                       THEN cmdOnOff(stopped, o, OFF) ELSE stopped
           alone == [released EXCEPT !.sw[o] = IDLE, !.common[o] = IDLE]
           sent == [cmdOnOff(alone, c, k.sw[c]) EXCEPT !.common[c] = k.sw[c]]
           told == IF k.sw[c] \in {ON, OFF} /\ k.common[c] # k.sw[c]
                   THEN Cancel(sent, c) ELSE alone
<1>0. o \in Chan /\ o # c /\ \A d \in Chan : d = c \/ d = o
  BY DEF Other, Chan
<1>1. k.timer \in [Chan -> BOOLEAN] /\ k.sw \in [Chan -> Switch] /\ cf.repeat \in BOOLEAN
  BY DEF Ctl, Config
<1> HIDE DEF o
<1>2. /\ stopped \in Ctl
      /\ stopped.timer = [k.timer EXCEPT ![o] = FALSE]
      /\ stopped.sw = k.sw
  BY <1>0, CancelEffect DEF Cancel, Ctl
<1> HIDE DEF stopped
<1>3. released \in Ctl /\ released.timer = stopped.timer /\ released.sw = stopped.sw
  BY <1>0, <1>2, CmdKeeps, CmdType
<1> HIDE DEF released
<1>4. /\ alone \in Ctl
      /\ alone.timer = released.timer
      /\ alone.sw = [released.sw EXCEPT ![o] = IDLE]
  BY <1>0, <1>3 DEF Ctl, Switch
<1> HIDE DEF alone
<1>5. ASSUME k.sw[c] \in {ON, OFF}
      PROVE  sent \in Ctl /\ sent.timer = alone.timer /\ sent.sw = alone.sw
  <2>1. /\ cmdOnOff(alone, c, k.sw[c]) \in Ctl
        /\ cmdOnOff(alone, c, k.sw[c]).timer = alone.timer
        /\ cmdOnOff(alone, c, k.sw[c]).sw = alone.sw
    BY <1>4, <1>5, CmdKeeps, CmdType
  <2>2. \A j \in Ctl : LET i == [j EXCEPT !.common[c] = k.sw[c]]
                      IN  i \in Ctl /\ i.timer = j.timer /\ i.sw = j.sw
    BY <1>5 DEF Ctl, Switch
  <2> QED
    BY <2>1, <2>2
<1> HIDE DEF sent
<1>6. /\ told \in Ctl /\ told.sw = alone.sw
      /\ told.timer = alone.timer \/ told.timer = [alone.timer EXCEPT ![c] = FALSE]
  <2>1. CASE k.sw[c] \in {ON, OFF} /\ k.common[c] # k.sw[c]
    <3>1. /\ Cancel(sent, c) \in Ctl /\ Cancel(sent, c).sw = sent.sw
          /\ Cancel(sent, c).timer = [sent.timer EXCEPT ![c] = FALSE]
      BY <1>5, <2>1, CancelEffect, TimerType
    <3> QED
      BY <1>5, <2>1, <3>1
  <2>2. CASE ~(k.sw[c] \in {ON, OFF} /\ k.common[c] # k.sw[c])
    BY <1>4, <2>2
  <2> QED
    BY <2>1, <2>2
<1>7. OneEnabled(cf, k, c) = IF told.timer[c] THEN told ELSE Restart(cf, told, c)
  BY DEF OneEnabled, told, sent, alone, released, stopped, o
<1> HIDE DEF told
<1>8. /\ Restart(cf, told, c).timer = [told.timer EXCEPT ![c] = cf.repeat]
      /\ Restart(cf, told, c).sw = told.sw
  BY <1>6, RestartEffect
<1>9. told.timer[o] = FALSE /\ told.sw[o] = IDLE /\ told.timer \in [Chan -> BOOLEAN]
  <2>1. alone.timer[o] = FALSE /\ alone.sw[o] = IDLE /\ alone.timer \in [Chan -> BOOLEAN]
    BY <1>0, <1>1, <1>2, <1>3, <1>4
  <2> QED
    BY <1>0, <1>6, <2>1
<1>10. told.timer[c] => cf.repeat
  <2>1. alone.timer = [k.timer EXCEPT ![o] = FALSE]
    BY <1>2, <1>3, <1>4
  <2>2. alone.timer[c] = k.timer[c] /\ alone.timer \in [Chan -> BOOLEAN]
    BY <1>0, <1>1, <2>1
  <2> QED
    BY <1>6, <2>2 DEF TimersFor
<1>11. /\ OneEnabled(cf, k, c).timer[o] = FALSE
       /\ OneEnabled(cf, k, c).sw[o] = IDLE
       /\ OneEnabled(cf, k, c).timer[c] => cf.repeat
  BY <1>0, <1>7, <1>8, <1>9, <1>10
<1> QED
  BY <1>0, <1>11 DEF TimersFor, DecisionsFor

\* A turn On or Off touches no decision, and starts a timer only if commands
\* are repeated.
LEMMA EdgeEffect ==
  ASSUME NEW cf \in Config, NEW k \in Ctl, NEW c \in Chan,
         \A d \in Chan : cf.enabled[d], TimersFor(cf, k)
  PROVE  /\ OnEdge(cf, k, c) \in Ctl /\ TimersFor(cf, OnEdge(cf, k, c))
         /\ OffEdge(cf, k, c) \in Ctl /\ TimersFor(cf, OffEdge(cf, k, c))
<1>0. Other(c) \in Chan /\ cf.repeat \in BOOLEAN
  BY OtherType DEF Config
<1>1. ASSUME NEW j \in Ctl, TimersFor(cf, j) PROVE TimersFor(cf, TakeOver(cf, j, c))
  <2> DEFINE a == Cancel(j, Other(c))
             b == Cancel(a, c)
  <2>1. a \in Ctl /\ a.timer = [j.timer EXCEPT ![Other(c)] = FALSE]
    BY <1>0, CancelEffect, TimerType
  <2> HIDE DEF a
  <2>2. b \in Ctl /\ b.timer = [a.timer EXCEPT ![c] = FALSE]
    BY <2>1, CancelEffect, TimerType
  <2> HIDE DEF b
  <2>3. Restart(cf, b, c).timer = [b.timer EXCEPT ![c] = cf.repeat]
    BY <2>2, RestartEffect
  <2>4. j.timer \in [Chan -> BOOLEAN]
    BY DEF Ctl
  <2>5. \A d \in Chan : Restart(cf, b, c).timer[d] => cf.repeat
    BY <1>0, <1>1, <2>1, <2>2, <2>3, <2>4 DEF TimersFor
  <2> QED
    BY <2>5 DEF TakeOver, TimersFor, a, b
<1>2. ASSUME NEW j \in Ctl, TimersFor(cf, j), NEW cmd \in {ON, OFF}
      PROVE  /\ cmdOnOff(j, c, cmd) \in Ctl
             /\ TimersFor(cf, cmdOnOff(j, c, cmd))
             /\ [j EXCEPT !.common[c] = cmd] \in Ctl
             /\ TimersFor(cf, [j EXCEPT !.common[c] = cmd])
  <2>1. cmdOnOff(j, c, cmd) \in Ctl /\ cmdOnOff(j, c, cmd).timer = j.timer
    BY CmdKeeps, CmdType
  <2>2. [j EXCEPT !.common[c] = cmd] \in Ctl /\ [j EXCEPT !.common[c] = cmd].timer = j.timer
    BY DEF Ctl, Switch
  <2> QED
    BY <1>2, <2>1, <2>2 DEF TimersFor
<1>3. TimersFor(cf, TakeOver(cf, [cmdOnOff(k, c, ON) EXCEPT !.common[c] = ON], c))
  BY <1>1, <1>2
<1>4. /\ TimersFor(cf, [k EXCEPT !.common[c] = OFF])
      /\ TimersFor(cf, TakeOver(cf, cmdOnOff([k EXCEPT !.common[c] = OFF], c, OFF), c))
  BY <1>1, <1>2
<1> QED
  BY <1>3, <1>4, EdgeType DEF OnEdge, OffEdge

\* The control leaves only timers and decisions of enabled channels, whatever
\* it started from: a changed configuration needs no other clean-up.
LEMMA ProcJustified ==
  ASSUME NEW cf \in Config, NEW at \in Attr, NEW k \in Ctl,
         joined, ~bindIdle, oneDevice \in BOOLEAN
  PROVE  LET j == proc_temp_hum_onoff(cf, at, k)
         IN  TimersFor(cf, j) /\ DecisionsFor(cf, j)
<1> DEFINE p == proc_hum_onoff(cf, at, proc_temp_onoff(cf, at, k, "temp"))
<1>0. Chan = {"temp", "hum"} /\ cf.enabled \in [Chan -> BOOLEAN]
  BY DEF Chan, Config
<1>1. p \in Ctl /\ TimersFor(cf, p) /\ (~oneDevice => DecisionsFor(cf, p))
  BY BothProcsEffect
<1>2. CASE ~oneDevice
  BY <1>1, <1>2 DEF proc_temp_hum_onoff
<1>3. CASE oneDevice
  <2>1. proc_temp_hum_onoff(cf, at, k) = procTempHumOnOff(cf, at, k)
    BY <1>3 DEF proc_temp_hum_onoff
  <2> HIDE DEF p
  <2>2. CASE ~cf.enabled["temp"] /\ ~cf.enabled["hum"]
    <3>1. procTempHumOnOff(cf, at, k) = NoneEnabled(p)
      BY <2>2 DEF procTempHumOnOff, p
    <3> QED
      BY <1>1, <2>1, <3>1, NoneEnabledEffect DEF Quiet, TimersFor, DecisionsFor
  <2>3. CASE ~cf.enabled["temp"] /\ cf.enabled["hum"]
    <3>1. procTempHumOnOff(cf, at, k) = OneEnabled(cf, p, "hum")
      BY <2>3 DEF procTempHumOnOff, p
    <3> QED
      BY <1>0, <1>1, <2>1, <2>3, <3>1, OneEnabledEffect
  <2>4. CASE cf.enabled["temp"] /\ ~cf.enabled["hum"]
    <3>1. procTempHumOnOff(cf, at, k) = OneEnabled(cf, p, "temp")
      BY <2>4 DEF procTempHumOnOff, p
    <3> QED
      BY <1>0, <1>1, <2>1, <2>4, <3>1, OneEnabledEffect
  <2>5. CASE cf.enabled["temp"] /\ cf.enabled["hum"]
    <3>1. procTempHumOnOff(cf, at, k) = BothEnabled(cf, p)
      BY <2>5 DEF procTempHumOnOff, p
    <3>2. \A d \in Chan : cf.enabled[d]
      BY <1>0, <2>5
    <3>3. TimersFor(cf, BothEnabled(cf, p))
      <4>1. /\ OnEdge(cf, p, "temp") \in Ctl
            /\ TimersFor(cf, OnEdge(cf, p, "temp"))
        BY <1>0, <1>1, <3>2, EdgeEffect
      <4>2. /\ OnEdge(cf, OnEdge(cf, p, "temp"), "hum") \in Ctl
            /\ TimersFor(cf, OnEdge(cf, OnEdge(cf, p, "temp"), "hum"))
        BY <1>0, <3>2, <4>1, EdgeEffect
      <4>3. \A j \in Ctl : TimersFor(cf, j) =>
              /\ OffEdge(cf, j, "temp") \in Ctl /\ TimersFor(cf, OffEdge(cf, j, "temp"))
              /\ OffEdge(cf, j, "hum") \in Ctl /\ TimersFor(cf, OffEdge(cf, j, "hum"))
        BY <1>0, <3>2, EdgeEffect
      <4> QED
        BY <4>2, <4>3 DEF BothEnabled
    <3> QED
      BY <2>1, <3>1, <3>2, <3>3 DEF DecisionsFor
  <2> QED
    BY <1>0, <2>2, <2>3, <2>4, <2>5
<1> QED
  BY <1>2, <1>3

Justified(w) ==
  /\ w \in Writable
  /\ TimersFor(w.config, w.ctl)
  /\ DecisionsFor(w.config, w.ctl)
  /\ bindIdle => Quiet(w.ctl)

\* A written record keeps timers and decisions justified: with a binding view
\* the control is run on the new configuration, without one there are none.
LEMMA HandleRecordJustified ==
  ASSUME NEW w, Justified(w), joined, bindIdle \in BOOLEAN, oneDevice \in BOOLEAN,
         NEW c \in Chan, NEW r \in Records(c)
  PROVE  Justified(HandleRecord(w, c, r))
<1> DEFINE v == Prepared(w, c, r)
<1>1. v \in Writable /\ v.config \in Config /\ v.attr \in Attr /\ v.ctl \in Ctl
  BY PreparedType DEF Justified, Writable
<1>2. HandleRecord(w, c, r) = Process(v)
  BY HandlePrepared
<1>3. w.ctl \in Ctl
  BY DEF Justified, Writable
<1>4. Process(v) \in Writable
  BY <1>1, ProcessType
<1>5. /\ Process(v).config = v.config
      /\ Process(v).ctl = proc_temp_hum_onoff(v.config, v.attr, v.ctl)
  BY <1>1 DEF Process, Writable
<1>6. CASE ~bindIdle
  <2>1. /\ TimersFor(v.config, Process(v).ctl)
        /\ DecisionsFor(v.config, Process(v).ctl)
    BY <1>1, <1>5, <1>6, ProcJustified
  <2> QED
    BY <1>2, <1>4, <1>5, <1>6, <2>1 DEF Justified
<1>7. CASE bindIdle
  <2>1. Quiet(w.ctl)
    BY <1>7 DEF Justified
  <2>2. \A d \in Chan : Quiet(reset_control(w.ctl, d))
    BY <1>3, <2>1 DEF Quiet, reset_control, Ctl, Switch
  <2>3. \A j \in Ctl, d \in Chan : Quiet(j) => Quiet(Cancel(j, d)) /\ Quiet(reset_control(j, d))
    BY DEF Quiet, reset_control, Cancel, Ctl, Switch
  <2>4. \A j \in Ctl, d \in Chan : Cancel(j, d) \in Ctl /\ reset_control(j, d) \in Ctl
    BY <1>1, TimerType
  <2>5. Quiet(repeat_timer_stop(w.ctl))
    BY <1>3, <2>1, <2>3, <2>4 DEF repeat_timer_stop, Chan
  <2>6. \/ v.ctl = w.ctl
        \/ v.ctl = reset_control(w.ctl, c)
        \/ v.ctl = repeat_timer_stop(w.ctl)
    <3>1. CASE r.field = "onoff"
      BY <3>1 DEF Prepared, Justified, Writable
    <3>2. CASE r.field = "low" /\ r.value \in Int
      <4>1. ChangeLow(w, c, r.value) \in Writable /\ ChangeLow(w, c, r.value).ctl = w.ctl
        BY <3>2, ChangeType DEF ChangeLow, Justified, Writable
      <4> QED
        BY <3>2, <4>1 DEF Prepared, Writable
    <3>3. CASE r.field = "high" /\ r.value \in Int
      <4>1. ChangeHigh(w, c, r.value) \in Writable /\ ChangeHigh(w, c, r.value).ctl = w.ctl
        BY <3>3, ChangeType DEF ChangeHigh, Justified, Writable
      <4> QED
        BY <3>3, <4>1 DEF Prepared, Writable
    <3>4. CASE r.field = "repeat"
      BY <3>4 DEF Prepared, Justified, Writable
    <3> QED
      BY <3>1, <3>2, <3>3, <3>4, RecordsType DEF Threshold
  <2>7. Quiet(v.ctl)
    BY <2>1, <2>2, <2>5, <2>6
  <2>8. Process(v).ctl = v.ctl
    BY <1>5, <1>7 DEF proc_temp_hum_onoff
  <2> QED
    BY <1>2, <1>4, <2>7, <2>8 DEF Justified, Quiet, TimersFor, DecisionsFor
<1> QED
  BY <1>6, <1>7

\* Nothing runs and nothing is decided at the start.
LEMMA JustifiedInit == Init => JustifiedInv
<1> SUFFICES ASSUME Init PROVE JustifiedInv
  OBVIOUS
<1>1. Quiet(ctl)
  BY DEF Init, Initial, Quiet
<1> QED
  BY <1>1, TypeInit DEF JustifiedInv, Quiet, TimersFor, DecisionsFor

\* Every action preserves the strengthened invariant.
LEMMA JustifiedStep == JustifiedInv /\ [Next]_vars => JustifiedInv'
<1> SUFFICES ASSUME JustifiedInv, [Next]_vars PROVE JustifiedInv'
  OBVIOUS
<1>0. TypeOK /\ TypeOK'
  BY TypeStep DEF JustifiedInv
<1> DEFINE Goal == /\ TimersFor(config', ctl')
                   /\ DecisionsFor(config', ctl')
                   /\ bindIdle' => Quiet(ctl')
<1> SUFFICES Goal
  BY <1>0 DEF JustifiedInv, TimersFor, DecisionsFor, Quiet
<1> USE DEF JustifiedInv
<1>1. ASSUME NEW value, Measure(value) PROVE Goal
  <2>1. /\ config' = config /\ bindIdle' = bindIdle
        /\ ctl' = proc_temp_hum_onoff(config, attr', ctl)
        /\ config \in Config /\ attr' \in Attr /\ ctl \in Ctl
    BY <1>0, <1>1 DEF Measure, TypeOK
  <2>2. CASE bindIdle
    BY <2>1, <2>2 DEF proc_temp_hum_onoff
  <2>3. CASE ~bindIdle /\ ~joined
    BY <2>1, <2>3 DEF proc_temp_hum_onoff, procTempHumOnOff, proc_hum_onoff, proc_temp_onoff
  <2>4. CASE ~bindIdle /\ joined
    BY <1>0, <2>1, <2>4, ProcJustified DEF TypeOK
  <2> QED
    BY <1>0, <2>2, <2>3, <2>4 DEF TypeOK
<1>2. ASSUME NEW c \in Chan, NEW r \in Records(c), app_zclWriteReqCmd(c, r) PROVE Goal
  <2> DEFINE w == [config |-> config, attr |-> Store(attr, c, r), ctl |-> ctl]
  <2>1. Justified(w)
    BY <1>0, StoreType DEF Justified, Writable, TypeOK
  <2>2. Justified(HandleRecord(w, c, r))
    BY <1>0, <1>2, <2>1, HandleRecordJustified DEF app_zclWriteReqCmd, TypeOK
  <2> QED
    BY <1>2, <2>2 DEF app_zclWriteReqCmd, Become, Justified
<1>3. ASSUME NEW c \in Chan, NEW r1 \in Records(c), NEW r2 \in Records(c),
             WriteTwoRecords(c, r1, r2)
      PROVE  Goal
  <2> DEFINE w == [config |-> config, ctl |-> ctl,
                   attr |-> Store(Store(attr, c, r1), c, r2)]
  <2>1. Justified(w)
    BY <1>0, StoreType DEF Justified, Writable, TypeOK
  <2>2. Justified(HandleRecord(w, c, r1))
    BY <1>0, <1>3, <2>1, HandleRecordJustified DEF WriteTwoRecords, TypeOK
  <2>3. Justified(HandleRecord(HandleRecord(w, c, r1), c, r2))
    BY <1>0, <1>3, <2>2, HandleRecordJustified DEF WriteTwoRecords, TypeOK
  <2> QED
    BY <1>3, <2>3 DEF WriteTwoRecords, Become, Justified
<1>4. ASSUME NEW c \in Chan, NEW a \in Actions[c], WriteSwitchAction(c, a) PROVE Goal
  <2>1. ctl'.timer = ctl.timer /\ \A d \in Chan : ctl'.sw[d] = IDLE
    BY <1>0, <1>4 DEF WriteSwitchAction, reset_control, TypeOK, Ctl, Chan
  <2> QED
    BY <1>4, <2>1 DEF WriteSwitchAction, TimersFor, DecisionsFor, Quiet
<1>5. ASSUME NEW c \in Chan, cmd_repeatCb(c) PROVE Goal
  <2>1. \A cmd : Resend(ctl, c, cmd).timer = ctl.timer /\ Resend(ctl, c, cmd).sw = ctl.sw
    BY <1>0 DEF Resend, TypeOK, Ctl
  <2>2. Cancel(ctl, c).timer = [ctl.timer EXCEPT ![c] = FALSE] /\ Cancel(ctl, c).sw = ctl.sw
    BY <1>0, CancelEffect DEF TypeOK
  <2>3. \/ ctl' = ctl
        \/ ctl' = Cancel(ctl, c)
        \/ \E cmd \in {ON, OFF} : ctl' = Resend(ctl, c, cmd)
    BY <1>0, <1>5 DEF cmd_repeatCb, TypeOK, Config
  <2>4. ctl'.sw = ctl.sw /\ (ctl'.timer = ctl.timer \/ ctl'.timer = [ctl.timer EXCEPT ![c] = FALSE])
    BY <2>1, <2>2, <2>3
  <2>5. ctl.timer \in [Chan -> BOOLEAN]
    BY <1>0 DEF TypeOK, Ctl
  <2>6. \A d \in Chan : ctl'.timer[d] => ctl.timer[d]
    BY <2>4, <2>5
  <2> QED
    BY <1>5, <2>4, <2>6 DEF cmd_repeatCb, TimersFor, DecisionsFor, Quiet
<1>6. ASSUME NEW one \in InitialViews, app_update_bind_tbl(one) PROVE Goal
  <2>1. ctl'.timer = ctl.timer /\ ctl'.sw = ctl.sw
    BY <1>0, <1>6 DEF app_update_bind_tbl, TypeOK, Ctl
  <2> QED
    BY <1>6, <2>1 DEF app_update_bind_tbl, TimersFor, DecisionsFor
<1>7. CASE Join
  BY <1>7 DEF Join
<1>8. CASE Leave
  BY <1>8 DEF Leave
<1>9. ASSUME NEW value, Reboot(value) PROVE Goal
  <2>1. Quiet(ctl')
    BY <1>9 DEF Reboot, Initial, Quiet
  <2> QED
    BY <2>1 DEF Quiet, TimersFor, DecisionsFor
<1>10. ASSUME NEW c \in Chan, NEW v \in Measured, WriteOffset(c, v) PROVE Goal
  BY <1>10 DEF WriteOffset
<1>11. CASE UNCHANGED vars
  BY <1>11 DEF vars
<1>12. ASSUME NEW c, NEW r, WriteUnchecked(c, r) PROVE Goal
  BY <1>12 DEF WriteUnchecked
<1>13. ASSUME NEW c, NEW a, WriteActionUnchecked(c, a) PROVE Goal
  BY <1>13 DEF WriteActionUnchecked
<1> QED
  BY <1>1, <1>2, <1>3, <1>4, <1>5, <1>6, <1>7, <1>8, <1>9, <1>10, <1>11, <1>12, <1>13
  DEF Next, Measuring

\* The strengthened invariant holds in every reachable state.
LEMMA JustifiedAlways == Spec => []JustifiedInv
BY JustifiedInit, JustifiedStep, PTL DEF Spec

\* A repeat timer runs only for an enabled channel while the repetition is
\* enabled (app_on_off.c:250, 266, 493-500, 707).
THEOREM TimersAreJustified == Spec => []TimerJustified
<1>1. JustifiedInv => TimerJustified
  BY DEF JustifiedInv, TimersFor, TimerJustified
<1> QED
  BY <1>1, JustifiedAlways, PTL

\* A decision is held only for an enabled channel, and only with a binding
\* view (app_on_off.c:255, 505-520, 654).
THEOREM DecisionsAreJustified == Spec => []LatchJustified
<1>1. JustifiedInv => LatchJustified
  BY DEF JustifiedInv, TypeOK, DecisionsFor, Quiet, LatchJustified
<1> QED
  BY <1>1, JustifiedAlways, PTL

-----------------------------------------------------------------------------
(***************************************************************************)
(* What the devices have been told, while the bindings stay.               *)
(***************************************************************************)

\* With a device of its own a channel's decision has been sent, and is repeated.
Apart(cf, k) ==
  \A c \in Chan :
    k.sw[c] # IDLE => /\ k.decided[c] = k.sw[c] /\ k.relay[c] = k.sw[c]
                      /\ cf.repeat => k.timer[c]

\* With one device: a channel wants it On; all that have a say have decided Off.
SomeOn(k)     == \E c \in Chan : k.common[c] = ON
AllOff(cf, k) == /\ \E c \in Chan : k.common[c] = OFF
                 /\ \A c \in Chan : \/ k.common[c] = OFF
                                    \/ k.common[c] = IDLE /\ ~cf.enabled[c]

\* It has been told so, and one timer repeats it.
Told(cf, k) ==
  /\ SomeOn(k) => \A c \in Chan : k.decided[c] = ON
  /\ AllOff(cf, k) => \A c \in Chan : k.decided[c] = OFF
  /\ cf.repeat /\ (SomeOn(k) \/ AllOff(cf, k)) => \E c \in Chan : k.timer[c]
  /\ ~(k.timer["temp"] /\ k.timer["hum"])

Together(cf, k) == k.common = k.sw /\ Told(cf, k)

\* The channels decide together.
AllDecided(cf, k) ==
  (\E c \in Chan : k.sw[c] # IDLE) => \A c \in Chan : cf.enabled[c] => k.sw[c] # IDLE

Sent(cf, k) == IF oneDevice THEN Together(cf, k) /\ AllDecided(cf, k) ELSE Apart(cf, k)

\* Nothing has been decided for a common device.
Fresh(k) == \A c \in Chan : k.common[c] = IDLE

\* The invariant, while the bindings stay.
SentInv ==
  /\ JustifiedInv
  /\ Sent(config, ctl)
  /\ bindIdle => Fresh(ctl)

-----------------------------------------------------------------------------
(***************************************************************************)
(* What the operators return, field by field.                              *)
(***************************************************************************)

\* The state of the control is the record of its fields.
LEMMA Whole ==
  ASSUME NEW k \in Ctl
  PROVE  k = [sw |-> k.sw, common |-> k.common, timer |-> k.timer,
              save |-> k.save, decided |-> k.decided, relay |-> k.relay]
BY DEF Ctl

\* The fields of the control's state.
LEMMA Fields ==
  ASSUME NEW k \in Ctl
  PROVE  /\ k.sw \in [Chan -> Switch] /\ k.common \in [Chan -> Switch]
         /\ k.timer \in [Chan -> BOOLEAN] /\ k.save \in [Chan -> Int]
         /\ k.decided \in [Chan -> Command] /\ k.relay \in [Chan -> Command]
BY DEF Ctl

\* The channels.
LEMMA Channels ==
  /\ Chan = {"temp", "hum"} /\ "temp" # "hum"
  /\ Other("temp") = "hum" /\ Other("hum") = "temp"
  /\ \A c \in Chan : /\ Other(c) \in Chan /\ Other(c) # c /\ Other(Other(c)) = c
                     /\ \A d \in Chan : d = c \/ d = Other(c)
BY DEF Chan, Other

\* A command changes what the devices it reaches were told.
LEMMA CmdIs ==
  ASSUME NEW k \in Ctl, NEW c \in Chan, NEW cmd \in {ON, OFF}
  PROVE  LET j == cmdOnOff(k, c, cmd)
         IN  /\ j \in Ctl
             /\ j.sw = k.sw /\ j.common = k.common /\ j.timer = k.timer /\ j.save = k.save
             /\ j.decided[c] = cmd /\ j.relay[c] = cmd
             /\ oneDevice => \A d \in Chan : j.decided[d] = cmd
             /\ ~oneDevice => \A d \in Chan : d # c => /\ j.decided[d] = k.decided[d]
                                                      /\ j.relay[d] = k.relay[d]
<1>1. LET j == cmdOnOff(k, c, cmd)
      IN  /\ j.sw = k.sw /\ j.common = k.common /\ j.timer = k.timer /\ j.save = k.save
          /\ j.decided = [d \in Chan |-> IF d \in Reached(c) THEN cmd ELSE k.decided[d]]
          /\ j.relay = [d \in Chan |-> IF d \in Reached(c) THEN cmd ELSE k.relay[d]]
  BY DEF cmdOnOff, Ctl
<1>2. CASE oneDevice
  <2>1. Reached(c) = Chan
    BY <1>2, Zenon DEF Reached
  <2> QED BY <1>1, <1>2, <2>1, CmdType
<1>3. CASE ~oneDevice
  <2>1. Reached(c) = {c}
    BY <1>3, Zenon DEF Reached
  <2> QED BY <1>1, <1>3, <2>1, CmdType
<1> QED BY <1>2, <1>3

\* The other channel's device gets none of it.
LEMMA CmdApart ==
  ASSUME NEW k \in Ctl, NEW c \in Chan, NEW cmd \in {ON, OFF}, ~oneDevice
  PROVE  \A d \in Chan : d # c => /\ cmdOnOff(k, c, cmd).decided[d] = k.decided[d]
                                  /\ cmdOnOff(k, c, cmd).relay[d] = k.relay[d]
BY CmdIs

\* What all devices were told; with one device, what it was told.
AllTold(k, cmd) == \A c \in Chan : k.decided[c] = cmd

\* With one device a command tells both endpoints the same.
LEMMA CmdOne ==
  ASSUME NEW k \in Ctl, NEW c \in Chan, NEW cmd \in {ON, OFF}, oneDevice
  PROVE  AllTold(cmdOnOff(k, c, cmd), cmd)
<1>1. Reached(c) = Chan
  BY Zenon DEF Reached
<1>2. cmdOnOff(k, c, cmd).decided = [d \in Chan |-> IF d \in Reached(c) THEN cmd ELSE k.decided[d]]
  BY DEF cmdOnOff, Ctl
<1> QED BY <1>1, <1>2 DEF AllTold

\* Two states of the control that differ in what was sent, or in the timers.
SameSent(j, k)   == j.decided = k.decided /\ j.relay = k.relay
SameChoice(j, k) == j.sw = k.sw /\ j.common = k.common /\ j.save = k.save

\* A timer is stopped.
LEMMA CancelIs ==
  ASSUME NEW k \in Ctl, NEW c \in Chan
  PROVE  LET j == Cancel(k, c)
         IN  /\ j \in Ctl /\ SameSent(j, k) /\ SameChoice(j, k)
             /\ ~j.timer[c] /\ \A d \in Chan : d # c => j.timer[d] = k.timer[d]
             /\ ~k.timer[c] => j = k
<1> DEFINE j == Cancel(k, c)
<1>1. j \in Ctl
  BY DEF Cancel, Ctl
<1>2. /\ j.sw = k.sw /\ j.common = k.common /\ j.timer = [k.timer EXCEPT ![c] = FALSE]
      /\ j.save = k.save /\ j.decided = k.decided /\ j.relay = k.relay
  BY DEF Cancel, Ctl
<1>3. ASSUME ~k.timer[c] PROVE j = k
  <2>1. [k.timer EXCEPT ![c] = FALSE] = k.timer
    BY <1>3, Fields
  <2> HIDE DEF j
  <2> QED BY <1>1, <1>2, <2>1, Whole
<1> QED BY <1>1, <1>2, <1>3, Fields DEF SameSent, SameChoice

\* A timer is started again.
LEMMA RestartIs ==
  ASSUME NEW cf \in Config, NEW k \in Ctl, NEW c \in Chan
  PROVE  LET j == Restart(cf, k, c)
         IN  /\ j \in Ctl /\ SameSent(j, k) /\ SameChoice(j, k)
             /\ j.timer[c] = cf.repeat /\ \A d \in Chan : d # c => j.timer[d] = k.timer[d]
             /\ ~k.timer[c] /\ ~cf.repeat => j = k
<1>1. Restart(cf, k, c) =
        [sw |-> k.sw, common |-> k.common, timer |-> [k.timer EXCEPT ![c] = cf.repeat],
         save |-> k.save, decided |-> k.decided, relay |-> k.relay]
  BY DEF Restart, Ctl
<1>2. Restart(cf, k, c) \in Ctl
  BY TimerType
<1>3. ASSUME ~k.timer[c], ~cf.repeat PROVE Restart(cf, k, c) = k
  <2>1. [k.timer EXCEPT ![c] = cf.repeat] = k.timer
    <3>1. cf.repeat \in BOOLEAN
      BY DEF Config
    <3> QED BY <1>3, <3>1, Fields
  <2> QED BY <1>1, <2>1, Whole
<1> QED BY <1>1, <1>2, <1>3, Fields DEF SameSent, SameChoice

\* A channel takes over the repetition.
LEMMA TakeOverIs ==
  ASSUME NEW cf \in Config, NEW k \in Ctl, NEW c \in Chan
  PROVE  LET j == TakeOver(cf, k, c)
         IN  /\ j \in Ctl /\ SameSent(j, k) /\ SameChoice(j, k)
             /\ j.timer[c] = cf.repeat /\ ~j.timer[Other(c)]
<1> DEFINE a == Cancel(k, Other(c))
           b == Cancel(a, c)
<1>1. a \in Ctl /\ SameSent(a, k) /\ SameChoice(a, k) /\ ~a.timer[Other(c)]
  BY CancelIs, Channels
<1> HIDE DEF a
<1>2. b \in Ctl /\ SameSent(b, a) /\ SameChoice(b, a) /\ b.timer[Other(c)] = a.timer[Other(c)]
  BY <1>1, CancelIs, Channels
<1> HIDE DEF b
<1>3. TakeOver(cf, k, c) = Restart(cf, b, c)
  BY DEF TakeOver, a, b
<1> QED BY <1>1, <1>2, <1>3, RestartIs, Channels DEF SameSent, SameChoice

\* What one channel's procedure does to it, and what it leaves alone.
Chosen(cf, at, k, c) ==
  IF cf.enabled[c] THEN Decision(at, k, c) ELSE IF oneDevice THEN k.sw[c] ELSE IDLE

Alone(j, k, c) ==
  j.timer[c] = k.timer[c] /\ j.decided[c] = k.decided[c] /\ j.relay[c] = k.relay[c]

\* On one device nothing is sent yet, and no timer is started.
DoneOne(cf, j, k, c) ==
  /\ SameSent(j, k)
  /\ cf.enabled[c] /\ cf.repeat => j.timer[c] = k.timer[c]
  /\ ~cf.enabled[c] \/ ~cf.repeat => j.timer[c] = FALSE

\* On its own device a channel that changes its mind says so.
DoneApart(cf, j, k, c) ==
  /\ cf.enabled[c] /\ j.sw[c] = k.sw[c] =>
       /\ j.decided[c] = k.decided[c] /\ j.relay[c] = k.relay[c]
       /\ cf.repeat => j.timer[c] = k.timer[c]
  /\ cf.enabled[c] /\ j.sw[c] # k.sw[c] =>
       j.decided[c] = j.sw[c] /\ j.relay[c] = j.sw[c] /\ j.timer[c] = cf.repeat
  /\ ~cf.enabled[c] /\ k.sw[c] = ON => j.decided[c] = OFF /\ j.relay[c] = OFF
  /\ ~cf.enabled[c] /\ k.sw[c] # ON => j.decided[c] = k.decided[c] /\ j.relay[c] = k.relay[c]

\* An enabled channel ...
LEMMA DecidedIs ==
  ASSUME NEW cf \in Config, NEW at \in Attr, NEW k \in Ctl, NEW c \in Chan, cf.enabled[c]
  PROVE  LET j == Decided(cf, at, k, c)
         IN  /\ j \in Ctl /\ j.common = k.common
             /\ j.sw = [k.sw EXCEPT ![c] = Decision(at, k, c)]
             /\ \A d \in Chan : d # c => Alone(j, k, d)
             /\ oneDevice => DoneOne(cf, j, k, c)
             /\ ~oneDevice => DoneApart(cf, j, k, c)
<1> DEFINE j == Decided(cf, at, k, c)
           new == Decision(at, k, c)
           kept == IF cf.repeat THEN k ELSE Cancel(k, c)
           nxt == [kept EXCEPT !.sw[c] = new, !.save[c] = at.value[c]]
           again == Restart(cf, nxt, c)
           sent == cmdOnOff(again, c, new)
<1>0. cf.repeat \in BOOLEAN /\ at.value[c] \in Int /\ k.sw \in [Chan -> Switch]
  BY Fields DEF Config, Attr
<1>1. j = IF new = k.sw[c] THEN kept ELSE IF oneDevice THEN nxt ELSE sent
  BY DEF Decided
<1>2. new \in {ON, OFF} /\ new \in Switch
  BY DecisionType DEF Switch
<1>3. /\ kept \in Ctl /\ SameSent(kept, k) /\ SameChoice(kept, k)
      /\ \A d \in Chan : d # c => kept.timer[d] = k.timer[d]
      /\ cf.repeat => kept.timer[c] = k.timer[c]
      /\ ~cf.repeat => kept.timer[c] = FALSE
  <2>1. CASE cf.repeat
    BY <2>1 DEF SameSent, SameChoice
  <2>2. CASE ~cf.repeat
    <3>1. kept = Cancel(k, c)
      BY <2>2
    <3> HIDE DEF kept
    <3>2. kept \in Ctl /\ ~kept.timer[c]
      BY <3>1, CancelIs
    <3>3. kept.timer[c] = FALSE
      BY <3>2, Fields
    <3> QED BY <2>2, <3>1, <3>2, <3>3, CancelIs
  <2> QED BY <1>0, <2>1, <2>2
<1> HIDE DEF kept, new, j
<1>4. /\ nxt \in Ctl /\ nxt.common = kept.common /\ nxt.sw = [kept.sw EXCEPT ![c] = new]
      /\ nxt.timer = kept.timer /\ SameSent(nxt, kept)
  BY <1>0, <1>2, <1>3 DEF Ctl, SameSent
<1> HIDE DEF nxt
<1>5. /\ again \in Ctl /\ SameSent(again, nxt) /\ SameChoice(again, nxt)
      /\ again.timer[c] = cf.repeat /\ \A d \in Chan : d # c => again.timer[d] = nxt.timer[d]
  BY <1>4, RestartIs
<1> HIDE DEF again
<1>6. CASE new = k.sw[c]
  <2>1. j = kept /\ [k.sw EXCEPT ![c] = new] = k.sw
    BY <1>0, <1>1, <1>6
  <2>2. \A d \in Chan : d # c => Alone(j, k, d)
    BY <1>3, <2>1 DEF Alone, SameSent
  <2>3. DoneOne(cf, j, k, c) /\ DoneApart(cf, j, k, c)
    BY <1>3, <2>1 DEF DoneOne, DoneApart, SameSent, SameChoice
  <2> QED BY <1>3, <2>1, <2>2, <2>3 DEF SameChoice, j, new
<1>7. CASE new # k.sw[c] /\ oneDevice
  <2>1. j = nxt
    BY <1>1, <1>7
  <2>2. j.sw = [k.sw EXCEPT ![c] = new] /\ j.common = k.common
    BY <1>3, <1>4, <2>1 DEF SameChoice
  <2>3. \A d \in Chan : d # c => Alone(j, k, d)
    BY <1>3, <1>4, <2>1 DEF Alone, SameSent
  <2>4. DoneOne(cf, j, k, c)
    BY <1>3, <1>4, <2>1 DEF DoneOne, SameSent
  <2> QED BY <1>4, <1>7, <2>1, <2>2, <2>3, <2>4 DEF j, new
<1>8. CASE new # k.sw[c] /\ ~oneDevice
  <2>1. j = sent
    BY <1>1, <1>8
  <2>2. /\ sent \in Ctl
        /\ sent.sw = again.sw /\ sent.common = again.common /\ sent.timer = again.timer
        /\ sent.decided[c] = new /\ sent.relay[c] = new
    BY <1>2, <1>5, CmdIs
  <2>3. \A d \in Chan : d # c => /\ sent.decided[d] = again.decided[d]
                                 /\ sent.relay[d] = again.relay[d]
    BY <1>2, <1>5, <1>8, CmdApart
  <2> HIDE DEF sent
  <2>4. j.sw = [k.sw EXCEPT ![c] = new] /\ j.common = k.common
    BY <1>3, <1>4, <1>5, <2>1, <2>2 DEF SameChoice
  <2>5. \A d \in Chan : d # c => Alone(j, k, d)
    BY <1>3, <1>4, <1>5, <2>1, <2>2, <2>3 DEF Alone, SameSent
  <2>6. j.sw[c] = new /\ j.timer[c] = cf.repeat
    BY <1>0, <1>5, <2>1, <2>2, <2>4
  <2>7. DoneApart(cf, j, k, c)
    BY <1>8, <2>1, <2>2, <2>6 DEF DoneApart
  <2> QED BY <1>8, <2>1, <2>2, <2>4, <2>5, <2>7 DEF j, new
<1> QED BY <1>6, <1>7, <1>8

\* ... and one that is disabled.
LEMMA DisabledIs ==
  ASSUME NEW cf \in Config, NEW k \in Ctl, NEW c \in Chan, ~cf.enabled[c]
  PROVE  LET j == Disabled(k, c)
         IN  /\ j \in Ctl /\ j.common = k.common
             /\ j.sw = [k.sw EXCEPT ![c] = IF oneDevice THEN k.sw[c] ELSE IDLE]
             /\ \A d \in Chan : d # c => Alone(j, k, d)
             /\ oneDevice => DoneOne(cf, j, k, c)
             /\ ~oneDevice => DoneApart(cf, j, k, c)
<1> DEFINE j == Disabled(k, c)
           stopped == Cancel(k, c)
           released == IF k.sw[c] = ON THEN cmdOnOff(stopped, c, OFF) ELSE stopped
           idle == [released EXCEPT !.sw[c] = IDLE]
<1>0. k.sw \in [Chan -> Switch] /\ IDLE \in Switch
  BY Fields DEF Switch
<1>1. j = IF oneDevice THEN stopped ELSE idle
  BY DEF Disabled
<1>2. /\ stopped \in Ctl /\ SameSent(stopped, k) /\ SameChoice(stopped, k)
      /\ ~stopped.timer[c] /\ \A d \in Chan : d # c => stopped.timer[d] = k.timer[d]
  BY CancelIs
<1>3. stopped.timer[c] = FALSE
  BY <1>2, Fields
<1> HIDE DEF stopped, j
<1>4. CASE oneDevice
  <2>1. j = stopped /\ [k.sw EXCEPT ![c] = IF oneDevice THEN k.sw[c] ELSE IDLE] = k.sw
    BY <1>0, <1>1, <1>4
  <2>2. \A d \in Chan : d # c => Alone(j, k, d)
    BY <1>2, <2>1 DEF Alone, SameSent
  <2>3. DoneOne(cf, j, k, c)
    BY <1>2, <1>3, <2>1 DEF DoneOne
  <2> QED BY <1>2, <1>4, <2>1, <2>2, <2>3 DEF SameChoice, j
<1>5. CASE ~oneDevice
  <2>1. /\ released \in Ctl /\ SameChoice(released, stopped) /\ released.timer = stopped.timer
        /\ k.sw[c] = ON => released.decided[c] = OFF /\ released.relay[c] = OFF
        /\ k.sw[c] # ON => /\ released.decided[c] = stopped.decided[c]
                           /\ released.relay[c] = stopped.relay[c]
        /\ \A d \in Chan : d # c => /\ released.decided[d] = stopped.decided[d]
                                    /\ released.relay[d] = stopped.relay[d]
    <3>1. CASE k.sw[c] = ON
      <4>1. released = cmdOnOff(stopped, c, OFF)
        BY <3>1
      <4>2. LET h == cmdOnOff(stopped, c, OFF)
            IN  /\ h \in Ctl
                /\ h.sw = stopped.sw /\ h.common = stopped.common
                /\ h.timer = stopped.timer /\ h.save = stopped.save
                /\ h.decided[c] = OFF /\ h.relay[c] = OFF
                /\ ~oneDevice => \A d \in Chan : d # c => /\ h.decided[d] = stopped.decided[d]
                                                         /\ h.relay[d] = stopped.relay[d]
        <5>1. OFF \in {ON, OFF}
          OBVIOUS
        <5> QED BY <1>2, <5>1, CmdIs, Zenon
      <4> HIDE DEF released
      <4> QED BY <3>1, <4>1, <4>2, <1>5 DEF SameChoice
    <3>2. CASE k.sw[c] # ON
      BY <1>2, <3>2 DEF SameChoice
    <3> QED BY <3>1, <3>2
  <2> HIDE DEF released
  <2>2. /\ idle \in Ctl /\ SameSent(idle, released) /\ idle.timer = released.timer
        /\ idle.common = released.common /\ idle.sw = [released.sw EXCEPT ![c] = IDLE]
    BY <1>0, <2>1 DEF Ctl, SameSent
  <2>3. j = idle
    BY <1>1, <1>5
  <2> HIDE DEF idle
  <2>4. j.sw = [k.sw EXCEPT ![c] = IDLE] /\ j.common = k.common
    BY <1>2, <2>1, <2>2, <2>3 DEF SameChoice
  <2>5. \A d \in Chan : d # c => Alone(j, k, d)
    BY <1>2, <2>1, <2>2, <2>3 DEF Alone, SameSent
  <2>6. DoneApart(cf, j, k, c)
    BY <1>2, <2>1, <2>2, <2>3 DEF DoneApart, SameSent
  <2>7. [k.sw EXCEPT ![c] = IF oneDevice THEN k.sw[c] ELSE IDLE] = [k.sw EXCEPT ![c] = IDLE]
    BY <1>5
  <2> QED BY <1>5, <2>2, <2>3, <2>4, <2>5, <2>6, <2>7 DEF j
<1> QED BY <1>4, <1>5

\* The procedure of a channel.
LEMMA ChannelIs ==
  ASSUME NEW cf \in Config, NEW at \in Attr, NEW k \in Ctl, NEW c \in Chan, joined
  PROVE  LET j == proc_temp_onoff(cf, at, k, c)
         IN  /\ j \in Ctl /\ j.common = k.common
             /\ j.sw = [k.sw EXCEPT ![c] = Chosen(cf, at, k, c)]
             /\ \A d \in Chan : d # c => Alone(j, k, d)
             /\ oneDevice => DoneOne(cf, j, k, c)
             /\ ~oneDevice => DoneApart(cf, j, k, c)
<1>1. CASE cf.enabled[c]
  <2>1. /\ proc_temp_onoff(cf, at, k, c) = Decided(cf, at, k, c)
        /\ Chosen(cf, at, k, c) = Decision(at, k, c)
    BY <1>1 DEF proc_temp_onoff, Chosen
  <2> QED BY <1>1, <2>1, DecidedIs
<1>2. CASE ~cf.enabled[c]
  <2>1. /\ proc_temp_onoff(cf, at, k, c) = Disabled(k, c)
        /\ Chosen(cf, at, k, c) = IF oneDevice THEN k.sw[c] ELSE IDLE
    BY <1>2 DEF proc_temp_onoff, Chosen
  <2> QED BY <1>2, <2>1, DisabledIs
<1> QED BY <1>1, <1>2

\* Both procedures, one after the other.
LEMMA BothAre ==
  ASSUME NEW cf \in Config, NEW at \in Attr, NEW k \in Ctl, joined
  PROVE  LET p == proc_hum_onoff(cf, at, proc_temp_onoff(cf, at, k, "temp"))
         IN  /\ p \in Ctl /\ p.common = k.common
             /\ \A c \in Chan : /\ p.sw[c] = Chosen(cf, at, k, c)
                                /\ oneDevice => DoneOne(cf, p, k, c)
                                /\ ~oneDevice => DoneApart(cf, p, k, c)
<1> DEFINE a == proc_temp_onoff(cf, at, k, "temp")
           p == proc_temp_onoff(cf, at, a, "hum")
<1>1. /\ a \in Ctl /\ a.common = k.common
      /\ a.sw = [k.sw EXCEPT !["temp"] = Chosen(cf, at, k, "temp")]
      /\ Alone(a, k, "hum")
      /\ oneDevice => DoneOne(cf, a, k, "temp")
      /\ ~oneDevice => DoneApart(cf, a, k, "temp")
  <2>1. "temp" \in Chan /\ "hum" \in Chan /\ "hum" # "temp"
    BY Channels
  <2> QED BY <2>1, ChannelIs
<1> HIDE DEF a
<1>2. /\ p \in Ctl /\ p.common = a.common
      /\ p.sw = [a.sw EXCEPT !["hum"] = Chosen(cf, at, a, "hum")]
      /\ Alone(p, a, "temp")
      /\ oneDevice => DoneOne(cf, p, a, "hum")
      /\ ~oneDevice => DoneApart(cf, p, a, "hum")
  <2>1. "temp" \in Chan /\ "hum" \in Chan /\ "hum" # "temp"
    BY Channels
  <2> QED BY <1>1, <2>1, ChannelIs
<1> HIDE DEF p
<1>3. a.sw["hum"] = k.sw["hum"]
  BY <1>1, Fields, Channels
<1>4. Chosen(cf, at, a, "hum") = Chosen(cf, at, k, "hum")
  BY <1>3 DEF Chosen, Decision
<1>5. p = proc_hum_onoff(cf, at, proc_temp_onoff(cf, at, k, "temp"))
  BY DEF p, a, proc_hum_onoff
<1>6. /\ p.sw["temp"] = a.sw["temp"] /\ a.sw["temp"] = Chosen(cf, at, k, "temp")
      /\ p.sw["hum"] = Chosen(cf, at, k, "hum")
  BY <1>1, <1>2, <1>4, Fields, Channels
<1>7. ASSUME oneDevice PROVE DoneOne(cf, p, k, "temp") /\ DoneOne(cf, p, k, "hum")
  BY <1>1, <1>2, <1>7 DEF DoneOne, SameSent, Alone
<1>8. ASSUME ~oneDevice PROVE DoneApart(cf, p, k, "temp") /\ DoneApart(cf, p, k, "hum")
  BY <1>1, <1>2, <1>3, <1>6, <1>8 DEF DoneApart, Alone
<1>9. \A c \in Chan : /\ p.sw[c] = Chosen(cf, at, k, c)
                      /\ oneDevice => DoneOne(cf, p, k, c)
                      /\ ~oneDevice => DoneApart(cf, p, k, c)
  BY <1>6, <1>7, <1>8, Channels
<1>10. p \in Ctl /\ p.common = k.common
  BY <1>1, <1>2
<1> QED BY <1>5, <1>9, <1>10

\* Neither channel is enabled.
LEMMA NoneIs ==
  ASSUME NEW k \in Ctl, oneDevice
  PROVE  LET j == NoneEnabled(k)
         IN  /\ j \in Ctl
             /\ \A c \in Chan : j.sw[c] = IDLE /\ j.common[c] = IDLE /\ j.timer[c] = FALSE
             /\ j.common = j.sw
             /\ (\E c \in Chan : k.sw[c] = ON) => AllTold(j, OFF)
             /\ (\A c \in Chan : k.sw[c] # ON) => j.decided = k.decided
<1> DEFINE half == Cancel(k, "temp")
           stopped == Cancel(half, "hum")
           released == IF \E c \in Chan : k.sw[c] = ON
                       THEN cmdOnOff(stopped, "temp", OFF) ELSE stopped
           none == [released EXCEPT !.sw = [c \in Chan |-> IDLE], !.common = [c \in Chan |-> IDLE]]
<1>0. "temp" \in Chan /\ "hum" \in Chan /\ "hum" # "temp" /\ IDLE \in Switch
  BY Channels DEF Switch
<1>1. half \in Ctl /\ ~half.timer["temp"] /\ half.decided = k.decided
  BY <1>0, CancelIs DEF SameSent
<1> HIDE DEF half
<1>2. /\ stopped \in Ctl /\ ~stopped.timer["temp"] /\ ~stopped.timer["hum"]
      /\ stopped.decided = k.decided
  BY <1>0, <1>1, CancelIs DEF SameSent
<1> HIDE DEF stopped
<1>3. /\ released \in Ctl /\ released.timer = stopped.timer
      /\ (\E c \in Chan : k.sw[c] = ON) => AllTold(released, OFF)
      /\ (\A c \in Chan : k.sw[c] # ON) => released.decided = k.decided
  <2>1. CASE \E c \in Chan : k.sw[c] = ON
    <3>1. released = cmdOnOff(stopped, "temp", OFF)
      BY <2>1
    <3> HIDE DEF released
    <3> QED BY <1>0, <1>2, <2>1, <3>1, CmdIs, CmdOne
  <2>2. CASE ~\E c \in Chan : k.sw[c] = ON
    BY <1>2, <2>2
  <2> QED BY <2>1, <2>2
<1> HIDE DEF released
<1>4. /\ none \in Ctl /\ none.timer = released.timer /\ none.decided = released.decided
      /\ none.sw = [c \in Chan |-> IDLE] /\ none.common = [c \in Chan |-> IDLE]
  BY <1>0, <1>3 DEF Ctl
<1>5. NoneEnabled(k) = none
  BY DEF NoneEnabled, none, released, stopped, half
<1> HIDE DEF none
<1>6. \A c \in Chan : none.timer[c] = FALSE
  BY <1>2, <1>3, <1>4, Fields, Channels
<1>7. (\E c \in Chan : k.sw[c] = ON) => AllTold(none, OFF)
  BY <1>3, <1>4 DEF AllTold
<1> QED BY <1>3, <1>4, <1>5, <1>6, <1>7

\* One channel is enabled, and has decided.
OneLeaves(cf, j, k, c, new) ==
  /\ j \in Ctl
  /\ j.sw[c] = new /\ j.sw[Other(c)] = IDLE /\ j.common = j.sw
  /\ j.timer[c] = cf.repeat /\ j.timer[Other(c)] = FALSE
  /\ k.common[c] # new => AllTold(j, new)
  /\ k.common[c] = new /\ new = OFF /\ k.sw[Other(c)] = ON => AllTold(j, OFF)
  /\ k.common[c] = new /\ (new = ON \/ k.sw[Other(c)] # ON) => j.decided = k.decided

\* The branch of the one enabled channel does just this.
LEMMA OneIs ==
  ASSUME NEW cf \in Config, NEW k \in Ctl, NEW c \in Chan, oneDevice,
         k.sw[c] \in {ON, OFF}, k.timer[c] => cf.repeat
  PROVE  OneLeaves(cf, OneEnabled(cf, k, c), k, c, k.sw[c])
<1> DEFINE o == Other(c)
           stopped == Cancel(k, o)
           released == IF k.sw[o] = ON /\ k.sw[c] = OFF
                       THEN cmdOnOff(stopped, o, OFF) ELSE stopped
           alone == [released EXCEPT !.sw[o] = IDLE, !.common[o] = IDLE]
           cmd == cmdOnOff(alone, c, k.sw[c])
           sent == [cmd EXCEPT !.common[c] = k.sw[c]]
           told == IF k.sw[c] \in {ON, OFF} /\ k.common[c] # k.sw[c] THEN Cancel(sent, c) ELSE alone
           again == Restart(cf, told, c)
           j == OneEnabled(cf, k, c)
<1>0. /\ o \in Chan /\ o # c /\ \A d \in Chan : d = c \/ d = o
      /\ k.sw[c] \in Switch /\ IDLE \in Switch /\ cf.repeat \in BOOLEAN /\ ON # OFF
      /\ k.sw \in [Chan -> Switch] /\ k.common \in [Chan -> Switch]
  BY Channels, Fields DEF Switch, Config, ON, OFF
<1>1. j = IF told.timer[c] THEN told ELSE again
  BY DEF OneEnabled
<1> HIDE DEF j, o
<1>2. /\ stopped \in Ctl /\ SameSent(stopped, k) /\ SameChoice(stopped, k)
      /\ ~stopped.timer[o] /\ stopped.timer[c] = k.timer[c]
  BY <1>0, CancelIs
<1> HIDE DEF stopped
<1>3. /\ released \in Ctl /\ SameChoice(released, k) /\ released.timer = stopped.timer
      /\ k.sw[o] = ON /\ k.sw[c] = OFF => AllTold(released, OFF)
      /\ k.sw[o] # ON \/ k.sw[c] = ON => released.decided = k.decided
  <2>1. CASE k.sw[o] = ON /\ k.sw[c] = OFF
    <3>1. released = cmdOnOff(stopped, o, OFF)
      BY <2>1
    <3>2. LET h == cmdOnOff(stopped, o, OFF)
          IN  /\ h \in Ctl
              /\ h.sw = stopped.sw /\ h.common = stopped.common
              /\ h.timer = stopped.timer /\ h.save = stopped.save
              /\ AllTold(h, OFF)
      <4>1. OFF \in {ON, OFF}
        BY Zenon
      <4> QED BY <1>0, <1>2, <4>1, CmdIs, CmdOne, Zenon
    <3> HIDE DEF released
    <3> QED BY <1>0, <1>2, <2>1, <3>1, <3>2 DEF SameChoice
  <2>2. CASE ~(k.sw[o] = ON /\ k.sw[c] = OFF)
    BY <1>0, <1>2, <2>2 DEF SameSent, SameChoice
  <2> QED BY <2>1, <2>2
<1> HIDE DEF released
<1>4. /\ alone \in Ctl /\ alone.timer = released.timer /\ alone.decided = released.decided
      /\ alone.sw = [k.sw EXCEPT ![o] = IDLE] /\ alone.common = [k.common EXCEPT ![o] = IDLE]
  BY <1>0, <1>3 DEF Ctl, SameChoice
<1> HIDE DEF alone
<1>5. /\ cmd \in Ctl /\ cmd.sw = alone.sw /\ cmd.common = alone.common
      /\ cmd.timer = alone.timer /\ AllTold(cmd, k.sw[c])
  <2>1. k.sw[c] \in {ON, OFF}
    BY <1>0
  <2>2. LET h == cmdOnOff(alone, c, k.sw[c])
        IN  /\ h \in Ctl
            /\ h.sw = alone.sw /\ h.common = alone.common /\ h.timer = alone.timer
    BY <1>4, <2>1, CmdIs
  <2>3. AllTold(cmdOnOff(alone, c, k.sw[c]), k.sw[c])
    BY <1>4, <2>1, CmdOne, Zenon
  <2> QED BY <2>2, <2>3
<1> HIDE DEF cmd
<1>6. /\ sent \in Ctl /\ sent.timer = cmd.timer /\ sent.decided = cmd.decided
      /\ sent.sw = cmd.sw /\ sent.common = [cmd.common EXCEPT ![c] = k.sw[c]]
  BY <1>0, <1>5 DEF Ctl
<1> HIDE DEF sent
<1>7. /\ told \in Ctl /\ told.sw = [k.sw EXCEPT ![o] = IDLE]
      /\ told.common[c] = k.sw[c] /\ told.common[o] = IDLE
      /\ told.timer[o] = FALSE /\ (told.timer[c] => cf.repeat)
      /\ k.common[c] # k.sw[c] => AllTold(told, k.sw[c])
      /\ k.common[c] = k.sw[c] => told.decided = released.decided
  <2>1. CASE k.common[c] # k.sw[c]
    <3>1. told = Cancel(sent, c)
      BY <2>1
    <3>2. /\ told \in Ctl /\ told.sw = sent.sw /\ told.common = sent.common
          /\ told.decided = sent.decided
          /\ ~told.timer[c] /\ told.timer[o] = sent.timer[o]
      BY <1>0, <1>6, <3>1, CancelIs DEF SameSent, SameChoice
    <3> HIDE DEF told
    <3>3. told.timer[o] = FALSE
      BY <1>0, <1>2, <1>3, <1>4, <1>5, <1>6, <3>2, Fields
    <3>4. AllTold(told, k.sw[c])
      BY <1>5, <1>6, <3>2 DEF AllTold
    <3>5. told.common[c] = k.sw[c] /\ told.common[o] = IDLE
      BY <1>0, <1>4, <1>5, <1>6, <3>2
    <3> QED BY <1>4, <1>5, <1>6, <2>1, <3>2, <3>3, <3>4, <3>5
  <2>2. CASE k.common[c] = k.sw[c]
    <3>1. told = alone
      BY <2>2
    <3> HIDE DEF told
    <3>2. told.timer[o] = FALSE /\ (told.timer[c] => cf.repeat)
      BY <1>0, <1>2, <1>3, <1>4, <3>1, Fields
    <3>3. told.common[c] = k.sw[c] /\ told.common[o] = IDLE
      BY <1>0, <1>4, <2>2, <3>1
    <3> QED BY <1>4, <2>2, <3>1, <3>2, <3>3
  <2> QED BY <2>1, <2>2
<1> HIDE DEF told
<1>8. /\ again \in Ctl /\ SameSent(again, told) /\ SameChoice(again, told)
      /\ again.timer[c] = cf.repeat /\ again.timer[o] = told.timer[o]
  BY <1>0, <1>7, RestartIs
<1> HIDE DEF again
<1>9. /\ j \in Ctl /\ j.sw = told.sw /\ j.common = told.common /\ j.decided = told.decided
      /\ j.timer[c] = cf.repeat /\ j.timer[o] = FALSE
  <2>1. CASE told.timer[c]
    BY <1>0, <1>1, <1>7, <2>1, Fields
  <2>2. CASE ~told.timer[c]
    BY <1>1, <1>7, <1>8, <2>2 DEF SameSent, SameChoice
  <2> QED BY <2>1, <2>2
<1>10. j.common = j.sw
  <2>1. \A d \in Chan : j.common[d] = j.sw[d]
    BY <1>0, <1>7, <1>9
  <2> QED BY <1>9, <2>1, Fields
<1>11. /\ k.common[c] # k.sw[c] => AllTold(j, k.sw[c])
       /\ k.common[c] = k.sw[c] /\ k.sw[c] = OFF /\ k.sw[o] = ON => AllTold(j, OFF)
       /\ k.common[c] = k.sw[c] /\ (k.sw[c] = ON \/ k.sw[o] # ON) => j.decided = k.decided
  BY <1>3, <1>7, <1>9 DEF AllTold
<1>12. j.sw[c] = k.sw[c] /\ j.sw[o] = IDLE
  BY <1>0, <1>7, <1>9
<1> QED BY <1>9, <1>10, <1>11, <1>12 DEF j, o, OneLeaves

\* A channel that turns On on the common device.
TurnsOn(cf, j, k, c) ==
  /\ j \in Ctl /\ j.sw = k.sw
  /\ k.sw[c] = ON /\ k.common[c] # ON =>
       /\ j.common = [k.common EXCEPT ![c] = ON] /\ AllTold(j, ON)
       /\ j.timer[c] = cf.repeat /\ j.timer[Other(c)] = FALSE
  /\ k.sw[c] # ON \/ k.common[c] = ON => j = k

\* The turn On does just this.
LEMMA OnEdgeIs ==
  ASSUME NEW cf \in Config, NEW k \in Ctl, NEW c \in Chan, oneDevice
  PROVE  TurnsOn(cf, OnEdge(cf, k, c), k, c)
<1> DEFINE cmd == cmdOnOff(k, c, ON)
           set == [cmd EXCEPT !.common[c] = ON]
           j == TakeOver(cf, set, c)
<1>1. cmd \in Ctl /\ cmd.sw = k.sw /\ cmd.common = k.common /\ AllTold(cmd, ON)
  BY CmdIs, CmdOne
<1> HIDE DEF cmd
<1>2. ON \in Switch
  BY DEF Switch
<1>3. /\ set \in Ctl /\ set.sw = k.sw /\ set.common = [k.common EXCEPT ![c] = ON]
      /\ set.decided = cmd.decided
  BY <1>1, <1>2 DEF Ctl
<1> HIDE DEF set
<1>4. /\ j \in Ctl /\ j.sw = k.sw /\ j.common = [k.common EXCEPT ![c] = ON]
      /\ j.decided = set.decided /\ j.timer[c] = cf.repeat /\ ~j.timer[Other(c)]
  BY <1>3, TakeOverIs DEF SameSent, SameChoice
<1>5. j.timer[Other(c)] = FALSE /\ AllTold(j, ON)
  BY <1>1, <1>3, <1>4, Fields, Channels DEF AllTold
<1>6. OnEdge(cf, k, c) = IF k.sw[c] = ON /\ k.common[c] # ON THEN j ELSE k
  BY DEF OnEdge, j, set, cmd
<1> HIDE DEF j
<1> QED BY <1>4, <1>5, <1>6 DEF TurnsOn

\* A channel that turns Off on the common device.
TurnsOff(cf, j, k, c) ==
  /\ j \in Ctl /\ j.sw = k.sw
  /\ k.sw[c] = OFF /\ k.common[c] # OFF =>
       /\ j.common = [k.common EXCEPT ![c] = OFF]
       /\ k.common[Other(c)] = OFF =>
            /\ AllTold(j, OFF)
            /\ j.timer[c] = cf.repeat /\ j.timer[Other(c)] = FALSE
       /\ k.common[Other(c)] # OFF => SameSent(j, k) /\ j.timer = k.timer
  /\ k.sw[c] # OFF \/ k.common[c] = OFF => j = k

\* The turn Off does just this.
LEMMA OffEdgeIs ==
  ASSUME NEW cf \in Config, NEW k \in Ctl, NEW c \in Chan, oneDevice
  PROVE  TurnsOff(cf, OffEdge(cf, k, c), k, c)
<1> DEFINE seen == [k EXCEPT !.common[c] = OFF]
           cmd == cmdOnOff(seen, c, OFF)
           j == TakeOver(cf, cmd, c)
<1>1. OFF \in Switch
  BY DEF Switch
<1>2. /\ seen \in Ctl /\ seen.sw = k.sw /\ seen.common = [k.common EXCEPT ![c] = OFF]
      /\ SameSent(seen, k) /\ seen.timer = k.timer
  BY <1>1 DEF Ctl, SameSent
<1> HIDE DEF seen
<1>3. cmd \in Ctl /\ cmd.sw = k.sw /\ cmd.common = seen.common /\ AllTold(cmd, OFF)
  BY <1>2, CmdIs, CmdOne
<1> HIDE DEF cmd
<1>4. /\ j \in Ctl /\ j.sw = k.sw /\ j.common = [k.common EXCEPT ![c] = OFF]
      /\ j.decided = cmd.decided /\ j.timer[c] = cf.repeat /\ ~j.timer[Other(c)]
  BY <1>2, <1>3, TakeOverIs DEF SameSent, SameChoice
<1>5. j.timer[Other(c)] = FALSE /\ AllTold(j, OFF)
  BY <1>3, <1>4, Fields, Channels DEF AllTold
<1>6. OffEdge(cf, k, c) = IF k.sw[c] # OFF \/ k.common[c] = OFF THEN k
                          ELSE IF k.common[Other(c)] = OFF THEN j ELSE seen
  BY DEF OffEdge, j, cmd, seen
<1> HIDE DEF j
<1> QED BY <1>2, <1>4, <1>5, <1>6 DEF TurnsOff

\* Both channels are enabled: the turns keep what the device has been told in
\* step with the channels' common decisions.
LEMMA EdgeTold ==
  ASSUME NEW cf \in Config, NEW k \in Ctl, NEW c \in Chan, oneDevice,
         \A d \in Chan : cf.enabled[d], Told(cf, k)
  PROVE  Told(cf, OnEdge(cf, k, c)) /\ Told(cf, OffEdge(cf, k, c))
<1> DEFINE on == OnEdge(cf, k, c)
           off == OffEdge(cf, k, c)
           o == Other(c)
<1> TurnsOn(cf, on, k, c) /\ TurnsOff(cf, off, k, c)
  BY OnEdgeIs, OffEdgeIs
<1> HIDE DEF on, off
<1>0. /\ o \in Chan /\ o # c /\ \A d \in Chan : d = c \/ d = o
      /\ Chan = {"temp", "hum"} /\ "temp" # "hum" /\ cf.repeat \in BOOLEAN
      /\ ON # OFF /\ IDLE # ON /\ IDLE # OFF /\ k.common \in [Chan -> Switch]
  BY Channels, Fields DEF Config, ON, OFF, IDLE
<1>1. CASE k.sw[c] = ON /\ k.common[c] # ON
  <2>1. /\ on.common = [k.common EXCEPT ![c] = ON] /\ AllTold(on, ON)
        /\ on.timer[c] = cf.repeat /\ on.timer[o] = FALSE
    BY <1>1 DEF TurnsOn
  <2>2. off = k
    BY <1>0, <1>1 DEF TurnsOff
  <2> HIDE DEF o
  <2>3. ~AllOff(cf, on)
    BY <1>0, <2>1 DEF AllOff
  <2>4. cf.repeat => \E d \in Chan : on.timer[d]
    BY <2>1
  <2>5. ~(on.timer["temp"] /\ on.timer["hum"])
    BY <1>0, <2>1
  <2>6. Told(cf, on)
    BY <2>1, <2>3, <2>4, <2>5 DEF Told, AllTold
  <2> QED BY <2>2, <2>6 DEF on, off
<1>2. CASE k.sw[c] = OFF /\ k.common[c] # OFF /\ k.common[o] = OFF
  <2>1. /\ off.common = [k.common EXCEPT ![c] = OFF] /\ AllTold(off, OFF)
        /\ off.timer[c] = cf.repeat /\ off.timer[o] = FALSE
    BY <1>2 DEF TurnsOff
  <2>2. on = k
    BY <1>0, <1>2 DEF TurnsOn
  <2> HIDE DEF o
  <2>3. ~SomeOn(off)
    BY <1>0, <1>2, <2>1 DEF SomeOn
  <2>4. cf.repeat => \E d \in Chan : off.timer[d]
    BY <2>1
  <2>5. ~(off.timer["temp"] /\ off.timer["hum"])
    BY <1>0, <2>1
  <2>6. Told(cf, off)
    BY <2>1, <2>3, <2>4, <2>5 DEF Told, AllTold
  <2> QED BY <2>2, <2>6 DEF on, off
<1>3. CASE k.sw[c] = OFF /\ k.common[c] # OFF /\ k.common[o] # OFF
  <2>1. /\ off.common = [k.common EXCEPT ![c] = OFF]
        /\ off.decided = k.decided /\ off.timer = k.timer
    BY <1>3 DEF TurnsOff, SameSent
  <2>2. on = k
    BY <1>0, <1>3 DEF TurnsOn
  <2> HIDE DEF o
  <2>3. ~AllOff(cf, off) /\ (SomeOn(off) => SomeOn(k))
    BY <1>0, <1>3, <2>1 DEF AllOff, SomeOn
  <2>4. Told(cf, off)
    BY <2>1, <2>3 DEF Told
  <2> QED BY <2>2, <2>4 DEF on, off
<1>4. CASE /\ k.sw[c] # ON \/ k.common[c] = ON
           /\ k.sw[c] # OFF \/ k.common[c] = OFF
  <2>1. on = k /\ off = k
    BY <1>4 DEF TurnsOn, TurnsOff
  <2> QED BY <2>1 DEF on, off
<1> QED BY <1>1, <1>2, <1>3, <1>4 DEF on, off

\* ... and end with the common decisions being the channels' own.
LEMMA BothEnabledIs ==
  ASSUME NEW cf \in Config, NEW k \in Ctl, oneDevice,
         \A c \in Chan : k.sw[c] \in {ON, OFF}
  PROVE  LET j == BothEnabled(cf, k)
         IN  /\ j \in Ctl /\ j.sw = k.sw /\ j.common = k.sw
             /\ (\A c \in Chan : cf.enabled[c]) /\ Told(cf, k) => Told(cf, j)
             /\ (\A c \in Chan : k.sw[c] = OFF) => j.decided = k.decided \/ AllTold(j, OFF)
             /\ (\A c \in Chan : k.sw[c] = OFF) /\ (\E c \in Chan : k.common[c] # OFF) =>
                  AllTold(j, OFF)
             /\ k.common = k.sw => j = k
<1> DEFINE a == OnEdge(cf, k, "temp")
           b == OnEdge(cf, a, "hum")
           d == OffEdge(cf, b, "temp")
           j == OffEdge(cf, d, "hum")
<1>0. /\ "temp" \in Chan /\ "hum" \in Chan /\ "temp" # "hum" /\ ON # OFF
      /\ Other("temp") = "hum" /\ Other("hum") = "temp"
      /\ k.sw["temp"] \in {ON, OFF} /\ k.sw["hum"] \in {ON, OFF}
  BY Channels DEF ON, OFF
<1>1. a \in Ctl /\ TurnsOn(cf, a, k, "temp")
  BY <1>0, OnEdgeIs DEF TurnsOn
<1> HIDE DEF a
<1>2. b \in Ctl /\ TurnsOn(cf, b, a, "hum")
  <2>1. TurnsOn(cf, OnEdge(cf, a, "hum"), a, "hum")
    BY <1>0, <1>1, OnEdgeIs, Zenon
  <2> QED BY <2>1 DEF TurnsOn
<1> HIDE DEF b
<1>3. d \in Ctl /\ TurnsOff(cf, d, b, "temp")
  BY <1>0, <1>2, OffEdgeIs DEF TurnsOff
<1> HIDE DEF d
<1>4. j \in Ctl /\ TurnsOff(cf, j, d, "hum")
  <2>1. TurnsOff(cf, OffEdge(cf, d, "hum"), d, "hum")
    BY <1>0, <1>3, OffEdgeIs, Zenon
  <2> QED BY <2>1 DEF TurnsOff
<1>5. BothEnabled(cf, k) = j
  BY DEF BothEnabled, j, d, b, a
<1>6. ASSUME \A c \in Chan : cf.enabled[c], Told(cf, k) PROVE Told(cf, j)
  <2>1. Told(cf, a)
    BY <1>0, <1>6, EdgeTold DEF a
  <2>2. Told(cf, b)
    BY <1>0, <1>1, <1>6, <2>1, EdgeTold DEF b
  <2>3. Told(cf, d)
    BY <1>0, <1>2, <1>6, <2>2, EdgeTold DEF d
  <2> QED BY <1>0, <1>3, <1>6, <2>3, EdgeTold DEF j
<1> HIDE DEF j
<1>7. j.common = k.sw
  <2>1. j.common["temp"] = k.sw["temp"] /\ j.common["hum"] = k.sw["hum"]
    BY <1>0, <1>1, <1>2, <1>3, <1>4, Fields DEF TurnsOn, TurnsOff, SameSent
  <2> QED BY <1>4, <2>1, Fields, Channels DEF TurnsOn, TurnsOff, SameSent
<1>8. ASSUME \A c \in Chan : k.sw[c] = OFF
      PROVE  /\ j.decided = k.decided \/ AllTold(j, OFF)
             /\ (\E c \in Chan : k.common[c] # OFF) => AllTold(j, OFF)
  <2>1. a = k /\ b = k
    BY <1>0, <1>1, <1>2, <1>8 DEF TurnsOn, TurnsOff, SameSent
  <2>2. CASE k.common["temp"] = OFF
    <3>1. d = k
      BY <1>3, <2>1, <2>2 DEF TurnsOn, TurnsOff, SameSent
    <3>2. k.common["hum"] # OFF => AllTold(j, OFF)
      BY <1>0, <1>4, <1>8, <2>2, <3>1 DEF TurnsOn, TurnsOff, SameSent
    <3>3. k.common["hum"] = OFF => j = k
      BY <1>4, <3>1 DEF TurnsOn, TurnsOff, SameSent
    <3> QED BY <2>2, <3>2, <3>3, Channels DEF TurnsOn, TurnsOff, SameSent
  <2>3. CASE k.common["temp"] # OFF
    <3>1. d.common["temp"] = OFF /\ d.common["hum"] = k.common["hum"] /\ d.sw = k.sw
      BY <1>0, <1>3, <1>8, <2>1, Fields DEF TurnsOn, TurnsOff, SameSent
    <3>2. k.common["hum"] = OFF => AllTold(d, OFF) /\ j = d
      BY <1>0, <1>3, <1>4, <1>8, <2>1, <2>3, <3>1 DEF TurnsOn, TurnsOff, SameSent
    <3>3. k.common["hum"] # OFF => AllTold(j, OFF)
      BY <1>0, <1>4, <1>8, <3>1 DEF TurnsOn, TurnsOff, SameSent
    <3> QED BY <3>2, <3>3 DEF TurnsOn, TurnsOff, SameSent
  <2> QED BY <2>2, <2>3 DEF TurnsOn, TurnsOff, SameSent
<1>9. ASSUME k.common = k.sw PROVE j = k
  <2>1. a = k /\ b = k
    BY <1>0, <1>1, <1>2, <1>9 DEF TurnsOn, TurnsOff, SameSent
  <2>2. d = k
    BY <1>0, <1>3, <1>9, <2>1 DEF TurnsOn, TurnsOff, SameSent
  <2> QED BY <1>0, <1>4, <1>9, <2>2 DEF TurnsOn, TurnsOff, SameSent
<1> QED BY <1>1, <1>2, <1>3, <1>4, <1>5, <1>6, <1>7, <1>8, <1>9 DEF TurnsOn, TurnsOff, SameSent

-----------------------------------------------------------------------------
(***************************************************************************)
(* What the control leaves, with a binding view and a network.             *)
(***************************************************************************)

\* The decisions the control takes.
Decides(cf, at, j, k) ==
  \A c \in Chan : j.sw[c] = IF cf.enabled[c] THEN Decision(at, k, c) ELSE IDLE

\* On devices of their own.
LEMMA ProcApart ==
  ASSUME NEW cf \in Config, NEW at \in Attr, NEW k \in Ctl, joined, ~bindIdle, ~oneDevice
  PROVE  LET j == proc_temp_hum_onoff(cf, at, k)
         IN  /\ j \in Ctl /\ Decides(cf, at, j, k)
             /\ \A c \in Chan : DoneApart(cf, j, k, c)
<1> DEFINE p == proc_hum_onoff(cf, at, proc_temp_onoff(cf, at, k, "temp"))
<1>1. p \in Ctl /\ \A c \in Chan : p.sw[c] = Chosen(cf, at, k, c) /\ DoneApart(cf, p, k, c)
  BY BothAre
<1>2. proc_temp_hum_onoff(cf, at, k) = p
  BY DEF proc_temp_hum_onoff
<1> HIDE DEF p
<1> QED BY <1>1, <1>2 DEF Decides, Chosen

\* On one device, with neither channel enabled, ...
LEMMA ProcNone ==
  ASSUME NEW cf \in Config, NEW at \in Attr, NEW k \in Ctl, joined, ~bindIdle, oneDevice,
         \A c \in Chan : ~cf.enabled[c]
  PROVE  LET j == proc_temp_hum_onoff(cf, at, k)
         IN  /\ j \in Ctl /\ Decides(cf, at, j, k) /\ j.common = j.sw
             /\ \A c \in Chan : j.sw[c] = IDLE /\ j.timer[c] = FALSE
             /\ (\E c \in Chan : k.sw[c] = ON) => AllTold(j, OFF)
             /\ (\A c \in Chan : k.sw[c] # ON) => j.decided = k.decided
<1> DEFINE p == proc_hum_onoff(cf, at, proc_temp_onoff(cf, at, k, "temp"))
<1>1. p \in Ctl /\ \A c \in Chan : p.sw[c] = Chosen(cf, at, k, c) /\ DoneOne(cf, p, k, c)
  BY BothAre
<1>2. proc_temp_hum_onoff(cf, at, k) = NoneEnabled(p)
  BY Channels DEF proc_temp_hum_onoff, procTempHumOnOff
<1> HIDE DEF p
<1>3. p.decided = k.decided /\ \A c \in Chan : p.sw[c] = k.sw[c]
  BY <1>1, Channels DEF Chosen, DoneOne, SameSent
<1>4. /\ NoneEnabled(p) \in Ctl
      /\ \A c \in Chan : /\ NoneEnabled(p).sw[c] = IDLE /\ NoneEnabled(p).common[c] = IDLE
                         /\ NoneEnabled(p).timer[c] = FALSE
      /\ NoneEnabled(p).common = NoneEnabled(p).sw
      /\ (\E c \in Chan : p.sw[c] = ON) => AllTold(NoneEnabled(p), OFF)
      /\ (\A c \in Chan : p.sw[c] # ON) => NoneEnabled(p).decided = p.decided
  BY <1>1, NoneIs
<1> QED BY <1>2, <1>3, <1>4 DEF Decides

\* ... with one, ...
LEMMA ProcOne ==
  ASSUME NEW cf \in Config, NEW at \in Attr, NEW k \in Ctl, joined, ~bindIdle, oneDevice,
         NEW c \in Chan, cf.enabled[c], ~cf.enabled[Other(c)]
  PROVE  LET j == proc_temp_hum_onoff(cf, at, k)
         IN  /\ j \in Ctl /\ Decides(cf, at, j, k) /\ j.common = j.sw
             /\ Decision(at, k, c) \in {ON, OFF}
             /\ OneLeaves(cf, j, k, c, Decision(at, k, c))
<1> DEFINE p == proc_hum_onoff(cf, at, proc_temp_onoff(cf, at, k, "temp"))
           j == proc_temp_hum_onoff(cf, at, k)
           new == Decision(at, k, c)
           o == Other(c)
<1>0. o \in Chan /\ o # c /\ \A d \in Chan : d = c \/ d = o
  BY Channels
<1>1. /\ p \in Ctl /\ p.common = k.common
      /\ \A d \in Chan : p.sw[d] = Chosen(cf, at, k, d) /\ DoneOne(cf, p, k, d)
  BY BothAre
<1>2. j = OneEnabled(cf, p, c)
  BY Channels DEF proc_temp_hum_onoff, procTempHumOnOff, Other, Chan
<1>3. new \in {ON, OFF}
  BY DecisionType
<1> HIDE DEF p, new, j, o
<1>4. /\ p.decided = k.decided /\ p.sw[c] = new /\ p.sw[o] = k.sw[o]
      /\ p.timer[c] => cf.repeat
  BY <1>0, <1>1 DEF Chosen, DoneOne, SameSent, new, o
<1>5. OneLeaves(cf, j, p, c, new)
  <2>1. p.sw[c] \in {ON, OFF}
    BY <1>3, <1>4
  <2>2. OneLeaves(cf, j, p, c, p.sw[c])
    BY <1>1, <1>2, <1>4, <2>1, OneIs
  <2> QED BY <1>4, <2>2
<1>6. OneLeaves(cf, j, k, c, new)
  BY <1>1, <1>4, <1>5 DEF OneLeaves, o
<1>7. Decides(cf, at, j, k)
  BY <1>0, <1>6 DEF Decides, OneLeaves, new, o
<1> QED BY <1>3, <1>6, <1>7 DEF j, new, OneLeaves

\* ... and with both.
LEMMA ProcBoth ==
  ASSUME NEW cf \in Config, NEW at \in Attr, NEW k \in Ctl, joined, ~bindIdle, oneDevice,
         \A c \in Chan : cf.enabled[c]
  PROVE  LET j == proc_temp_hum_onoff(cf, at, k)
         IN  /\ j \in Ctl /\ Decides(cf, at, j, k) /\ j.common = j.sw
             /\ \A c \in Chan : j.sw[c] \in {ON, OFF}
             /\ Told(cf, k) => Told(cf, j)
             /\ (\A c \in Chan : j.sw[c] = OFF) => j.decided = k.decided \/ AllTold(j, OFF)
             /\ (\A c \in Chan : j.sw[c] = OFF) /\ (\E c \in Chan : k.common[c] # OFF) =>
                  AllTold(j, OFF)
<1> DEFINE p == proc_hum_onoff(cf, at, proc_temp_onoff(cf, at, k, "temp"))
           j == proc_temp_hum_onoff(cf, at, k)
<1>1. /\ p \in Ctl /\ p.common = k.common
      /\ \A c \in Chan : p.sw[c] = Chosen(cf, at, k, c) /\ DoneOne(cf, p, k, c)
  BY BothAre
<1>2. j = BothEnabled(cf, p)
  BY Channels DEF proc_temp_hum_onoff, procTempHumOnOff
<1> HIDE DEF p, j
<1>3. \A c \in Chan : p.sw[c] = Decision(at, k, c) /\ p.sw[c] \in {ON, OFF}
  BY <1>1, DecisionType DEF Chosen
<1>4. p.decided = k.decided /\ \A c \in Chan : cf.repeat => p.timer[c] = k.timer[c]
  BY <1>1, Channels DEF DoneOne, SameSent
<1>5. Told(cf, k) => Told(cf, p)
  <2>1. ~cf.repeat => \A c \in Chan : p.timer[c] = FALSE
    BY <1>1 DEF DoneOne
  <2>2. SomeOn(p) = SomeOn(k) /\ AllOff(cf, p) = AllOff(cf, k)
    BY <1>1 DEF SomeOn, AllOff
  <2>3. cf.repeat \in BOOLEAN
    BY DEF Config
  <2> QED BY <1>4, <2>1, <2>2, <2>3, Channels DEF Told
<1>6. /\ j \in Ctl /\ j.sw = p.sw /\ j.common = p.sw
      /\ Told(cf, p) => Told(cf, j)
      /\ (\A c \in Chan : p.sw[c] = OFF) => j.decided = p.decided \/ AllTold(j, OFF)
      /\ (\A c \in Chan : p.sw[c] = OFF) /\ (\E c \in Chan : p.common[c] # OFF) => AllTold(j, OFF)
  BY <1>1, <1>2, <1>3, BothEnabledIs
<1>7. Decides(cf, at, j, k)
  BY <1>3, <1>6 DEF Decides
<1> QED BY <1>1, <1>3, <1>4, <1>5, <1>6, <1>7 DEF j

\* On one device either none, one or both of the channels are enabled.
LEMMA EnabledCases ==
  ASSUME NEW cf \in Config
  PROVE  \/ \A c \in Chan : ~cf.enabled[c]
         \/ \E c \in Chan : cf.enabled[c] /\ ~cf.enabled[Other(c)]
         \/ \A c \in Chan : cf.enabled[c]
BY Channels

\* The control decides for the enabled channels, and forgets the others.
LEMMA ProcDecides ==
  ASSUME NEW cf \in Config, NEW at \in Attr, NEW k \in Ctl, joined, ~bindIdle,
         oneDevice \in BOOLEAN
  PROVE  LET j == proc_temp_hum_onoff(cf, at, k)
         IN  j \in Ctl /\ Decides(cf, at, j, k) /\ (oneDevice => j.common = j.sw)
<1>1. CASE ~oneDevice
  BY <1>1, ProcApart
<1>2. CASE oneDevice /\ \A c \in Chan : ~cf.enabled[c]
  BY <1>2, ProcNone
<1>3. ASSUME oneDevice, NEW c \in Chan, cf.enabled[c], ~cf.enabled[Other(c)]
      PROVE  LET j == proc_temp_hum_onoff(cf, at, k)
             IN  j \in Ctl /\ Decides(cf, at, j, k) /\ (oneDevice => j.common = j.sw)
  BY <1>3, ProcOne
<1>4. CASE oneDevice /\ \A c \in Chan : cf.enabled[c]
  BY <1>4, ProcBoth
<1> QED BY <1>1, <1>2, <1>3, <1>4, EnabledCases

\* The control leaves the devices told what was decided, if they were before but
\* for what has been forgotten.
LEMMA ProcSent ==
  ASSUME NEW cf \in Config, NEW at \in Attr, NEW k \in Ctl, joined, ~bindIdle,
         oneDevice \in BOOLEAN,
         IF oneDevice THEN Together(cf, k) ELSE Apart(cf, k)
  PROVE  Sent(cf, proc_temp_hum_onoff(cf, at, k))
<1> DEFINE j == proc_temp_hum_onoff(cf, at, k)
<1>1. CASE ~oneDevice
  <2>1. Apart(cf, k)
    BY <1>1
  <2>2. j \in Ctl /\ Decides(cf, at, j, k) /\ \A c \in Chan : DoneApart(cf, j, k, c)
    BY <1>1, ProcApart
  <2> HIDE DEF j
  <2>3. ASSUME NEW c \in Chan, j.sw[c] # IDLE
        PROVE  j.decided[c] = j.sw[c] /\ j.relay[c] = j.sw[c] /\ (cf.repeat => j.timer[c])
    <3>1. cf.enabled[c]
      BY <2>2, <2>3 DEF Decides
    <3> QED BY <2>1, <2>2, <2>3, <3>1 DEF DoneApart, Apart
  <2> QED BY <1>1, <2>3 DEF Sent, Apart, j
<1>2. CASE oneDevice
  <2>0. k.common = k.sw /\ Told(cf, k) /\ IDLE # ON /\ IDLE # OFF /\ ON # OFF
    BY <1>2 DEF Together, IDLE, ON, OFF
  <2>1. AllDecided(cf, j)
    <3>1. \A c \in Chan : cf.enabled[c] => j.sw[c] \in {ON, OFF}
      BY <1>2, ProcDecides, DecisionType DEF Decides
    <3> QED BY <2>0, <3>1 DEF AllDecided
  <2>2. CASE \A c \in Chan : ~cf.enabled[c]
    <3>1. /\ j.common = j.sw
          /\ \A c \in Chan : j.sw[c] = IDLE /\ j.timer[c] = FALSE
      BY <1>2, <2>2, ProcNone
    <3> HIDE DEF j
    <3> QED BY <1>2, <2>0, <2>1, <3>1, Channels DEF Sent, Together, Told, SomeOn, AllOff, j
  <2>3. ASSUME NEW c \in Chan, cf.enabled[c], ~cf.enabled[Other(c)] PROVE Sent(cf, j)
    <3> DEFINE new == Decision(at, k, c)
               o == Other(c)
    <3>0. o \in Chan /\ o # c /\ \A d \in Chan : d = c \/ d = o
      BY Channels
    <3>1. new \in {ON, OFF} /\ OneLeaves(cf, j, k, c, new)
      BY <1>2, <2>3, ProcOne
    <3> USE DEF OneLeaves
    <3> HIDE DEF j, new
    <3>2. SomeOn(j) => AllTold(j, ON)
      <4> SUFFICES ASSUME SomeOn(j) PROVE AllTold(j, ON)
        OBVIOUS
      <4>1. new = ON
        BY <2>0, <3>0, <3>1 DEF SomeOn
      <4>2. CASE k.common[c] = ON
        <5>1. SomeOn(k)
          BY <4>2 DEF SomeOn
        <5> QED BY <2>0, <3>1, <4>1, <4>2, <5>1 DEF Told, AllTold
      <4> QED BY <3>1, <4>1, <4>2
    <3>3. AllOff(cf, j) => AllTold(j, OFF)
      <4> SUFFICES ASSUME AllOff(cf, j) PROVE AllTold(j, OFF)
        OBVIOUS
      <4>1. new = OFF
        BY <2>0, <2>3, <3>0, <3>1 DEF AllOff
      <4>2. CASE k.common[c] = OFF /\ k.sw[o] # ON
        <5>1. k.common[o] = OFF \/ k.common[o] = IDLE
          BY <2>0, <3>0, <4>2, Fields DEF Switch
        <5>2. AllOff(cf, k)
          BY <2>3, <3>0, <4>2, <5>1 DEF AllOff, o
        <5> QED BY <2>0, <3>1, <4>1, <4>2, <5>2 DEF Told, AllTold
      <4> QED BY <3>1, <4>1, <4>2
    <3>4. cf.repeat => \E d \in Chan : j.timer[d]
      BY <3>1
    <3>5. ~(j.timer["temp"] /\ j.timer["hum"])
      BY <3>0, <3>1, Channels
    <3>6. Told(cf, j)
      BY <3>2, <3>3, <3>4, <3>5 DEF Told, AllTold
    <3> QED BY <1>2, <2>1, <3>1, <3>6 DEF Sent, Together
  <2>4. CASE \A c \in Chan : cf.enabled[c]
    <3>1. j.common = j.sw /\ Told(cf, j)
      BY <1>2, <2>0, <2>4, ProcBoth
    <3> QED BY <1>2, <2>1, <3>1 DEF Sent, Together
  <2> QED BY <2>2, <2>3, <2>4, EnabledCases
<1> QED BY <1>1, <1>2

-----------------------------------------------------------------------------
(***************************************************************************)
(* What the devices were told stays in step with the decisions.            *)
(***************************************************************************)

\* A channel starts over.
LEMMA ResetIs ==
  ASSUME NEW k \in Ctl, NEW c \in Chan
  PROVE  LET j == reset_control(k, c)
         IN  /\ j \in Ctl /\ SameSent(j, k) /\ j.timer = k.timer
             /\ j.sw = [k.sw EXCEPT ![c] = IDLE] /\ j.common = [k.common EXCEPT ![c] = IDLE]
BY DEF reset_control, Ctl, Switch, SameSent

\* Both channels start over, ...
LEMMA ResetBothIs ==
  ASSUME NEW k \in Ctl
  PROVE  LET j == reset_control(reset_control(k, "temp"), "hum")
         IN  /\ j \in Ctl /\ SameSent(j, k) /\ j.timer = k.timer
             /\ \A c \in Chan : j.sw[c] = IDLE /\ j.common[c] = IDLE
<1> DEFINE a == reset_control(k, "temp")
           j == reset_control(a, "hum")
<1>0. "temp" \in Chan /\ "hum" \in Chan
  BY Channels
<1>1. /\ a \in Ctl /\ SameSent(a, k) /\ a.timer = k.timer
      /\ a.sw = [k.sw EXCEPT !["temp"] = IDLE] /\ a.common = [k.common EXCEPT !["temp"] = IDLE]
  BY <1>0, ResetIs
<1> HIDE DEF a
<1>2. /\ j \in Ctl /\ SameSent(j, a) /\ j.timer = a.timer
      /\ j.sw = [a.sw EXCEPT !["hum"] = IDLE] /\ j.common = [a.common EXCEPT !["hum"] = IDLE]
  BY <1>0, <1>1, ResetIs
<1> HIDE DEF j
<1>3. \A c \in Chan : j.sw[c] = IDLE /\ j.common[c] = IDLE
  BY <1>1, <1>2, Channels, Fields
<1> QED BY <1>1, <1>2, <1>3 DEF a, j, SameSent

\* ... and the timers are stopped.
LEMMA StopIs ==
  ASSUME NEW k \in Ctl
  PROVE  LET j == repeat_timer_stop(k)
         IN  /\ j \in Ctl /\ SameSent(j, k)
             /\ \A c \in Chan : j.sw[c] = IDLE /\ j.common[c] = IDLE /\ j.timer[c] = FALSE
<1> DEFINE a == Cancel(k, "temp")
           b == Cancel(a, "hum")
           j == reset_control(reset_control(b, "temp"), "hum")
<1>1. a \in Ctl /\ SameSent(a, k) /\ ~a.timer["temp"]
  BY CancelIs, Channels
<1> HIDE DEF a
<1>2. b \in Ctl /\ SameSent(b, a) /\ ~b.timer["hum"] /\ b.timer["temp"] = a.timer["temp"]
  BY <1>1, CancelIs, Channels
<1> HIDE DEF b
<1>3. /\ j \in Ctl /\ SameSent(j, b) /\ j.timer = b.timer
      /\ \A c \in Chan : j.sw[c] = IDLE /\ j.common[c] = IDLE
  BY <1>2, ResetBothIs
<1>4. repeat_timer_stop(k) = j
  BY DEF repeat_timer_stop, j, a, b
<1> HIDE DEF j
<1>5. \A c \in Chan : j.timer[c] = FALSE
  BY <1>1, <1>2, <1>3, Fields, Channels
<1> QED BY <1>1, <1>2, <1>3, <1>4, <1>5 DEF SameSent

\* A record changes one of: who is enabled, a threshold, the repetition.
LEMMA PreparedIs ==
  ASSUME NEW w \in Writable, NEW c \in Chan, NEW r \in Records(c)
  PROVE  LET v == Prepared(w, c, r)
         IN  \/ /\ v.ctl = w.ctl /\ v.config.repeat = w.config.repeat
                /\ r.field = "onoff" /\ r.value \in BOOLEAN
                /\ v.config.enabled = [w.config.enabled EXCEPT ![c] = r.value]
             \/ /\ v.ctl = reset_control(w.ctl, c) /\ v.config.repeat = w.config.repeat
                /\ r.field \in Threshold
                /\ v.config.enabled = w.config.enabled
             \/ /\ v.ctl = repeat_timer_stop(w.ctl)
                /\ r.field = "repeat"
                /\ v.config.enabled = w.config.enabled
<1> DEFINE v == Prepared(w, c, r)
<1>0. w.config \in Config /\ w.attr \in Attr /\ w.ctl \in Ctl
  BY DEF Writable
<1>1. CASE r.field = "onoff" /\ r.value \in BOOLEAN
  <2>1. v = [w EXCEPT !.config.enabled[c] = r.value]
    BY <1>1 DEF Prepared
  <2>2. /\ v.ctl = w.ctl /\ v.config.repeat = w.config.repeat
        /\ v.config.enabled = [w.config.enabled EXCEPT ![c] = r.value]
    BY <1>0, <2>1 DEF Writable, Config
  <2> QED BY <1>1, <2>2
<1>2. CASE r.field = "low" /\ r.value \in Int
  <2> DEFINE u == ChangeLow(w, c, r.value)
  <2>1. v = [u EXCEPT !.ctl = reset_control(@, c)]
    BY <1>2 DEF Prepared
  <2>2. /\ u \in Writable /\ u.ctl = w.ctl
        /\ u.config.enabled = w.config.enabled /\ u.config.repeat = w.config.repeat
    BY <1>0, <1>2, ChangeType DEF ChangeLow, Writable, Config
  <2> HIDE DEF u
  <2>3. v.ctl = reset_control(w.ctl, c) /\ v.config = u.config
    BY <2>1, <2>2 DEF Writable
  <2> QED BY <1>2, <2>2, <2>3 DEF Threshold
<1>3. CASE r.field = "high" /\ r.value \in Int
  <2> DEFINE u == ChangeHigh(w, c, r.value)
  <2>1. v = [u EXCEPT !.ctl = reset_control(@, c)]
    BY <1>3 DEF Prepared
  <2>2. /\ u \in Writable /\ u.ctl = w.ctl
        /\ u.config.enabled = w.config.enabled /\ u.config.repeat = w.config.repeat
    BY <1>0, <1>3, ChangeType DEF ChangeHigh, Writable, Config
  <2> HIDE DEF u
  <2>3. v.ctl = reset_control(w.ctl, c) /\ v.config = u.config
    BY <2>1, <2>2 DEF Writable
  <2> QED BY <1>3, <2>2, <2>3 DEF Threshold
<1>4. CASE r.field = "repeat" /\ r.value \in BOOLEAN
  <2>1. v = [w EXCEPT !.config.repeat = r.value, !.ctl = repeat_timer_stop(@)]
    BY <1>4 DEF Prepared
  <2>2. v.ctl = repeat_timer_stop(w.ctl) /\ v.config.enabled = w.config.enabled
    BY <1>0, <2>1 DEF Writable, Config
  <2> QED BY <1>4, <2>2
<1> QED BY <1>1, <1>2, <1>3, <1>4, RecordsType DEF Threshold

\* A record is prepared, and the control is run on the result.
LEMMA HandledIs ==
  ASSUME NEW w \in Writable, NEW c \in Chan, NEW r \in Records(c)
  PROVE  LET v == Prepared(w, c, r)
             h == HandleRecord(w, c, r)
         IN  /\ h.config = v.config
             /\ h.ctl = proc_temp_hum_onoff(v.config, v.attr, v.ctl)
             /\ v.config \in Config /\ v.attr \in Attr /\ v.ctl \in Ctl
             /\ v.ctl.decided = w.ctl.decided
<1> DEFINE v == Prepared(w, c, r)
           h == HandleRecord(w, c, r)
<1>1. v \in Writable /\ h = Process(v) /\ w.ctl \in Ctl
  BY PreparedType, HandlePrepared DEF Writable
<1>2. v.ctl = w.ctl \/ v.ctl = reset_control(w.ctl, c) \/ v.ctl = repeat_timer_stop(w.ctl)
  BY PreparedIs
<1> HIDE DEF v, h
<1>3. v.ctl.decided = w.ctl.decided
  <2>1. reset_control(w.ctl, c).decided = w.ctl.decided
    BY <1>1, ResetIs DEF SameSent
  <2>2. repeat_timer_stop(w.ctl).decided = w.ctl.decided
    BY <1>1, StopIs DEF SameSent
  <2> QED BY <1>2, <2>1, <2>2
<1>4. h.config = v.config /\ h.ctl = proc_temp_hum_onoff(v.config, v.attr, v.ctl)
  BY <1>1 DEF Process, Writable
<1> QED BY <1>1, <1>3, <1>4 DEF Writable, v, h

\* Where nothing is decided and no timer runs, nothing need have been told.
LEMMA UntouchedSent ==
  ASSUME NEW cf, NEW k \in Ctl, Quiet(k), Fresh(k)
  PROVE  Sent(cf, k)
<1>1. k.common = k.sw
  BY Fields DEF Quiet, Fresh
<1>2. IDLE # ON /\ IDLE # OFF
  BY DEF IDLE, ON, OFF
<1>3. Told(cf, k)
  BY <1>2, Channels DEF Quiet, Fresh, Told, SomeOn, AllOff
<1> QED BY <1>1, <1>3 DEF Sent, Together, AllDecided, Apart, Quiet

\* Before the control is run on a record's change, what the devices were told
\* agrees with the decisions that have not been forgotten.
LEMMA PreparedSent ==
  ASSUME NEW w \in Writable, NEW c \in Chan, NEW r \in Records(c),
         DecisionsFor(w.config, w.ctl), Sent(w.config, w.ctl), oneDevice \in BOOLEAN
  PROVE  LET v == Prepared(w, c, r)
         IN  IF oneDevice THEN Together(v.config, v.ctl) ELSE Apart(v.config, v.ctl)
<1> DEFINE v == Prepared(w, c, r)
           cf == w.config
           k == w.ctl
           i == v.config
           j == v.ctl
           reset == reset_control(k, c)
<1> SUFFICES IF oneDevice THEN Together(i, j) ELSE Apart(i, j)
  OBVIOUS
<1>0. /\ k \in Ctl /\ cf \in Config /\ v \in Writable /\ i \in Config /\ j \in Ctl
      /\ IDLE # ON /\ IDLE # OFF /\ ON # OFF /\ IDLE \in Switch
  BY PreparedType DEF Writable, IDLE, ON, OFF, Switch
<1>1. \/ /\ j = k /\ i.repeat = cf.repeat /\ r.value \in BOOLEAN
         /\ i.enabled = [cf.enabled EXCEPT ![c] = r.value]
      \/ j = reset /\ i.repeat = cf.repeat /\ i.enabled = cf.enabled
      \/ j = repeat_timer_stop(k) /\ i.enabled = cf.enabled
  BY PreparedIs
<1> HIDE DEF v, cf, k, i, j
<1>2. DecisionsFor(cf, k) /\ Sent(cf, k) /\ cf.enabled \in [Chan -> BOOLEAN]
  BY <1>0 DEF cf, k, Config
<1>3. CASE j = k /\ i.repeat = cf.repeat /\ i.enabled = [cf.enabled EXCEPT ![c] = r.value]
  <2>1. CASE ~oneDevice
    BY <1>2, <1>3, <2>1 DEF Sent, Apart
  <2>2. CASE oneDevice
    <3>1. k.common = k.sw /\ Told(cf, k) /\ AllDecided(cf, k)
      BY <1>2, <2>2 DEF Sent, Together
    <3>2. AllOff(i, j) => AllOff(cf, k)
      BY <1>0, <1>2, <1>3, <3>1 DEF AllOff, AllDecided, DecisionsFor
    <3>3. Told(i, j)
      BY <1>3, <3>1, <3>2 DEF Told, SomeOn
    <3> QED BY <1>3, <2>2, <3>1, <3>3 DEF Together
  <2> QED BY <2>1, <2>2
<1>4. CASE j = reset /\ i.repeat = cf.repeat /\ i.enabled = cf.enabled
  <2>1. /\ SameSent(j, k) /\ j.timer = k.timer
        /\ j.sw = [k.sw EXCEPT ![c] = IDLE] /\ j.common = [k.common EXCEPT ![c] = IDLE]
    BY <1>0, <1>4, ResetIs
  <2>2. CASE ~oneDevice
    BY <1>0, <1>2, <1>4, <2>1, <2>2, Fields DEF Sent, Apart, SameSent
  <2>3. CASE oneDevice
    <3>1. k.common = k.sw /\ Told(cf, k)
      BY <1>2, <2>3 DEF Sent, Together
    <3>2. AllOff(i, j) => AllOff(cf, k)
      BY <1>0, <1>2, <1>4, <2>1, <3>1, Fields DEF AllOff, DecisionsFor
    <3>3. SomeOn(j) => SomeOn(k)
      BY <1>0, <2>1, Fields DEF SomeOn
    <3>4. Told(i, j)
      BY <1>4, <2>1, <3>1, <3>2, <3>3 DEF Told, SameSent
    <3> QED BY <2>1, <2>3, <3>1, <3>4 DEF Together
  <2> QED BY <2>2, <2>3
<1>5. CASE j = repeat_timer_stop(k)
  <2>1. Quiet(j) /\ Fresh(j)
    BY <1>0, <1>5, StopIs DEF Quiet, Fresh
  <2>2. Sent(i, j)
    BY <1>0, <2>1, UntouchedSent
  <2> QED BY <2>2 DEF Sent
<1> QED BY <1>1, <1>3, <1>4, <1>5

\* Handling a record.
LEMMA HandleRecordSent ==
  ASSUME NEW w, Justified(w), Sent(w.config, w.ctl), bindIdle => Fresh(w.ctl),
         joined, bindIdle \in BOOLEAN, oneDevice \in BOOLEAN,
         NEW c \in Chan, NEW r \in Records(c)
  PROVE  LET h == HandleRecord(w, c, r)
         IN  Sent(h.config, h.ctl) /\ (bindIdle => Fresh(h.ctl))
<1> DEFINE v == Prepared(w, c, r)
           h == HandleRecord(w, c, r)
<1>1. v \in Writable /\ v.config \in Config /\ v.attr \in Attr /\ v.ctl \in Ctl /\ w \in Writable
      /\ w.ctl \in Ctl
  BY PreparedType DEF Justified, Writable
<1>2. h.config = v.config /\ h.ctl = proc_temp_hum_onoff(v.config, v.attr, v.ctl)
  <2>1. h = Process(v)
    BY HandlePrepared
  <2> QED BY <1>1, <2>1 DEF Process, Writable
<1>3. CASE ~bindIdle
  <2>1. IF oneDevice THEN Together(v.config, v.ctl) ELSE Apart(v.config, v.ctl)
    BY <1>1, PreparedSent DEF Justified
  <2> QED BY <1>1, <1>2, <1>3, <2>1, ProcSent
<1>4. CASE bindIdle
  <2>1. h.ctl = v.ctl
    BY <1>2, <1>4 DEF proc_temp_hum_onoff
  <2>2. v.ctl = w.ctl \/ v.ctl = reset_control(w.ctl, c) \/ v.ctl = repeat_timer_stop(w.ctl)
    BY <1>1, PreparedIs
  <2>3. Fresh(w.ctl)
    BY <1>4
  <2>4. Fresh(v.ctl)
    <3>1. CASE v.ctl = w.ctl
      BY <2>3, <3>1
    <3>2. CASE v.ctl = reset_control(w.ctl, c)
      <4>1. v.ctl.common = [w.ctl.common EXCEPT ![c] = IDLE]
        <5>1. reset_control(w.ctl, c).common = [w.ctl.common EXCEPT ![c] = IDLE]
          BY <1>1, ResetIs, Zenon
        <5> QED BY <3>2, <5>1
      <4>2. w.ctl.common \in [Chan -> Switch]
        BY <1>1, Fields DEF Justified
      <4> QED BY <2>3, <4>1, <4>2 DEF Fresh
    <3>3. CASE v.ctl = repeat_timer_stop(w.ctl)
      <4>1. \A d \in Chan : repeat_timer_stop(w.ctl).common[d] = IDLE
        BY <1>1, StopIs
      <4> QED BY <3>3, <4>1 DEF Fresh
    <3> QED BY <2>2, <3>1, <3>2, <3>3
  <2>5. Quiet(h.ctl)
    BY <1>4, HandleRecordJustified DEF Justified
  <2>6. Sent(h.config, h.ctl)
    BY <1>1, <2>1, <2>4, <2>5, UntouchedSent
  <2> QED BY <2>1, <2>4, <2>6
<1> QED BY <1>3, <1>4

\* Nothing is decided at the start.
LEMMA SentInit == Init => SentInv
<1> SUFFICES ASSUME Init PROVE SentInv
  OBVIOUS
<1>1. JustifiedInv
  BY JustifiedInit
<1>2. Quiet(ctl) /\ Fresh(ctl) /\ ctl \in Ctl
  BY <1>1 DEF JustifiedInv, TypeOK, Init, Initial, Quiet, Fresh
<1>3. Sent(config, ctl)
  BY <1>2, UntouchedSent
<1> QED BY <1>1, <1>2, <1>3 DEF SentInv

\* While the bindings stay, every action keeps the devices told.
LEMMA SentStep == ~Rebinding /\ SentInv /\ [Next]_vars => SentInv'
<1> SUFFICES ASSUME ~Rebinding, SentInv, [Next]_vars PROVE SentInv'
  OBVIOUS
<1>0. /\ JustifiedInv /\ JustifiedInv' /\ TypeOK /\ TypeOK'
      /\ Sent(config, ctl) /\ (bindIdle => Fresh(ctl))
      /\ config \in Config /\ attr \in Attr /\ ctl \in Ctl
      /\ config' \in Config /\ attr' \in Attr /\ ctl' \in Ctl
      /\ joined \in BOOLEAN /\ bindIdle \in BOOLEAN /\ oneDevice \in BOOLEAN
  BY JustifiedStep DEF SentInv, JustifiedInv, TypeOK
<1> DEFINE Goal == Sent(config, ctl)' /\ (bindIdle' => Fresh(ctl'))
<1> SUFFICES Goal
  BY <1>0 DEF SentInv, Fresh
<1>s. ASSUME oneDevice' = oneDevice, Sent(config', ctl') PROVE Sent(config, ctl)'
  BY <1>s DEF Sent, Together, AllDecided, Apart, Told, SomeOn, AllOff
<1>q. ASSUME Quiet(ctl'), Fresh(ctl') PROVE Goal
  <2>1. ctl'.common = ctl'.sw
    BY <1>0, <1>q, Fields DEF Quiet, Fresh
  <2>2. IDLE # ON /\ IDLE # OFF
    BY DEF IDLE, ON, OFF
  <2>3. Told(config, ctl)'
    BY <1>q, <2>2, Channels DEF Quiet, Fresh, Told, SomeOn, AllOff
  <2> QED BY <1>q, <2>1, <2>3 DEF Sent, Together, AllDecided, Apart, Quiet
<1>1. ASSUME NEW value, Measure(value) PROVE Goal
  <2>1. /\ config' = config /\ bindIdle' = bindIdle /\ oneDevice' = oneDevice
        /\ ctl' = proc_temp_hum_onoff(config, attr', ctl)
    BY <1>1 DEF Measure
  <2>2. CASE bindIdle \/ ~joined
    <3>1. ctl' = ctl
      BY <2>1, <2>2 DEF proc_temp_hum_onoff, procTempHumOnOff, proc_hum_onoff, proc_temp_onoff
    <3> QED BY <1>0, <1>s, <2>1, <3>1
  <2>3. CASE ~bindIdle /\ joined
    <3>1. IF oneDevice THEN Together(config, ctl) ELSE Apart(config, ctl)
      BY <1>0 DEF Sent
    <3>2. Sent(config, ctl')
      BY <1>0, <2>1, <2>3, <3>1, ProcSent
    <3> QED BY <1>s, <2>1, <2>3, <3>2
  <2> QED BY <1>0, <2>2, <2>3
<1>2. ASSUME NEW c \in Chan, NEW r \in Records(c), app_zclWriteReqCmd(c, r) PROVE Goal
  <2> DEFINE w == [config |-> config, attr |-> Store(attr, c, r), ctl |-> ctl]
  <2>1. Justified(w)
    BY <1>0, StoreType DEF Justified, Writable, TypeOK, JustifiedInv
  <2>2. w.config = config /\ w.ctl = ctl
    OBVIOUS
  <2> HIDE DEF w
  <2>3. /\ Sent(HandleRecord(w, c, r).config, HandleRecord(w, c, r).ctl)
        /\ bindIdle => Fresh(HandleRecord(w, c, r).ctl)
    BY <1>0, <1>2, <2>1, <2>2, HandleRecordSent DEF app_zclWriteReqCmd
  <2>4. /\ config' = HandleRecord(w, c, r).config /\ ctl' = HandleRecord(w, c, r).ctl
        /\ bindIdle' = bindIdle /\ oneDevice' = oneDevice
    BY <1>2 DEF app_zclWriteReqCmd, Become, w
  <2> QED BY <1>s, <2>3, <2>4
<1>3. ASSUME NEW c \in Chan, NEW r1 \in Records(c), NEW r2 \in Records(c),
             WriteTwoRecords(c, r1, r2)
      PROVE  Goal
  <2> DEFINE w == [config |-> config, ctl |-> ctl,
                   attr |-> Store(Store(attr, c, r1), c, r2)]
             u == HandleRecord(w, c, r1)
             h == HandleRecord(u, c, r2)
  <2>1. Justified(w) /\ w.config = config /\ w.ctl = ctl
    BY <1>0, StoreType DEF Justified, Writable, TypeOK, JustifiedInv
  <2>2. /\ config' = h.config /\ ctl' = h.ctl
        /\ bindIdle' = bindIdle /\ oneDevice' = oneDevice /\ joined
    BY <1>3 DEF WriteTwoRecords, Become
  <2> HIDE DEF w
  <2>3. Justified(u) /\ Sent(u.config, u.ctl) /\ (bindIdle => Fresh(u.ctl))
    BY <1>0, <2>1, <2>2, HandleRecordSent, HandleRecordJustified
  <2> HIDE DEF u
  <2>4. Sent(h.config, h.ctl) /\ (bindIdle => Fresh(h.ctl))
    BY <1>0, <2>2, <2>3, HandleRecordSent
  <2> QED BY <1>s, <2>2, <2>4
<1>4. ASSUME NEW c \in Chan, NEW a \in Actions[c], WriteSwitchAction(c, a) PROVE Goal
  <2>1. /\ config' = config /\ bindIdle' = bindIdle /\ oneDevice' = oneDevice
        /\ ctl' = reset_control(reset_control(ctl, "temp"), "hum")
    BY <1>4 DEF WriteSwitchAction
  <2>2. /\ SameSent(ctl', ctl) /\ ctl'.timer = ctl.timer
        /\ \A d \in Chan : ctl'.sw[d] = IDLE /\ ctl'.common[d] = IDLE
    BY <1>0, <2>1, ResetBothIs
  <2>3. ctl'.common = ctl'.sw
    BY <1>0, <2>2, Fields
  <2>4. IDLE # ON /\ IDLE # OFF
    BY DEF IDLE, ON, OFF
  <2>5. CASE ~oneDevice
    BY <2>1, <2>2, <2>5 DEF Sent, Apart, Fresh
  <2>6. CASE oneDevice
    <3>1. Told(config, ctl)
      BY <1>0, <2>6 DEF Sent, Together
    <3>2. ~(ctl'.timer["temp"] /\ ctl'.timer["hum"])
      BY <2>2, <3>1 DEF Told
    <3>3. ~SomeOn(ctl') /\ ~AllOff(config', ctl')
      BY <2>2, <2>4 DEF SomeOn, AllOff
    <3>4. Told(config', ctl')
      BY <3>2, <3>3 DEF Told
    <3>5. Sent(config', ctl')
      BY <2>2, <2>3, <2>6, <3>4 DEF Sent, Together, AllDecided
    <3> QED BY <1>s, <2>1, <2>2, <3>5 DEF Fresh
  <2> QED BY <1>0, <2>5, <2>6
<1>5. ASSUME NEW c \in Chan, cmd_repeatCb(c) PROVE Goal
  <2>1. config' = config /\ bindIdle' = bindIdle /\ oneDevice' = oneDevice /\ config.repeat \in BOOLEAN
    BY <1>0, <1>5 DEF cmd_repeatCb, Config
  <2>2. CASE ~config.repeat
    <3>1. ctl' = Cancel(ctl, c)
      BY <1>5, <2>1, <2>2 DEF cmd_repeatCb
    <3>2. /\ SameSent(ctl', ctl) /\ SameChoice(ctl', ctl)
          /\ ~ctl'.timer[c] /\ \A d \in Chan : d # c => ctl'.timer[d] = ctl.timer[d]
      BY <1>0, <3>1, CancelIs
    <3>3. Sent(config', ctl')
      BY <1>0, <2>1, <2>2, <3>2, Channels
      DEF Sent, Apart, Together, Told, SomeOn, AllOff, AllDecided, SameSent, SameChoice
    <3> QED BY <1>0, <1>s, <2>1, <3>2, <3>3 DEF SameChoice, Fresh
  <2>3. ASSUME NEW cmd \in {ON, OFF}, ctl' = Resend(ctl, c, cmd), ctl.sw[c] # IDLE => cmd = ctl.sw[c]
        PROVE  Goal
    <3>1. /\ ctl'.sw = ctl.sw /\ ctl'.common = ctl.common /\ ctl'.timer = ctl.timer
          /\ ctl'.decided = ctl.decided
          /\ ctl'.relay = [d \in Chan |-> IF d \in Reached(c) THEN cmd ELSE ctl.relay[d]]
      BY <1>0, <2>3 DEF Resend, Ctl
    <3>2. CASE oneDevice
      <4>1. Together(config, ctl) /\ AllDecided(config, ctl)
        BY <1>0, <3>2 DEF Sent
      <4>2. Together(config', ctl') /\ AllDecided(config', ctl')
        BY <2>1, <3>1, <4>1 DEF Together, Told, SomeOn, AllOff, AllDecided
      <4>3. Sent(config', ctl')
        BY <3>2, <4>2 DEF Sent
      <4> QED BY <1>0, <1>s, <2>1, <3>1, <4>3 DEF Fresh
    <3>3. CASE ~oneDevice
      <4>1. Apart(config, ctl)
        BY <1>0, <3>3 DEF Sent
      <4>2. Reached(c) = {c}
        BY <3>3, Zenon DEF Reached
      <4>3. Apart(config', ctl')
        BY <2>1, <2>3, <3>1, <4>1, <4>2 DEF Apart
      <4>4. Sent(config', ctl')
        BY <3>3, <4>3 DEF Sent
      <4> QED BY <1>0, <1>s, <2>1, <3>1, <4>4 DEF Fresh
    <3> QED BY <1>0, <3>2, <3>3
  <2>4. CASE config.repeat
    <3>0. ctl.sw[c] \in {IDLE, ON, OFF} /\ ON # OFF /\ IDLE # OFF
      BY <1>0, Fields DEF Switch, ON, OFF, IDLE
    <3>1. CASE RepeatsOn(ctl, c)
      <4>1. ctl' = Resend(ctl, c, ON)
        BY <1>5, <2>4, <3>1 DEF cmd_repeatCb, RepeatsOff, RepeatsOn
      <4>2. ctl.sw[c] # OFF
        BY <3>1 DEF RepeatsOn
      <4> QED BY <2>3, <3>0, <4>1, <4>2
    <3>2. CASE RepeatsOff(ctl, c)
      <4>1. ctl.sw[c] = OFF /\ ~RepeatsOn(ctl, c)
        BY <3>2 DEF RepeatsOn, RepeatsOff
      <4>2. ctl' = Resend(ctl, c, OFF)
        BY <1>5, <2>4, <3>2, <4>1 DEF cmd_repeatCb
      <4> QED BY <2>3, <4>1, <4>2
    <3>3. CASE ~RepeatsOn(ctl, c) /\ ~RepeatsOff(ctl, c)
      <4>1. ctl' = ctl
        BY <1>5, <2>4, <3>3 DEF cmd_repeatCb
      <4> QED BY <1>0, <1>s, <2>1, <4>1
    <3> QED BY <3>1, <3>2, <3>3
  <2> QED BY <2>1, <2>2, <2>4
<1>6. ASSUME NEW one \in InitialViews, app_update_bind_tbl(one) PROVE Goal
  <2>1. bindIdle /\ bindIdle' = FALSE
    BY <1>6 DEF app_update_bind_tbl
  <2>2. Quiet(ctl) /\ Fresh(ctl)
    BY <1>0, <2>1 DEF JustifiedInv
  <2>3. ctl'.sw = ctl.sw /\ ctl'.common = ctl.common /\ ctl'.timer = ctl.timer
    BY <1>0, <1>6 DEF app_update_bind_tbl, Ctl
  <2> QED BY <1>q, <2>2, <2>3 DEF Quiet, Fresh
<1>7. CASE Join
  BY <1>0, <1>s, <1>7 DEF Join
<1>8. CASE Leave
  BY <1>0, <1>s, <1>8 DEF Leave
<1>9. ASSUME NEW value, Reboot(value) PROVE Goal
  <2>1. Quiet(ctl') /\ Fresh(ctl')
    BY <1>9 DEF Reboot, Initial, Quiet, Fresh
  <2> QED BY <1>q, <2>1
<1>10. ASSUME NEW c \in Chan, NEW v \in Measured, WriteOffset(c, v) PROVE Goal
  BY <1>0, <1>s, <1>10 DEF WriteOffset
<1>11. CASE UNCHANGED vars
  BY <1>0, <1>s, <1>11 DEF vars
<1>12. ASSUME NEW c, NEW r, WriteUnchecked(c, r) PROVE Goal
  BY <1>0, <1>s, <1>12 DEF WriteUnchecked
<1>13. ASSUME NEW c, NEW a, WriteActionUnchecked(c, a) PROVE Goal
  BY <1>0, <1>s, <1>13 DEF WriteActionUnchecked
<1> QED
  BY <1>1, <1>2, <1>3, <1>4, <1>5, <1>6, <1>7, <1>8, <1>9, <1>10, <1>11, <1>12, <1>13
  DEF Next, Measuring

\* The invariant holds in every reachable state, while the bindings stay.
LEMMA SentAlways == ASSUME ~Rebinding PROVE Spec => []SentInv
<1>1. SentInv /\ [Next]_vars => SentInv'
  BY SentStep
<1> QED BY <1>1, SentInit, PTL DEF Spec

\* While the bindings stay as they are, the devices of a settled group were last
\* told On by a decision exactly if one of its channels decided On
\* (app_on_off.c:511-636).
THEOREM DecisionsAreSent == ASSUME ~Rebinding PROVE Spec => []DecisionSent
<1>1. SentInv => DecisionSent
  <2> SUFFICES ASSUME SentInv, NEW c \in Chan, Settled(c)
               PROVE  ctl.decided[c] = IF \E d \in Group(c) : ctl.sw[d] = ON THEN ON ELSE OFF
    BY DEF DecisionSent
  <2>0. /\ ctl \in Ctl /\ Sent(config, ctl) /\ DecisionsFor(config, ctl)
        /\ oneDevice \in BOOLEAN /\ ON # OFF /\ IDLE # ON /\ IDLE # OFF
        /\ \A d \in Chan : ctl.sw[d] \in {IDLE, ON, OFF}
    BY Fields DEF SentInv, JustifiedInv, TypeOK, Switch, ON, OFF, IDLE
  <2>1. config.enabled[c] /\ \A d \in Group(c) : ctl.sw[d] # IDLE
    BY DEF Settled
  <2>2. CASE ~oneDevice
    <3>1. Group(c) = {c}
      BY <2>2, Zenon DEF Group
    <3>2. Apart(config, ctl)
      BY <2>0, <2>2 DEF Sent
    <3> QED BY <2>0, <2>1, <3>1, <3>2 DEF Apart
  <2>3. CASE oneDevice
    <3>1. Group(c) = {d \in Chan : config.enabled[d]}
      BY <2>3, Zenon DEF Group
    <3>2. ctl.common = ctl.sw /\ Told(config, ctl)
      BY <2>0, <2>3 DEF Sent, Together
    <3>3. CASE \E d \in Group(c) : ctl.sw[d] = ON
      <4>1. SomeOn(ctl)
        BY <3>1, <3>2, <3>3 DEF SomeOn
      <4> QED BY <3>2, <3>3, <4>1 DEF Told
    <3>4. CASE ~\E d \in Group(c) : ctl.sw[d] = ON
      <4>1. AllOff(config, ctl)
        BY <2>0, <2>1, <3>1, <3>2, <3>4 DEF AllOff, DecisionsFor
      <4> QED BY <3>2, <3>4, <4>1 DEF Told
    <3> QED BY <3>3, <3>4
  <2> QED BY <2>0, <2>2, <2>3
<1> QED BY <1>1, SentAlways, PTL

\* With one device at most one timer repeats its commands, while the bindings
\* stay (app_on_off.c:580-635).
THEOREM RepeaterIsOne == ASSUME ~Rebinding PROVE Spec => []OneRepeater
<1>1. SentInv => OneRepeater
  BY DEF SentInv, Sent, Together, Told, OneRepeater
<1> QED BY <1>1, SentAlways, PTL

\* With the repetition enabled a settled group has a timer running, while the
\* bindings stay (app_on_off.c:540, 573, 617).
THEOREM RepeaterIsArmed == ASSUME ~Rebinding PROVE Spec => []RepeaterArmed
<1>1. SentInv => RepeaterArmed
  <2> SUFFICES ASSUME SentInv, NEW c \in Chan, Settled(c), config.repeat
               PROVE  \E d \in Group(c) : ctl.timer[d]
    BY DEF RepeaterArmed
  <2>0. /\ ctl \in Ctl /\ Sent(config, ctl) /\ DecisionsFor(config, ctl)
        /\ TimersFor(config, ctl)
        /\ oneDevice \in BOOLEAN /\ ON # OFF /\ IDLE # ON /\ IDLE # OFF
        /\ \A d \in Chan : ctl.sw[d] \in {IDLE, ON, OFF}
    BY Fields DEF SentInv, JustifiedInv, TypeOK, Switch, ON, OFF, IDLE
  <2>1. config.enabled[c] /\ \A d \in Group(c) : ctl.sw[d] # IDLE
    BY DEF Settled
  <2>2. CASE ~oneDevice
    <3>1. Group(c) = {c}
      BY <2>2, Zenon DEF Group
    <3>2. Apart(config, ctl)
      BY <2>0, <2>2 DEF Sent
    <3> QED BY <2>0, <2>1, <3>1, <3>2 DEF Apart
  <2>3. CASE oneDevice
    <3>1. Group(c) = {d \in Chan : config.enabled[d]}
      BY <2>3, Zenon DEF Group
    <3>2. ctl.common = ctl.sw /\ Told(config, ctl)
      BY <2>0, <2>3 DEF Sent, Together
    <3>3. SomeOn(ctl) \/ AllOff(config, ctl)
      BY <2>0, <2>1, <3>1, <3>2 DEF SomeOn, AllOff, DecisionsFor
    <3>4. \E d \in Chan : ctl.timer[d]
      BY <3>2, <3>3 DEF Told
    <3> QED BY <2>0, <3>1, <3>4 DEF TimersFor
  <2> QED BY <2>0, <2>2, <2>3
<1> QED BY <1>1, SentAlways, PTL

-----------------------------------------------------------------------------
(***************************************************************************)
(* What a repeat may add to what was decided.                              *)
(***************************************************************************)

\* A timer runs only after a command has been decided, and the only thing a
\* repeat can change is an Off to an On.
Repeats(k) ==
  \A c \in Chan :
    /\ k.timer[c] => k.decided[c] # Unknown
    /\ k.relay[c] = k.decided[c] \/ (k.decided[c] = OFF /\ k.relay[c] = ON)

\* The invariant: with a device of its own this holds of a channel.
RepeatInv == SentInv /\ (~oneDevice => Repeats(ctl))

\* Fewer timers and nothing sent leave it.
LEMMA RepeatsKept ==
  ASSUME NEW j \in Ctl, NEW k \in Ctl, Repeats(k), SameSent(j, k),
         \A c \in Chan : j.timer[c] => k.timer[c]
  PROVE  Repeats(j)
BY DEF Repeats, SameSent

\* The control leaves it, whatever it decides.
LEMMA ProcRepeats ==
  ASSUME NEW cf \in Config, NEW at \in Attr, NEW k \in Ctl, joined, ~bindIdle, ~oneDevice,
         TimersFor(cf, proc_temp_hum_onoff(cf, at, k)), Repeats(k)
  PROVE  Repeats(proc_temp_hum_onoff(cf, at, k))
<1> DEFINE j == proc_temp_hum_onoff(cf, at, k)
<1>1. Decides(cf, at, j, k) /\ \A c \in Chan : DoneApart(cf, j, k, c)
  BY ProcApart
<1>2. TimersFor(cf, j)
  OBVIOUS
<1> HIDE DEF j
<1> SUFFICES ASSUME NEW c \in Chan
             PROVE  /\ j.timer[c] => j.decided[c] # Unknown
                    /\ j.relay[c] = j.decided[c] \/ (j.decided[c] = OFF /\ j.relay[c] = ON)
  BY DEF Repeats, j
<1>3. /\ j.timer[c] => cf.enabled[c] /\ cf.repeat
      /\ k.timer[c] => k.decided[c] # Unknown
      /\ k.relay[c] = k.decided[c] \/ (k.decided[c] = OFF /\ k.relay[c] = ON)
  BY <1>2 DEF TimersFor, Repeats
<1>4. CASE cf.enabled[c] /\ j.sw[c] = k.sw[c]
  BY <1>1, <1>3, <1>4 DEF DoneApart
<1>5. CASE cf.enabled[c] /\ j.sw[c] # k.sw[c]
  <2>1. j.sw[c] \in {ON, OFF}
    BY <1>1, <1>5, DecisionType DEF Decides
  <2> QED BY <1>1, <1>5, <2>1 DEF DoneApart, ON, OFF, Unknown
<1>6. CASE ~cf.enabled[c]
  BY <1>1, <1>3, <1>6 DEF DoneApart
<1> QED BY <1>4, <1>5, <1>6

\* Handling a record leaves it.
LEMMA HandleRecordRepeats ==
  ASSUME NEW w, Justified(w), ~oneDevice, Repeats(w.ctl),
         joined, bindIdle \in BOOLEAN, oneDevice \in BOOLEAN,
         NEW c \in Chan, NEW r \in Records(c)
  PROVE  Repeats(HandleRecord(w, c, r).ctl)
<1> DEFINE v == Prepared(w, c, r)
           h == HandleRecord(w, c, r)
<1>1. /\ v.config \in Config /\ v.attr \in Attr /\ v.ctl \in Ctl
      /\ w \in Writable /\ w.ctl \in Ctl
      /\ h.config = v.config /\ h.ctl = proc_temp_hum_onoff(v.config, v.attr, v.ctl)
  BY HandledIs DEF Justified, Writable
<1>2. TimersFor(h.config, h.ctl)
  BY HandleRecordJustified DEF Justified
<1>3. v.ctl = w.ctl \/ v.ctl = reset_control(w.ctl, c) \/ v.ctl = repeat_timer_stop(w.ctl)
  BY <1>1, PreparedIs
<1> HIDE DEF v, h
<1>4. SameSent(v.ctl, w.ctl) /\ \A d \in Chan : v.ctl.timer[d] => w.ctl.timer[d]
  <2>1. CASE v.ctl = w.ctl
    BY <2>1 DEF SameSent
  <2>2. CASE v.ctl = reset_control(w.ctl, c)
    <3>1. SameSent(reset_control(w.ctl, c), w.ctl) /\ reset_control(w.ctl, c).timer = w.ctl.timer
      BY <1>1, ResetIs, Zenon
    <3> QED BY <2>2, <3>1
  <2>3. CASE v.ctl = repeat_timer_stop(w.ctl)
    <3>1. /\ SameSent(repeat_timer_stop(w.ctl), w.ctl)
          /\ \A d \in Chan : repeat_timer_stop(w.ctl).timer[d] = FALSE
      BY <1>1, StopIs
    <3> QED BY <2>3, <3>1
  <2> QED BY <1>3, <2>1, <2>2, <2>3
<1>5. Repeats(v.ctl)
  BY <1>1, <1>4, RepeatsKept
<1>6. CASE bindIdle
  BY <1>1, <1>5, <1>6 DEF proc_temp_hum_onoff, h
<1>7. CASE ~bindIdle
  BY <1>1, <1>2, <1>5, <1>7, ProcRepeats DEF h
<1> QED BY <1>6, <1>7

\* Nothing has been sent at the start.
LEMMA RepeatInit == Init => RepeatInv
<1>1. Init => Repeats(ctl)
  BY DEF Init, Initial, Repeats
<1> QED BY <1>1, SentInit DEF RepeatInv

\* While the bindings stay, every action preserves it.
LEMMA RepeatStep == ~Rebinding /\ RepeatInv /\ [Next]_vars => RepeatInv'
<1> SUFFICES ASSUME ~Rebinding, RepeatInv, [Next]_vars PROVE RepeatInv'
  OBVIOUS
<1>0. /\ SentInv /\ SentInv' /\ JustifiedInv /\ JustifiedInv'
      /\ config \in Config /\ attr \in Attr /\ ctl \in Ctl
      /\ attr' \in Attr /\ ctl' \in Ctl
      /\ joined \in BOOLEAN /\ bindIdle \in BOOLEAN /\ oneDevice \in BOOLEAN
  BY SentStep DEF RepeatInv, SentInv, JustifiedInv, TypeOK
<1> SUFFICES ASSUME ~oneDevice' PROVE Repeats(ctl')
  BY <1>0 DEF RepeatInv, Repeats
<1>r. ~oneDevice => Repeats(ctl)
  BY DEF RepeatInv
<1>s. ASSUME oneDevice' = oneDevice, SameSent(ctl', ctl), ctl'.timer = ctl.timer
      PROVE  Repeats(ctl')
  BY <1>0, <1>r, <1>s, RepeatsKept
<1>1. ASSUME NEW value, Measure(value) PROVE Repeats(ctl')
  <2>1. /\ config' = config /\ oneDevice' = oneDevice
        /\ ctl' = proc_temp_hum_onoff(config, attr', ctl)
    BY <1>1 DEF Measure
  <2>2. CASE bindIdle \/ ~joined
    <3>1. ctl' = ctl
      BY <2>1, <2>2 DEF proc_temp_hum_onoff, procTempHumOnOff, proc_hum_onoff, proc_temp_onoff
    <3> QED BY <1>s, <2>1, <3>1 DEF SameSent
  <2>3. CASE ~bindIdle /\ joined
    <3>1. TimersFor(config, ctl')
      BY <1>0, <2>1 DEF JustifiedInv, TimersFor
    <3> QED BY <1>0, <1>r, <2>1, <2>3, <3>1, ProcRepeats
  <2> QED BY <1>0, <2>2, <2>3
<1>2. ASSUME NEW c \in Chan, NEW r \in Records(c), app_zclWriteReqCmd(c, r)
      PROVE  Repeats(ctl')
  <2> DEFINE w == [config |-> config, attr |-> Store(attr, c, r), ctl |-> ctl]
  <2>1. Justified(w) /\ w.ctl = ctl
    BY <1>0, StoreType DEF Justified, Writable, TypeOK, JustifiedInv
  <2>2. ctl' = HandleRecord(w, c, r).ctl /\ oneDevice' = oneDevice /\ joined
    BY <1>2 DEF app_zclWriteReqCmd, Become
  <2> HIDE DEF w
  <2> QED BY <1>0, <1>r, <2>1, <2>2, HandleRecordRepeats
<1>3. ASSUME NEW c \in Chan, NEW r1 \in Records(c), NEW r2 \in Records(c),
             WriteTwoRecords(c, r1, r2)
      PROVE  Repeats(ctl')
  <2> DEFINE w == [config |-> config, ctl |-> ctl,
                   attr |-> Store(Store(attr, c, r1), c, r2)]
             u == HandleRecord(w, c, r1)
  <2>1. Justified(w) /\ w.ctl = ctl
    BY <1>0, StoreType DEF Justified, Writable, TypeOK, JustifiedInv
  <2>2. ctl' = HandleRecord(u, c, r2).ctl /\ oneDevice' = oneDevice /\ joined
    BY <1>3 DEF WriteTwoRecords, Become
  <2> HIDE DEF w
  <2>3. Justified(u) /\ Repeats(u.ctl)
    BY <1>0, <1>r, <2>1, <2>2, HandleRecordRepeats, HandleRecordJustified
  <2> HIDE DEF u
  <2> QED BY <1>0, <2>2, <2>3, HandleRecordRepeats
<1>4. ASSUME NEW c \in Chan, NEW a \in Actions[c], WriteSwitchAction(c, a) PROVE Repeats(ctl')
  <2>1. oneDevice' = oneDevice /\ ctl' = reset_control(reset_control(ctl, "temp"), "hum")
    BY <1>4 DEF WriteSwitchAction
  <2>2. SameSent(ctl', ctl) /\ ctl'.timer = ctl.timer
    BY <1>0, <2>1, ResetBothIs
  <2> QED BY <1>s, <2>1, <2>2
<1>5. ASSUME NEW c \in Chan, cmd_repeatCb(c) PROVE Repeats(ctl')
  <2>1. oneDevice' = oneDevice /\ ctl.timer[c] /\ ~oneDevice /\ config.repeat \in BOOLEAN
    BY <1>0, <1>5 DEF cmd_repeatCb, Config
  <2>2. /\ Repeats(ctl) /\ Apart(config, ctl) /\ ctl.sw[c] \in {IDLE, ON, OFF}
        /\ ctl.decided[c] \in {Unknown, ON, OFF}
        /\ ON # OFF /\ IDLE # OFF
    BY <1>0, <1>r, <2>1, Fields DEF SentInv, Sent, Switch, Command, ON, OFF, IDLE
  <2>3. ASSUME NEW cmd \in {ON, OFF}, ctl' = Resend(ctl, c, cmd),
               cmd = OFF <=> ctl.sw[c] = OFF
        PROVE  Repeats(ctl')
    <3>1. Reached(c) = {c}
      BY <2>1, Zenon DEF Reached
    <3>2. /\ ctl'.timer = ctl.timer /\ ctl'.decided = ctl.decided
          /\ ctl'.relay = [d \in Chan |-> IF d \in Reached(c) THEN cmd ELSE ctl.relay[d]]
      BY <1>0, <2>3 DEF Resend, Ctl
    <3>3. /\ ctl'.relay[c] = cmd
          /\ \A d \in Chan : d # c => ctl'.relay[d] = ctl.relay[d]
      BY <3>1, <3>2
    <3>4. cmd = ctl.decided[c] \/ (ctl.decided[c] = OFF /\ cmd = ON)
      <4>1. ctl.sw[c] # IDLE => ctl.decided[c] = ctl.sw[c]
        BY <2>2 DEF Apart
      <4>2. ctl.decided[c] # Unknown
        BY <2>1, <2>2 DEF Repeats
      <4> QED BY <2>2, <2>3, <4>1, <4>2
    <3> QED BY <2>2, <3>2, <3>3, <3>4 DEF Repeats
  <2>4. CASE ~config.repeat
    <3>1. ctl' = Cancel(ctl, c)
      BY <1>5, <2>1, <2>4 DEF cmd_repeatCb
    <3>2. /\ SameSent(ctl', ctl)
          /\ ~ctl'.timer[c] /\ \A d \in Chan : d # c => ctl'.timer[d] = ctl.timer[d]
      BY <1>0, <3>1, CancelIs
    <3>3. \A d \in Chan : ctl'.timer[d] => ctl.timer[d]
      BY <3>2
    <3> QED BY <1>0, <2>2, <3>2, <3>3, RepeatsKept
  <2>5. CASE config.repeat
    <3>1. CASE RepeatsOn(ctl, c)
      <4>1. ctl' = Resend(ctl, c, ON) /\ ctl.sw[c] # OFF
        BY <1>5, <2>5, <3>1 DEF cmd_repeatCb, RepeatsOff, RepeatsOn
      <4> QED BY <2>2, <2>3, <4>1
    <3>2. CASE RepeatsOff(ctl, c)
      <4>1. ctl' = Resend(ctl, c, OFF) /\ ctl.sw[c] = OFF
        BY <1>5, <2>5, <3>2 DEF cmd_repeatCb, RepeatsOff, RepeatsOn
      <4> QED BY <2>2, <2>3, <4>1
    <3>3. CASE ~RepeatsOn(ctl, c) /\ ~RepeatsOff(ctl, c)
      <4>1. ctl' = ctl
        BY <1>5, <2>5, <3>3 DEF cmd_repeatCb
      <4> QED BY <1>s, <2>1, <4>1 DEF SameSent
    <3> QED BY <3>1, <3>2, <3>3
  <2> QED BY <2>1, <2>4, <2>5
<1>6. ASSUME NEW one \in InitialViews, app_update_bind_tbl(one) PROVE Repeats(ctl')
  <2>1. bindIdle
    BY <1>6 DEF app_update_bind_tbl
  <2>2. \A c \in Chan : ~ctl.timer[c]
    BY <1>0, <2>1 DEF JustifiedInv, Quiet
  <2>3. /\ ctl'.timer = ctl.timer
        /\ \A c \in Chan : ctl'.decided[c] = Unknown /\ ctl'.relay[c] = Unknown
    BY <1>0, <1>6 DEF app_update_bind_tbl, Ctl
  <2> QED BY <2>2, <2>3 DEF Repeats
<1>7. CASE Join
  BY <1>s, <1>7 DEF Join, SameSent
<1>8. CASE Leave
  BY <1>s, <1>8 DEF Leave, SameSent
<1>9. ASSUME NEW value, Reboot(value) PROVE Repeats(ctl')
  BY <1>9 DEF Reboot, Initial, Repeats
<1>10. ASSUME NEW c \in Chan, NEW v \in Measured, WriteOffset(c, v) PROVE Repeats(ctl')
  BY <1>s, <1>10 DEF WriteOffset, SameSent
<1>11. CASE UNCHANGED vars
  BY <1>s, <1>11 DEF vars, SameSent
<1>12. ASSUME NEW c, NEW r, WriteUnchecked(c, r) PROVE Repeats(ctl')
  BY <1>s, <1>12 DEF WriteUnchecked, SameSent
<1>13. ASSUME NEW c, NEW a, WriteActionUnchecked(c, a) PROVE Repeats(ctl')
  BY <1>s, <1>13 DEF WriteActionUnchecked, SameSent
<1> QED
  BY <1>1, <1>2, <1>3, <1>4, <1>5, <1>6, <1>7, <1>8, <1>9, <1>10, <1>11, <1>12, <1>13
  DEF Next, Measuring

\* The invariant holds in every reachable state, while the bindings stay.
LEMMA RepeatAlways == ASSUME ~Rebinding PROVE Spec => []RepeatInv
<1>1. RepeatInv /\ [Next]_vars => RepeatInv'
  BY RepeatStep
<1> QED BY <1>1, RepeatInit, PTL DEF Spec

\* While the bindings stay, the devices of a channel with a device of its own
\* were last sent what it decided; the one exception is an On repeated after a
\* decided Off, when a rewritten switch action has made the channel forget its
\* decision (app_on_off.c:157-170, zcl_appCb.c:322-330).
THEOREM RepeatsAgree == ASSUME ~Rebinding PROVE Spec => []RepeatAgreesApart
<1>1. RepeatInv => RepeatAgreesApart
  <2> SUFFICES ASSUME RepeatInv, NEW c \in Chan, ~oneDevice, ctl.relay[c] # ctl.decided[c]
               PROVE  ctl.sw[c] = IDLE /\ ctl.decided[c] = OFF /\ ctl.relay[c] = ON
    BY DEF RepeatAgreesApart
  <2>1. Apart(config, ctl) /\ Repeats(ctl)
    BY DEF RepeatInv, SentInv, Sent
  <2> QED BY <2>1 DEF Apart, Repeats
<1> QED BY <1>1, RepeatAlways, PTL

\* The next measurement of an enabled channel ends that exception: what its
\* devices were last sent is then what it decided (app_on_off.c:278-296).
THEOREM RepeatsArePutRight == ASSUME ~Rebinding PROVE Spec => RepeatIsPutRight
<1> DEFINE Step == Measuring /\ joined /\ ~bindIdle /\ ~oneDevice =>
                     \A c \in Chan : config.enabled[c] => ctl'.relay[c] = ctl'.decided[c]
<1>1. SentInv /\ [Next]_vars => [Step]_vars
  <2> SUFFICES ASSUME SentInv, [Next]_vars, NEW value, Measure(value),
                      joined, ~bindIdle, ~oneDevice, NEW c \in Chan, config.enabled[c]
               PROVE  ctl'.relay[c] = ctl'.decided[c]
    BY DEF Measuring
  <2>1. /\ config \in Config /\ attr' \in Attr /\ ctl \in Ctl
        /\ ctl' = proc_temp_hum_onoff(config, attr', ctl)
        /\ Apart(config, ctl)
    BY TypeStep DEF SentInv, Sent, JustifiedInv, TypeOK, Measure
  <2>2. Decides(config, attr', ctl', ctl) /\ DoneApart(config, ctl', ctl, c)
    BY <2>1, ProcApart
  <2>3. ctl'.sw[c] \in {ON, OFF} /\ ON # IDLE /\ OFF # IDLE
    BY <2>1, <2>2, DecisionType DEF Decides, ON, OFF, IDLE
  <2> QED BY <2>1, <2>2, <2>3 DEF DoneApart, Apart
<1>2. Spec => []SentInv
  BY SentAlways
<1> QED BY <1>1, <1>2, PTL DEF Spec, RepeatIsPutRight

-----------------------------------------------------------------------------
(***************************************************************************)
(* Running the control twice on the same measurement.                      *)
(***************************************************************************)

\* With ordered thresholds a decision stands when it is taken again.
LEMMA DecisionStands ==
  ASSUME NEW at \in Attr, NEW j \in Ctl, NEW k \in Ctl, NEW c \in Chan,
         at.low[c] < at.high[c], k.sw[c] = Decision(at, j, c)
  PROVE  Decision(at, k, c) = k.sw[c]
<1>1. at.value[c] \in Int /\ at.low[c] \in Int /\ at.high[c] \in Int
  BY DEF Attr
<1>2. ~(AtHigh(at, c) /\ AtLow(at, c))
  BY <1>1 DEF AtHigh, AtLow
<1>3. ON # OFF /\ IDLE # ON /\ IDLE # OFF
  BY DEF ON, OFF, IDLE
<1>4. ~(WantsOn(at, c) /\ WantsOff(at, c))
  BY <1>2 DEF WantsOn, WantsOff
<1>5. Startup(at, c) = ON => ~WantsOff(at, c)
  BY <1>3 DEF Startup, WantsOff
<1>6. Startup(at, c) = OFF => ~WantsOn(at, c)
  BY <1>2, <1>3 DEF Startup, WantsOn
<1>7. k.sw[c] \in {ON, OFF}
  BY DecisionType
<1>8. Startup(at, c) \in {ON, OFF}
  BY DEF Startup
<1>9. CASE k.sw[c] = ON
  <2>1. ~WantsOff(at, c)
    BY <1>3, <1>4, <1>5, <1>9 DEF Decision
  <2> QED BY <1>3, <1>9, <2>1 DEF Decision
<1>10. CASE k.sw[c] = OFF
  <2>1. ~WantsOn(at, c)
    BY <1>3, <1>4, <1>6, <1>10 DEF Decision
  <2> QED BY <1>3, <1>10, <2>1 DEF Decision
<1> QED BY <1>7, <1>9, <1>10

\* The decisions stand, and the timers and decisions are justified.
Stands(cf, at, k) ==
  \A c \in Chan : /\ k.timer[c] => cf.enabled[c] /\ cf.repeat
                  /\ cf.enabled[c] => Decision(at, k, c) = k.sw[c]
                  /\ ~cf.enabled[c] => k.sw[c] = IDLE

\* Then a channel's procedure changes nothing.
LEMMA ChannelStands ==
  ASSUME NEW cf \in Config, NEW at \in Attr, NEW k \in Ctl, NEW c \in Chan, Stands(cf, at, k)
  PROVE  proc_temp_onoff(cf, at, k, c) = k
<1>0. ~k.timer[c] => Cancel(k, c) = k
  BY CancelIs
<1>1. CASE cf.enabled[c]
  <2>1. Decision(at, k, c) = k.sw[c] /\ (k.timer[c] => cf.repeat)
    BY <1>1 DEF Stands
  <2>2. Decided(cf, at, k, c) = k
    BY <1>0, <2>1 DEF Decided
  <2> QED BY <1>1, <2>2 DEF proc_temp_onoff
<1>2. CASE ~cf.enabled[c]
  <2>1. ~k.timer[c] /\ k.sw[c] = IDLE /\ IDLE # ON
    BY <1>2 DEF Stands, IDLE, ON
  <2>2. [k EXCEPT !.sw[c] = IDLE] = k
    BY <2>1 DEF Ctl
  <2>3. Disabled(k, c) = k
    BY <1>0, <2>1, <2>2 DEF Disabled
  <2> QED BY <1>2, <2>3 DEF proc_temp_onoff
<1> QED BY <1>1, <1>2

\* With no channel enabled nothing is left to do, ...
LEMMA NoneStands ==
  ASSUME NEW k \in Ctl, k.common = k.sw,
         \A c \in Chan : k.sw[c] = IDLE /\ ~k.timer[c]
  PROVE  NoneEnabled(k) = k
<1>1. "temp" \in Chan /\ "hum" \in Chan /\ IDLE # ON
  BY Channels DEF IDLE, ON
<1>2. Cancel(k, "temp") = k /\ Cancel(k, "hum") = k
  BY <1>1, CancelIs
<1>3. [c \in Chan |-> IDLE] = k.sw
  BY Fields
<1>4. [k EXCEPT !.sw = [c \in Chan |-> IDLE], !.common = [c \in Chan |-> IDLE]] = k
  <2>1. [k EXCEPT !.sw = k.sw, !.common = k.sw] = k
    BY DEF Ctl
  <2> QED BY <1>3, <2>1
<1>5. ~\E c \in Chan : k.sw[c] = ON
  BY <1>1
<1> QED BY <1>2, <1>4, <1>5 DEF NoneEnabled

\* ... with one its timer runs if it should.
LEMMA OneStands ==
  ASSUME NEW cf \in Config, NEW k \in Ctl, NEW c \in Chan, k.common = k.sw,
         k.sw[Other(c)] = IDLE, ~k.timer[Other(c)], k.timer[c] = cf.repeat
  PROVE  OneEnabled(cf, k, c) = k
<1> DEFINE o == Other(c)
<1>0. o \in Chan /\ IDLE # ON
  BY Channels DEF IDLE, ON
<1>1. Cancel(k, o) = k
  BY <1>0, CancelIs
<1>2. [k EXCEPT !.sw[o] = IDLE, !.common[o] = IDLE] = k
  BY <1>0 DEF Ctl
<1>3. ~k.timer[c] => Restart(cf, k, c) = k
  BY RestartIs
<1>4. k.common[c] = k.sw[c]
  OBVIOUS
<1> QED BY <1>0, <1>1, <1>2, <1>3, <1>4 DEF OneEnabled

\* The control changes nothing where its decisions stand.
LEMMA ProcStands ==
  ASSUME NEW cf \in Config, NEW at \in Attr, NEW k \in Ctl, joined, ~bindIdle,
         oneDevice \in BOOLEAN, Stands(cf, at, k),
         oneDevice => k.common = k.sw,
         \A c \in Chan : oneDevice /\ cf.enabled[c] /\ ~cf.enabled[Other(c)] =>
                           k.timer[c] = cf.repeat
  PROVE  proc_temp_hum_onoff(cf, at, k) = k
<1>0. "temp" \in Chan /\ "hum" \in Chan /\ Other("temp") = "hum" /\ Other("hum") = "temp"
  BY Channels
<1>1. proc_hum_onoff(cf, at, proc_temp_onoff(cf, at, k, "temp")) = k
  BY <1>0, ChannelStands DEF proc_hum_onoff
<1>2. CASE ~oneDevice
  BY <1>1, <1>2 DEF proc_temp_hum_onoff
<1>3. CASE oneDevice
  <2>0. proc_temp_hum_onoff(cf, at, k) = procTempHumOnOff(cf, at, k) /\ k.common = k.sw
    BY <1>3 DEF proc_temp_hum_onoff
  <2>1. CASE ~cf.enabled["temp"] /\ ~cf.enabled["hum"]
    <3>1. NoneEnabled(k) = k
      BY <2>0, <2>1, Channels, NoneStands DEF Stands
    <3> QED BY <1>1, <2>0, <2>1, <3>1 DEF procTempHumOnOff
  <2>2. CASE ~cf.enabled["temp"] /\ cf.enabled["hum"]
    <3>1. OneEnabled(cf, k, "hum") = k
      BY <1>0, <1>3, <2>0, <2>2, OneStands DEF Stands
    <3> QED BY <1>1, <2>0, <2>2, <3>1 DEF procTempHumOnOff
  <2>3. CASE cf.enabled["temp"] /\ ~cf.enabled["hum"]
    <3>1. OneEnabled(cf, k, "temp") = k
      BY <1>0, <1>3, <2>0, <2>3, OneStands DEF Stands
    <3> QED BY <1>1, <2>0, <2>3, <3>1 DEF procTempHumOnOff
  <2>4. CASE cf.enabled["temp"] /\ cf.enabled["hum"]
    <3>1. \A c \in Chan : k.sw[c] \in {ON, OFF}
      BY <2>4, Channels, DecisionType DEF Stands
    <3>2. BothEnabled(cf, k) = k
      BY <1>3, <2>0, <3>1, BothEnabledIs
    <3> QED BY <1>1, <2>0, <2>4, <3>2 DEF procTempHumOnOff
  <2> QED BY <1>0, <2>1, <2>2, <2>3, <2>4 DEF Config
<1> QED BY <1>2, <1>3

\* Processing the same measurement again sends nothing and touches no timer, as
\* long as the thresholds in the attributes are ordered
\* (app_on_off.c:238-332, 477-641).
THEOREM ProcIsIdempotent == Spec => []ProcIdempotent
<1>1. TypeOK => ProcIdempotent
  <2> SUFFICES ASSUME TypeOK, \A c \in Chan : attr.low[c] < attr.high[c]
               PROVE  LET once == Unsaid(proc_temp_hum_onoff(config, attr, ctl))
                      IN  proc_temp_hum_onoff(config, attr, once) = once
    BY DEF ProcIdempotent
  <2> DEFINE j == proc_temp_hum_onoff(config, attr, ctl)
             once == Unsaid(j)
  <2>0. /\ config \in Config /\ attr \in Attr /\ ctl \in Ctl
        /\ joined \in BOOLEAN /\ bindIdle \in BOOLEAN /\ oneDevice \in BOOLEAN
    BY DEF TypeOK
  <2>1. CASE bindIdle \/ ~joined
    <3>1. \A k : proc_temp_hum_onoff(config, attr, k) = k
      BY <2>0, <2>1
      DEF proc_temp_hum_onoff, procTempHumOnOff, proc_hum_onoff, proc_temp_onoff
    <3> QED BY <3>1
  <2>2. CASE ~bindIdle /\ joined
    <3>1. /\ j \in Ctl /\ Decides(config, attr, j, ctl) /\ (oneDevice => j.common = j.sw)
          /\ TimersFor(config, j)
      BY <2>0, <2>2, ProcDecides, ProcJustified
    <3>2. \A c \in Chan : oneDevice /\ config.enabled[c] /\ ~config.enabled[Other(c)] =>
                            j.timer[c] = config.repeat
      <4> SUFFICES ASSUME NEW c \in Chan, oneDevice, config.enabled[c], ~config.enabled[Other(c)]
                   PROVE  j.timer[c] = config.repeat
        OBVIOUS
      <4>1. OneLeaves(config, j, ctl, c, Decision(attr, ctl, c))
        BY <2>0, <2>2, ProcOne
      <4> QED BY <4>1 DEF OneLeaves
    <3> HIDE DEF j
    <3>3. /\ once \in Ctl /\ once.sw = j.sw /\ once.common = j.common /\ once.timer = j.timer
      BY <3>1 DEF Unsaid, Ctl, Command
    <3> HIDE DEF once
    <3>4. Stands(config, attr, once)
      <4> SUFFICES ASSUME NEW c \in Chan
                   PROVE  /\ once.timer[c] => config.enabled[c] /\ config.repeat
                          /\ config.enabled[c] => Decision(attr, once, c) = once.sw[c]
                          /\ ~config.enabled[c] => once.sw[c] = IDLE
        BY DEF Stands
      <4>1. once.timer[c] => config.enabled[c] /\ config.repeat
        BY <3>1, <3>3 DEF TimersFor
      <4>2. ASSUME config.enabled[c] PROVE Decision(attr, once, c) = once.sw[c]
        <5>1. once.sw[c] = Decision(attr, ctl, c)
          BY <3>1, <3>3, <4>2 DEF Decides
        <5> QED BY <2>0, <3>3, <5>1, DecisionStands
      <4>3. ~config.enabled[c] => once.sw[c] = IDLE
        BY <3>1, <3>3 DEF Decides
      <4> QED BY <4>1, <4>2, <4>3
    <3>5. proc_temp_hum_onoff(config, attr, once) = once
      BY <2>0, <2>2, <3>1, <3>2, <3>3, <3>4, ProcStands
    <3> QED BY <3>5 DEF once, j
  <2> QED BY <2>0, <2>1, <2>2
<1> QED BY <1>1, TypeCorrect, PTL

-----------------------------------------------------------------------------
(***************************************************************************)
(* What a measurement and a request do to a decision.                      *)
(***************************************************************************)

\* A measurement makes a channel change its mind only past the threshold that
\* calls for it (app_on_off.c:238-332).
THEOREM Banded == Spec => Hysteresis
<1> DEFINE Step == Measuring =>
                     \A c \in Chan :
                       {ctl.sw[c], ctl'.sw[c]} = {ON, OFF} =>
                         IF ctl'.sw[c] = ON THEN WantsOn(attr', c) ELSE WantsOff(attr', c)
<1>1. TypeOK /\ [Next]_vars => [Step]_vars
  <2> SUFFICES ASSUME TypeOK, [Next]_vars, NEW value, Measure(value), NEW c \in Chan,
                      {ctl.sw[c], ctl'.sw[c]} = {ON, OFF}
               PROVE  IF ctl'.sw[c] = ON THEN WantsOn(attr', c) ELSE WantsOff(attr', c)
    BY DEF Measuring
  <2>0. /\ config \in Config /\ attr' \in Attr /\ ctl \in Ctl
        /\ joined \in BOOLEAN /\ bindIdle \in BOOLEAN /\ oneDevice \in BOOLEAN
        /\ ctl' = proc_temp_hum_onoff(config, attr', ctl)
    BY TypeStep DEF TypeOK, Measure
  <2>1. ON # OFF /\ IDLE # ON /\ IDLE # OFF
    BY DEF ON, OFF, IDLE
  <2>2. CASE bindIdle \/ ~joined
    <3>1. ctl' = ctl
      BY <2>0, <2>2
      DEF proc_temp_hum_onoff, procTempHumOnOff, proc_hum_onoff, proc_temp_onoff
    <3> QED BY <2>1, <3>1
  <2>3. CASE ~bindIdle /\ joined
    <3>1. ctl'.sw[c] = IF config.enabled[c] THEN Decision(attr', ctl, c) ELSE IDLE
      BY <2>0, <2>3, ProcDecides DEF Decides
    <3>2. \/ ctl.sw[c] = ON /\ ctl'.sw[c] = OFF
          \/ ctl.sw[c] = OFF /\ ctl'.sw[c] = ON
      BY <2>1
    <3>3. ctl'.sw[c] = Decision(attr', ctl, c)
      BY <2>1, <3>1, <3>2
    <3> QED BY <2>1, <3>2, <3>3 DEF Decision
  <2> QED BY <2>0, <2>2, <2>3
<1> QED BY <1>1, TypeCorrect, PTL DEF Spec, Hysteresis

\* Why c's devices are Off, or will be once c is disabled and no other channel
\* wants them On.
Due(cf, k, c) ==
  \/ k.decided[c] = OFF
  \/ k.sw[c] = ON
  \/ oneDevice /\ cf.enabled[Other(c)] /\ k.common[Other(c)] # OFF

\* The control run with c disabled switches c's devices off, ...
LEMMA Releases ==
  ASSUME NEW cf \in Config, NEW at \in Attr, NEW k \in Ctl, NEW c \in Chan,
         joined, ~bindIdle, oneDevice \in BOOLEAN, ~cf.enabled[c], Due(cf, k, c),
         ~ (oneDevice /\ proc_temp_hum_onoff(cf, at, k).sw[Other(c)] = ON)
  PROVE  proc_temp_hum_onoff(cf, at, k).decided[c] = OFF
<1> DEFINE j == proc_temp_hum_onoff(cf, at, k)
           o == Other(c)
<1>0. /\ o \in Chan /\ o # c /\ Other(o) = c /\ \A d \in Chan : d = c \/ d = o
      /\ ON # OFF
  BY Channels DEF ON, OFF
<1>1. CASE ~oneDevice
  <2>1. DoneApart(cf, j, k, c)
    BY <1>1, ProcApart
  <2> QED BY <1>1, <2>1 DEF DoneApart, Due
<1>2. CASE oneDevice /\ ~cf.enabled[o]
  <2>1. /\ (\E d \in Chan : k.sw[d] = ON) => AllTold(j, OFF)
        /\ (\A d \in Chan : k.sw[d] # ON) => j.decided = k.decided
    BY <1>0, <1>2, ProcNone
  <2>2. k.sw[c] = ON \/ k.decided[c] = OFF
    BY <1>2 DEF Due
  <2> QED BY <2>1, <2>2 DEF AllTold
<1>3. CASE oneDevice /\ cf.enabled[o]
  <2> DEFINE new == Decision(at, k, o)
  <2>1. OneLeaves(cf, j, k, o, new) /\ new \in {ON, OFF}
    BY <1>0, <1>3, ProcOne
  <2> HIDE DEF j, new
  <2>2. new = OFF
    BY <1>3, <2>1 DEF OneLeaves, j
  <2>3. AllTold(j, OFF) \/ (j.decided = k.decided /\ k.common[o] = OFF /\ k.sw[c] # ON)
    BY <1>0, <2>1, <2>2 DEF OneLeaves
  <2>4. AllTold(j, OFF) \/ (j.decided = k.decided /\ k.decided[c] = OFF)
    BY <2>3 DEF Due
  <2> QED BY <2>4 DEF AllTold, j
<1> QED BY <1>1, <1>2, <1>3

\* ... or has a reason left to do so later: the other channel keeps them On.
LEMMA DueKept ==
  ASSUME NEW cf \in Config, NEW at \in Attr, NEW k \in Ctl, NEW c \in Chan,
         joined, ~bindIdle, oneDevice \in BOOLEAN, ~cf.enabled[c], Due(cf, k, c)
  PROVE  LET j == proc_temp_hum_onoff(cf, at, k)
         IN  j.sw[c] = IDLE /\ Due(cf, j, c)
<1> DEFINE j == proc_temp_hum_onoff(cf, at, k)
           o == Other(c)
<1>1. /\ j.sw[c] = IDLE /\ (j.sw[o] = ON => cf.enabled[o])
      /\ oneDevice => j.common = j.sw
  BY ProcDecides, Channels DEF Decides, IDLE, ON
<1>2. CASE oneDevice /\ j.sw[o] = ON
  <2>1. j.common[o] # OFF /\ cf.enabled[o]
    BY <1>1, <1>2 DEF ON, OFF
  <2> QED BY <1>1, <1>2, <2>1 DEF Due
<1>3. CASE ~(oneDevice /\ j.sw[o] = ON)
  <2>1. j.decided[c] = OFF
    BY <1>3, Releases
  <2> QED BY <1>1, <2>1 DEF Due
<1> QED BY <1>2, <1>3

\* A channel that has just started over and decides again leaves such a reason.
LEMMA DueAnew ==
  ASSUME NEW cf \in Config, NEW at \in Attr, NEW k \in Ctl, NEW c \in Chan,
         joined, ~bindIdle, oneDevice \in BOOLEAN, cf.enabled[c],
         k.sw[c] = IDLE, k.common[c] = IDLE
  PROVE  Due(cf, proc_temp_hum_onoff(cf, at, k), c)
<1> DEFINE j == proc_temp_hum_onoff(cf, at, k)
           o == Other(c)
<1>0. /\ o \in Chan /\ o # c /\ Other(o) = c /\ \A d \in Chan : d = c \/ d = o
      /\ ON # OFF /\ IDLE # OFF
  BY Channels DEF ON, OFF, IDLE
<1>1. j.sw[c] \in {ON, OFF} /\ (oneDevice => j.common = j.sw)
  BY ProcDecides, DecisionType DEF Decides
<1>2. CASE j.sw[c] = ON
  BY <1>2 DEF Due
<1>3. CASE j.sw[c] = OFF /\ ~oneDevice
  <2>1. DoneApart(cf, j, k, c)
    BY <1>3, ProcApart
  <2>2. j.decided[c] = OFF
    BY <1>0, <1>3, <2>1 DEF DoneApart
  <2> QED BY <2>2 DEF Due
<1>4. CASE j.sw[c] = OFF /\ oneDevice /\ ~cf.enabled[o]
  <2>1. OneLeaves(cf, j, k, c, Decision(at, k, c))
    BY <1>4, ProcOne
  <2>2. AllTold(j, OFF)
    BY <1>0, <1>4, <2>1 DEF OneLeaves
  <2> QED BY <2>2 DEF Due, AllTold
<1>5. CASE j.sw[c] = OFF /\ oneDevice /\ cf.enabled[o]
  <2>1. CASE j.sw[o] = OFF
    <3>1. \A d \in Chan : cf.enabled[d] /\ j.sw[d] = OFF
      BY <1>0, <1>5, <2>1
    <3>2. \E d \in Chan : k.common[d] # OFF
      BY <1>0
    <3>3. AllTold(j, OFF)
      BY <1>5, <3>1, <3>2, ProcBoth
    <3> QED BY <3>3 DEF Due, AllTold
  <2>2. CASE j.sw[o] # OFF
    BY <1>1, <1>5, <2>2 DEF Due
  <2> QED BY <2>1, <2>2
<1> QED BY <1>1, <1>2, <1>3, <1>4, <1>5

\* A record enables or disables no channel but the one it is written to.
LEMMA RecordEnables ==
  ASSUME NEW w \in Writable, NEW d \in Chan, NEW r \in Records(d), NEW c \in Chan, d # c
  PROVE  HandleRecord(w, d, r).config.enabled[c] = w.config.enabled[c]
<1> DEFINE v == Prepared(w, d, r)
<1>1. HandleRecord(w, d, r).config = v.config /\ w.config.enabled \in [Chan -> BOOLEAN]
  BY HandledIs DEF Writable, Config
<1>2. \/ v.config.enabled = w.config.enabled
      \/ v.config.enabled = [w.config.enabled EXCEPT ![d] = r.value]
  BY PreparedIs
<1> HIDE DEF v
<1> QED BY <1>1, <1>2

\* A request with one record ...
LEMMA OneReleases ==
  ASSUME NEW w \in Writable, NEW c \in Chan, NEW r \in Records(c),
         joined, ~bindIdle, oneDevice \in BOOLEAN,
         w.ctl.sw[c] = ON, w.config.enabled[c],
         ~HandleRecord(w, c, r).config.enabled[c],
         ~ (oneDevice /\ HandleRecord(w, c, r).ctl.sw[Other(c)] = ON)
  PROVE  HandleRecord(w, c, r).ctl.decided[c] = OFF
<1> DEFINE v == Prepared(w, c, r)
<1>1. /\ ~v.config.enabled[c]
      /\ HandleRecord(w, c, r).ctl = proc_temp_hum_onoff(v.config, v.attr, v.ctl)
      /\ v.config \in Config /\ v.attr \in Attr /\ v.ctl \in Ctl
  BY HandledIs
<1>2. v.ctl = w.ctl
  BY <1>1, PreparedIs
<1> HIDE DEF v
<1>3. Due(v.config, v.ctl, c)
  BY <1>2 DEF Due
<1> QED BY <1>1, <1>3, Releases

\* ... and one with two.
LEMMA TwoRelease ==
  ASSUME NEW w \in Writable, NEW c \in Chan, NEW r1 \in Records(c), NEW r2 \in Records(c),
         joined, ~bindIdle, oneDevice \in BOOLEAN, ~(r1.field = "onoff" /\ r1.value),
         w.ctl.sw[c] = ON, w.config.enabled[c],
         ~HandleRecord(HandleRecord(w, c, r1), c, r2).config.enabled[c],
         ~ (oneDevice /\ HandleRecord(HandleRecord(w, c, r1), c, r2).ctl.sw[Other(c)] = ON)
  PROVE  HandleRecord(HandleRecord(w, c, r1), c, r2).ctl.decided[c] = OFF
<1> DEFINE u == HandleRecord(w, c, r1)
           h == HandleRecord(u, c, r2)
           v1 == Prepared(w, c, r1)
           v2 == Prepared(u, c, r2)
           o == Other(c)
<1>0. o \in Chan /\ o # c /\ IDLE # ON /\ IDLE # OFF
  BY Channels DEF IDLE, ON, OFF
<1>1. /\ u.config = v1.config
      /\ u.ctl = proc_temp_hum_onoff(v1.config, v1.attr, v1.ctl)
      /\ v1.config \in Config /\ v1.attr \in Attr /\ v1.ctl \in Ctl
  BY HandledIs
<1>2. u \in Writable /\ u.config \in Config /\ u.ctl \in Ctl /\ w.ctl \in Ctl /\ w.config \in Config
  BY HandleRecordType DEF Writable
<1>3. \/ /\ v1.ctl = w.ctl /\ r1.field = "onoff"
         /\ v1.config.enabled = [w.config.enabled EXCEPT ![c] = r1.value]
      \/ /\ v1.ctl = reset_control(w.ctl, c) \/ v1.ctl = repeat_timer_stop(w.ctl)
         /\ r1.field # "onoff"
         /\ v1.config.enabled = w.config.enabled
  BY PreparedIs DEF Threshold
<1> HIDE DEF u
<1>4. /\ h.config = v2.config
      /\ h.ctl = proc_temp_hum_onoff(v2.config, v2.attr, v2.ctl)
      /\ v2.config \in Config /\ v2.attr \in Attr /\ v2.ctl \in Ctl
      /\ v2.ctl.decided = u.ctl.decided
  BY <1>2, HandledIs
<1>5. \/ /\ v2.ctl = u.ctl /\ r2.field = "onoff"
         /\ v2.config.enabled = [u.config.enabled EXCEPT ![c] = r2.value]
      \/ /\ v2.ctl = reset_control(u.ctl, c) \/ v2.ctl = repeat_timer_stop(u.ctl)
         /\ r2.field # "onoff"
         /\ v2.config.enabled = u.config.enabled
  BY <1>2, PreparedIs DEF Threshold
<1>6. ~v2.config.enabled[c]
  BY <1>4 DEF h, u
<1> HIDE DEF v1, v2
<1>7. Due(v2.config, v2.ctl, c)
  <2>1. CASE r1.field = "onoff"
    <3>0. w.config.enabled \in [Chan -> BOOLEAN] /\ u.config.enabled \in [Chan -> BOOLEAN]
      BY <1>2 DEF Config
    <3>1. v1.ctl = w.ctl /\ ~v1.config.enabled[c]
      BY <1>3, <2>1, <3>0
    <3>2. Due(v1.config, v1.ctl, c)
      BY <3>1 DEF Due
    <3>6. /\ \/ v2.ctl = u.ctl
             \/ v2.ctl = reset_control(u.ctl, c)
             \/ v2.ctl = repeat_timer_stop(u.ctl)
          /\ v2.config.enabled[o] = u.config.enabled[o]
      BY <1>0, <1>5, <3>0
    <3>3. u.ctl.sw[c] = IDLE /\ Due(v1.config, u.ctl, c)
      BY <1>1, <3>1, <3>2, DueKept
    <3>4. v2.ctl.common[o] = u.ctl.common[o] \/ v2.ctl.common[o] = IDLE
      <4>1. reset_control(u.ctl, c).common = [u.ctl.common EXCEPT ![c] = IDLE]
        BY <1>2, ResetIs
      <4>2. repeat_timer_stop(u.ctl).common[o] = IDLE
        BY <1>0, <1>2, StopIs
      <4>3. [u.ctl.common EXCEPT ![c] = IDLE][o] = u.ctl.common[o]
        BY <1>0, <1>2, Fields
      <4> QED BY <3>6, <4>1, <4>2, <4>3
    <3> QED BY <1>0, <1>1, <1>4, <3>3, <3>4, <3>6 DEF Due
  <2>2. CASE r1.field # "onoff"
    <3>1. /\ v1.ctl = reset_control(w.ctl, c) \/ v1.ctl = repeat_timer_stop(w.ctl)
          /\ v1.config.enabled = w.config.enabled
      BY <1>3, <2>2
    <3>2. v1.ctl.sw[c] = IDLE /\ v1.ctl.common[c] = IDLE
      <4>1. /\ reset_control(w.ctl, c).sw = [w.ctl.sw EXCEPT ![c] = IDLE]
            /\ reset_control(w.ctl, c).common = [w.ctl.common EXCEPT ![c] = IDLE]
        BY <1>2, ResetIs
      <4>2. repeat_timer_stop(w.ctl).sw[c] = IDLE /\ repeat_timer_stop(w.ctl).common[c] = IDLE
        BY <1>2, StopIs
      <4>3. [w.ctl.sw EXCEPT ![c] = IDLE][c] = IDLE /\ [w.ctl.common EXCEPT ![c] = IDLE][c] = IDLE
        BY <1>2, Fields
      <4> QED BY <3>1, <4>1, <4>2, <4>3
    <3>3. v1.config.enabled[c] /\ Due(v1.config, u.ctl, c)
      BY <1>1, <3>1, <3>2, DueAnew
    <3>4. /\ v2.ctl = u.ctl
          /\ v2.config.enabled = [u.config.enabled EXCEPT ![c] = r2.value]
      BY <1>1, <1>5, <1>6, <3>3
    <3>5. u.config.enabled \in [Chan -> BOOLEAN]
      BY <1>2 DEF Config
    <3> QED BY <1>0, <1>1, <3>3, <3>4, <3>5 DEF Due
  <2> QED BY <2>1, <2>2
<1>8. ~ (oneDevice /\ proc_temp_hum_onoff(v2.config, v2.attr, v2.ctl).sw[o] = ON)
  BY <1>4 DEF h, u, o
<1>9. h.ctl.decided[c] = OFF
  BY <1>4, <1>6, <1>7, <1>8, Releases
<1> QED BY <1>9 DEF h, u

\* Disabling a channel that is On switches its devices off, unless another
\* channel of the group wants them On (app_on_off.c:256, 502, 516, 549), or the
\* same request enabled it first.
THEOREM DisablingReleases == Spec => DisableReleases
<1> DEFINE Step == \A c \in Chan :
                     /\ config.enabled[c] /\ ~config'.enabled[c]
                     /\ ctl.sw[c] = ON
                     /\ ~(oneDevice /\ ctl'.sw[Other(c)] = ON)
                     /\ ctl'.decided[c] # OFF
                     => EnablesFirst(c)
<1>1. JustifiedInv /\ [Next]_vars => [Step]_vars
  <2> SUFFICES ASSUME JustifiedInv, Next, NEW c \in Chan,
                      config.enabled[c], ~config'.enabled[c], ctl.sw[c] = ON,
                      ~ (oneDevice /\ ctl'.sw[Other(c)] = ON), ~EnablesFirst(c)
               PROVE  ctl'.decided[c] = OFF
    OBVIOUS
  <2>0. /\ config \in Config /\ attr \in Attr /\ ctl \in Ctl
        /\ oneDevice \in BOOLEAN /\ joined \in BOOLEAN /\ ~bindIdle
    BY DEF JustifiedInv, TypeOK, Quiet, IDLE, ON
  <2>1. ASSUME NEW d \in Chan, NEW r \in Records(d), app_zclWriteReqCmd(d, r)
        PROVE  ctl'.decided[c] = OFF
    <3> DEFINE w == [config |-> config, attr |-> Store(attr, d, r), ctl |-> ctl]
               h == HandleRecord(w, d, r)
    <3>1. w \in Writable /\ w.config = config /\ w.ctl = ctl
      BY <2>0, StoreType DEF Writable
    <3>2. config' = h.config /\ ctl' = h.ctl /\ joined
      BY <2>1 DEF app_zclWriteReqCmd, Become
    <3> HIDE DEF w
    <3>3. d = c
      BY <2>0, <3>1, <3>2, RecordEnables
    <3> QED BY <2>0, <3>1, <3>2, <3>3, OneReleases
  <2>2. ASSUME NEW d \in Chan, NEW r1 \in Records(d), NEW r2 \in Records(d),
               WriteTwoRecords(d, r1, r2)
        PROVE  ctl'.decided[c] = OFF
    <3> DEFINE w == [config |-> config, ctl |-> ctl,
                     attr |-> Store(Store(attr, d, r1), d, r2)]
               u == HandleRecord(w, d, r1)
               h == HandleRecord(u, d, r2)
    <3>1. w \in Writable /\ w.config = config /\ w.ctl = ctl
      BY <2>0, StoreType DEF Writable
    <3>2. config' = h.config /\ ctl' = h.ctl /\ joined
      BY <2>2 DEF WriteTwoRecords, Become
    <3> HIDE DEF w
    <3>3. u \in Writable
      BY <2>0, <3>1, HandleRecordType
    <3>4. d # c => u.config.enabled[c] = config.enabled[c]
      BY <3>1, RecordEnables
    <3>5. d # c => h.config.enabled[c] = u.config.enabled[c]
      BY <3>3, RecordEnables
    <3>6. d = c
      BY <3>2, <3>4, <3>5
    <3>7. ~(r1.field = "onoff" /\ r1.value)
      BY <2>2, <3>6 DEF EnablesFirst
    <3> QED BY <2>0, <3>1, <3>2, <3>6, <3>7, TwoRelease
  <2>3. CASE config' = config
    BY <2>3
  <2>4. CASE Measuring
    BY <2>3, <2>4 DEF Measuring, Measure
  <2>5. ASSUME NEW d \in Chan, NEW a \in Actions[d], WriteSwitchAction(d, a) PROVE config' = config
    BY <2>5 DEF WriteSwitchAction
  <2>6. ASSUME NEW d \in Chan, NEW v \in Measured, WriteOffset(d, v) PROVE config' = config
    BY <2>6 DEF WriteOffset
  <2>7. ASSUME NEW d \in Chan, cmd_repeatCb(d) PROVE config' = config
    BY <2>7 DEF cmd_repeatCb
  <2>8. ASSUME NEW one \in InitialViews, app_update_bind_tbl(one) PROVE config' = config
    BY <2>8 DEF app_update_bind_tbl
  <2>9. Join \/ Leave => config' = config
    BY DEF Join, Leave
  <2>10. ASSUME NEW value \in FirstReading, Reboot(value) PROVE config' = config
    BY <2>10 DEF Reboot
  <2>11. ASSUME NEW d, NEW r, WriteUnchecked(d, r) PROVE config' = config
    BY <2>11 DEF WriteUnchecked
  <2>12. ASSUME NEW d, NEW a, WriteActionUnchecked(d, a) PROVE config' = config
    BY <2>12 DEF WriteActionUnchecked
  <2> QED
    BY <2>1, <2>2, <2>3, <2>4, <2>5, <2>6, <2>7, <2>8, <2>9, <2>10, <2>11, <2>12 DEF Next
<1> QED BY <1>1, JustifiedAlways, PTL DEF Spec, DisableReleases
=============================================================================
