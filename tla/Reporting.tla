----------------------------- MODULE Reporting -----------------------------
(***************************************************************************)
(* Attribute reporting (src/src/zigbee/zcl/zcl_reporting.c).  An entry of  *)
(* the reporting table has a minimum and a maximum interval, a reportable  *)
(* change, two counters and at most one timer, which counts the one or the *)
(* other interval.  app_task polls the entries: a change stops a maximum   *)
(* timer and starts a minimum timer.  A timer that expires is subtracted   *)
(* from both counters and starts the common reporting timer, which sends   *)
(* the entries one of whose counters is 0.                                 *)
(*                                                                         *)
(* Time passes in ticks of one second; the 100 ms of the reporting timer   *)
(* and a turn of the main loop fall between two ticks.                     *)
(***************************************************************************)
EXTENDS Integers

CONSTANTS
  Entries,    \* the entries of the table in use
  Default,    \* [Entries -> record]: bdb_defaultReportingCfg in user_init
  Requests,   \* [Entries -> set of records] a Configure Reporting may carry
  Values,     \* [Entries -> what the attribute can measure]
  Unmeasured, \* [Entries -> the attribute before the first measurement]
  Erased,     \* [Entries -> the value whose bytes are all 0xFF]
  MaxCalls    \* bound: requests, (un)bindings, interruptions and reboots

Never == 65535      \* 0xFFFF

Setting == [min : 0..(Never - 1), max : 0..Never, change : Nat]

\* zcl_configureReporting refuses any other setting.  Returning to the default
\* (minimum 0xFFFF, maximum 0) is an action of its own.
Acceptable(s) == s.max \in {0, Never} \/ s.min <= s.max

ASSUME SettingsAssumption ==
  /\ Default \in [Entries -> Setting]
  /\ \A e \in Entries : Acceptable(Default[e])
  /\ Requests \in [Entries -> SUBSET Setting]
ASSUME ValuesAssumption ==
  /\ Values \in [Entries -> SUBSET Int]
  /\ Unmeasured \in [Entries -> Int]
  /\ Erased \in [Entries -> Int]
  /\ MaxCalls \in Nat

VARIABLES
  value,    \* the attributes
  bound,    \* zb_bindingTblSearched(cluster, endpoint) of an entry
  entry,    \* reportingTab.reportCfgInfo and reportTimer
  nv,       \* the counters in the saved table, and whether there is one
  due,      \* the reporting timer runs
  active,   \* the device is joined and the commissioning is idle
  polled,   \* app_task has run since something happened
  measured, \* the sensor has been read in this second
  calls,    \* counts to MaxCalls
  sent      \* history: what was last reported, the time since then or since
            \* something interfered with the entry (age), and which of them
            \* it was (steady: a report)

vars == <<value, bound, entry, nv, due, active, polled, measured, calls, sent>>

NoTimer == [kind |-> "none", secs |-> 0, left |-> 0]

Timer == [kind : {"none", "min", "max"}, secs : Nat, left : Nat]
Entry == [min : Nat, max : Nat, change : Nat, minCnt : Nat, maxCnt : Nat,
          prev : Int, timer : Timer]

TypeOK ==
  /\ value \in [Entries -> Int]
  /\ bound \in [Entries -> BOOLEAN]
  /\ entry \in [Entries -> Entry]
  /\ nv \in [stored : BOOLEAN, cnt : [Entries -> [min : Nat, max : Nat]]]
  /\ due \in BOOLEAN /\ active \in BOOLEAN
  /\ polled \in BOOLEAN /\ measured \in BOOLEAN
  /\ calls \in 0..MaxCalls
  /\ sent \in [Entries -> [last : Int, age : Nat, steady : BOOLEAN]]

-----------------------------------------------------------------------------
(***************************************************************************)
(* One entry r, its attribute's value v, and b: it has a binding.          *)
(***************************************************************************)

\* used, maxInterval # 0xFFFF and bound
Maintained(r, b) == b /\ r.max # Never

Start(r, kind, s) == [r EXCEPT !.timer = [kind |-> kind, secs |-> s, left |-> s]]
Stop(r) == [r EXCEPT !.timer = NoTimer]

Distance(x, y) == IF x >= y THEN x - y ELSE y - x

\* reportableChangeValueChk
Changed(r, v) == v # r.prev /\ Distance(v, r.prev) >= r.change

\* Is a change to be sent without waiting for the minimum interval?
AtOnce(r) == r.min = 0 \/ r.max = 0

\* Mutant: a running maximum timer is kept when the value changes.
OnChange_KeepsMax(r, v) ==
  LET seen == [r EXCEPT !.prev = v]
  IN  IF AtOnce(r) THEN [Stop(seen) EXCEPT !.minCnt = 0]
      ELSE IF r.timer.kind = "none" THEN Start(seen, "min", r.min) ELSE seen

\* Mutant: a running minimum timer starts again with every change.
OnChange_Restarts(r, v) ==
  LET seen == [r EXCEPT !.prev = v]
  IN  IF AtOnce(r) THEN [Stop(seen) EXCEPT !.minCnt = 0] ELSE Start(seen, "min", r.min)

\* reportAttrTimerStart, the value has changed: a minimum timer that runs already
\* is kept, a maximum timer is replaced.
OnChange(r, v) ==
  LET seen == [r EXCEPT !.prev = v]
  IN  IF AtOnce(r) THEN [Stop(seen) EXCEPT !.minCnt = 0]
      ELSE IF r.timer.kind = "min" THEN seen ELSE Start(seen, "min", r.min)

\* reportAttrTimerStart, the value has not changed: a maximum timer of another
\* interval is replaced.
OnSame(r) ==
  IF r.max = 0 THEN IF r.timer.kind = "max" THEN Stop(r) ELSE r
  ELSE IF r.timer.kind = "none" \/ (r.timer.kind = "max" /\ r.timer.secs # r.max)
         THEN Start(r, "max", r.max) ELSE r

\* One entry of the loop of reportAttrTimerStart.
Poll(r, v, b) ==
  IF ~Maintained(r, b) THEN Stop(r)
  ELSE IF Changed(r, v) THEN OnChange(r, v) ELSE OnSame(r)

PollAll(tab) == [e \in Entries |-> Poll(tab[e], value'[e], bound[e])]

\* Does the loop start the reporting timer?
PollReports(tab) ==
  \E e \in Entries : Maintained(tab[e], bound[e]) /\ Changed(tab[e], value'[e]) /\ AtOnce(tab[e])

\* Mutant: the subtraction is not guarded.
Less_Unguarded(n, s) == n - s

Less(n, s) == IF n >= s THEN n - s ELSE 0

\* reportAttrTimerCb
Expired(r, b) ==
  [Stop(r) EXCEPT !.minCnt = IF Maintained(r, b) THEN Less(@, r.timer.secs) ELSE @,
                  !.maxCnt = IF Maintained(r, b) THEN Less(@, r.timer.secs) ELSE @]

\* Is the entry sent by reportAttrs?
Valid(r, b) == Maintained(r, b) /\ \/ r.maxCnt = 0 /\ r.max # 0
                                   \/ r.minCnt = 0

OrNever(n) == IF n = 0 THEN Never ELSE n

\* Mutant: the minimum counter is not renewed.
Reported_KeepsMin(r, v) == [r EXCEPT !.prev = v, !.maxCnt = OrNever(r.max)]

\* The entry after it was sent.
Reported(r, v) == [r EXCEPT !.prev = v, !.minCnt = OrNever(r.min), !.maxCnt = OrNever(r.max)]

\* zcl_reportCfgInfoEntryUpdate: the timer and the value compared with are kept.
Update(r, s) ==
  [r EXCEPT !.min = s.min, !.max = s.max, !.change = s.change,
            !.minCnt = s.min, !.maxCnt = s.max]

\* zcl_reportCfgInfoEntryRst, before it polls
Reset(r, d) ==
  [Stop(r) EXCEPT !.min = d.min, !.max = d.max, !.change = 0,
                  !.minCnt = d.min, !.maxCnt = d.max]

New(d, prev, minCnt, maxCnt) ==
  [min |-> d.min, max |-> d.max, change |-> d.change, minCnt |-> minCnt,
   maxCnt |-> maxCnt, prev |-> prev, timer |-> NoTimer]

Counters(tab) == [e \in Entries |-> [min |-> tab[e].minCnt, max |-> tab[e].maxCnt]]

-----------------------------------------------------------------------------
Init ==
  /\ value = Unmeasured
  /\ bound \in [Entries -> BOOLEAN]      \* the bindings are in NV
  /\ entry = [e \in Entries |-> New(Default[e], 0, Default[e].min, Default[e].max)]
  /\ nv = [stored |-> FALSE, cnt |-> Counters(entry)]
  /\ due = FALSE
  /\ active = FALSE
  /\ polled = FALSE
  /\ measured = FALSE
  /\ calls = 0
  /\ sent = [e \in Entries |-> [last |-> Unmeasured[e], age |-> 0, steady |-> FALSE]]

Call == calls < MaxCalls /\ calls' = calls + 1

\* The history of entry e is interrupted.
Interrupt(es) ==
  sent' = [e \in Entries |-> IF e \in es THEN [sent[e] EXCEPT !.age = 0, !.steady = FALSE]
                                         ELSE sent[e]]

\* app_task: perhaps a measurement of one attribute, then report_handler.
AppTask ==
  /\ \/ /\ ~measured
        /\ \E e \in Entries : \E v \in Values[e] : value' = [value EXCEPT ![e] = v]
        /\ measured' = TRUE
     \/ /\ ~polled
        /\ UNCHANGED <<value, measured>>
  /\ entry' = IF active THEN PollAll(entry) ELSE entry
  /\ due' = (due \/ (active /\ PollReports(entry)))
  /\ polled' = TRUE
  /\ UNCHANGED <<bound, nv, active, calls, sent>>

\* A timer of an entry expires: reportAttrTimerCb.
Expire(e) ==
  /\ entry[e].timer.kind # "none"
  /\ entry[e].timer.left = 0
  /\ entry' = [entry EXCEPT ![e] = Expired(@, bound[e])]
  /\ due' = TRUE
  /\ polled' = FALSE
  /\ UNCHANGED <<value, bound, nv, active, measured, calls, sent>>

\* The entry's timer, if any, was started in this second and under the present
\* configuration.  (A report caused by another entry's timer leaves it running.)
TimerFits(r) == \/ r.timer.kind = "none"
                \/ /\ r.timer.left = r.timer.secs
                   /\ r.timer.secs = IF r.timer.kind = "min" THEN r.min ELSE r.max

\* The reporting timer expires: reportAttrs sends every valid entry.  Messages of
\* one or two attributes go out until none is left.
ReportAttrs ==
  LET valid == {e \in Entries : Valid(entry[e], bound[e])}
  IN  /\ due
      /\ due' = FALSE
      /\ entry' = [e \in Entries |-> IF e \in valid THEN Reported(entry[e], value[e]) ELSE entry[e]]
      /\ sent' = [e \in Entries |->
                    IF e \in valid
                    THEN [last |-> value[e], age |-> 0,
                          steady |-> active /\ TimerFits(entry[e])]
                    ELSE sent[e]]
      /\ polled' = FALSE
      /\ UNCHANGED <<value, bound, nv, active, measured, calls>>

\* zcl_configReportHandler with one record that is accepted.
Configure(e) ==
  /\ Call
  /\ \E s \in Requests[e] :
       /\ Acceptable(s)
       /\ entry' = [entry EXCEPT ![e] = Update(@, s)]
  /\ nv' = [stored |-> TRUE, cnt |-> Counters(entry')]
  /\ Interrupt({e})
  /\ polled' = FALSE
  /\ UNCHANGED <<value, bound, due, active, measured>>

\* The same with the record that asks for the default: the table is polled at once.
ConfigureDefault(e) ==
  LET tab == [entry EXCEPT ![e] = Reset(@, Default[e])]
  IN  /\ Call
      /\ value' = value
      /\ entry' = PollAll(tab)
      /\ due' = (due \/ PollReports(tab))
      /\ nv' = [stored |-> TRUE, cnt |-> Counters(entry')]
      /\ Interrupt({e})
      /\ polled' = FALSE
      /\ UNCHANGED <<bound, active, measured>>

\* A bind or unbind request for the cluster, or the button.
Rebind(e) ==
  /\ Call
  /\ bound' = [bound EXCEPT ![e] = ~@]
  /\ Interrupt({e})
  /\ polled' = FALSE
  /\ UNCHANGED <<value, entry, nv, due, active, measured>>

\* Joining or leaving, or a commissioning that begins or ends.
Activate ==
  /\ Call
  /\ active' = ~active
  /\ Interrupt(Entries)
  /\ polled' = FALSE
  /\ UNCHANGED <<value, bound, entry, nv, due, measured>>

\* The power fails: the table is restored from NV with the counters it was saved
\* with, or filled with the defaults; no timer runs.
Reboot ==
  /\ Call
  /\ entry' = [e \in Entries |->
                 [entry[e] EXCEPT !.minCnt = nv.cnt[e].min, !.maxCnt = nv.cnt[e].max,
                                  !.prev = IF nv.stored THEN Erased[e] ELSE 0,
                                  !.timer = NoTimer]]
  /\ value' = Unmeasured
  /\ due' = FALSE
  /\ active' = FALSE
  /\ Interrupt(Entries)
  /\ polled' = FALSE
  /\ UNCHANGED <<bound, nv, measured>>

\* The age is counted while the entry is to be reported periodically.
Counted(e) == active /\ Maintained(entry[e], bound[e]) /\ entry[e].max # 0

\* A second passes, when all that is due has been done.
Tick ==
  /\ polled
  /\ ~due
  /\ \A e \in Entries : entry[e].timer.kind # "none" => entry[e].timer.left > 0
  /\ entry' = [e \in Entries |-> IF entry[e].timer.kind = "none" THEN entry[e]
                                 ELSE [entry[e] EXCEPT !.timer.left = @ - 1]]
  /\ sent' = [e \in Entries |-> [sent[e] EXCEPT !.age = IF Counted(e) THEN @ + 1 ELSE 0]]
  /\ measured' = FALSE
  /\ UNCHANGED <<value, bound, nv, due, active, polled, calls>>

Next ==
  \/ AppTask
  \/ \E e \in Entries : Expire(e)
  \/ ReportAttrs
  \/ \E e \in Entries : Configure(e) \/ ConfigureDefault(e) \/ Rebind(e)
  \/ Activate
  \/ Reboot
  \/ Tick

Spec == Init /\ [][Next]_vars

-----------------------------------------------------------------------------
(***************************************************************************)
(* Properties.                                                             *)
(***************************************************************************)

Periodic(e) == entry[e].max \notin {0, Never}

\* The longest minimum interval that a timer of an earlier setting may count.
LongestMin == LET mins == UNION {{Default[e].min} \cup {s.min : s \in Requests[e]} : e \in Entries}
              IN  CHOOSE m \in mins : \A n \in mins : n <= m

\* While nothing interferes, an entry with a maximum interval is reported at the
\* latest that interval plus the minimum interval after its last report: a
\* change just before the maximum is reached stops the maximum timer and waits
\* for a minimum timer, but it cannot do so twice.
ReportedInTime ==
  \A e \in Entries : sent[e].steady /\ Periodic(e) => sent[e].age <= entry[e].max + entry[e].min

\* Whatever has interfered - a reconfiguration while a timer of the old setting
\* runs, a binding lost before the report was sent, a reboot with old counters - an
\* entry with a maximum interval is reported after it: a timer of the old
\* setting can only delay the report once.
ReportedAgain ==
  \A e \in Entries : Periodic(e) => sent[e].age <= LongestMin + entry[e].max + entry[e].min

\* While nothing interferes, a value that is a reportable change away from the
\* last report is on its way: a minimum timer runs, or the entry is to be sent
\* with the next reports.
ChangeOnItsWay ==
  \A e \in Entries :
    /\ sent[e].steady
    /\ polled
    /\ Maintained(entry[e], bound[e])
    => \/ value[e] = sent[e].last
       \/ Distance(value[e], sent[e].last) < entry[e].change
       \/ entry[e].timer.kind = "min"
       \/ due /\ entry[e].minCnt = 0

Reports(e) == due /\ ~due' /\ calls' = calls /\ Valid(entry[e], bound[e])

\* Two reports of an entry with a maximum interval between which nothing
\* interferes are at least its minimum interval apart.  (Without a maximum
\* interval the code sends a change at once.)
MinimumKept ==
  [][\A e \in Entries : Reports(e) /\ sent[e].steady /\ Periodic(e)
                          => sent[e].age >= entry[e].min]_vars
=============================================================================
