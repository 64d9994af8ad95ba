------------------------------ MODULE AppTimer ------------------------------
(***************************************************************************)
(* When the sensor is read (src/src/app_timer.c, app_main.c): a timer of   *)
(* two hours counts down in milliseconds and begins anew, and the time     *)
(* since the last reading is the distance of two of its values.            *)
(***************************************************************************)
EXTENDS Integers, TLAPS

CONSTANTS
  Width,     \* 2^32: uint32_t
  Period     \* APP_TIMER_PERIOD, two hours

\* Two periods are far within the width.
PeriodFits == Period \in Nat \ {0} /\ Width \in Nat /\ 2 * Period < Width

VARIABLES
  timeout,   \* app_timer.timerAPPEvt->timeout
  ref,       \* g_appCtx.read_sensor_time
  since,     \* history: milliseconds since the last reading
  lost       \* history: those of them by which the timer began anew too late

vars == <<timeout, ref, since, lost>>

TypeOK ==
  /\ timeout \in 1..Period
  /\ ref \in 0..Period
  /\ since \in Nat /\ lost \in Nat

Init == timeout = Period /\ ref = 0 /\ since = 0 /\ lost = 0

\* app_timer_exceed: the time that has passed between two values of the timer.
elapsed(from, to) ==
  IF from # 0 /\ to > from THEN (from + Period - to) % Width ELSE (from - to) % Width

app_timer_exceed(ms) == elapsed(ref, timeout) >= ms

\* ev_timer_update by d milliseconds and ev_timer_executeCB: at zero the timer begins
\* anew, and what d exceeds it by is lost.
ev_timer_update(d) ==
  /\ timeout' = IF d < timeout THEN timeout - d ELSE Period
  /\ lost' = IF d < timeout THEN lost ELSE lost + (d - timeout)
  /\ since' = since + d
  /\ UNCHANGED ref

\* app_task reads the sensor.
app_task(ms) ==
  /\ app_timer_exceed(ms)
  /\ ref' = timeout
  /\ since' = 0 /\ lost' = 0
  /\ UNCHANGED timeout

Next == \/ \E d \in Nat \ {0} : ev_timer_update(d)
        \/ \E ms \in Nat : app_task(ms)

Spec == Init /\ [][Next]_vars

-----------------------------------------------------------------------------
(***************************************************************************)
(* Properties.                                                             *)
(***************************************************************************)

\* Once the sensor has been read, the time that has passed is never overestimated,
\* over any number of new beginnings of the timer (app_timer.c:40-47).
NeverEarly == ref # 0 => elapsed(ref, timeout) <= since

\* In the two hours after a reading it is exact, but for what the timer has lost.
Exact == ref # 0 /\ since - lost < Period => elapsed(ref, timeout) = since - lost

-----------------------------------------------------------------------------
Inv == TypeOK /\ NeverEarly /\ Exact /\ lost <= since

\* Within the width, no overflow occurs after the first reading.
LEMMA Elapsed ==
  ASSUME PeriodFits, NEW from \in 1..Period, NEW to \in 1..Period
  PROVE  elapsed(from, to) = IF to > from THEN from + Period - to ELSE from - to
<1> USE DEF PeriodFits
<1>1. ASSUME NEW n \in Nat, n < 2 * Period PROVE n % Width = n
  BY <1>1
<1> QED
  BY <1>1 DEF elapsed

\* The timer's steps keep the two estimates.
LEMMA Counted ==
  ASSUME PeriodFits, Inv, NEW d \in Nat \ {0}, ev_timer_update(d)
  PROVE  Inv'
<1> USE DEF Inv, TypeOK, PeriodFits
<1>1. TypeOK' /\ lost' <= since' /\ ref' = ref
  BY DEF ev_timer_update
<1>2. ASSUME ref # 0 PROVE elapsed(ref, timeout') <= since'
  <2>1. elapsed(ref, timeout) = (IF timeout > ref THEN ref + Period - timeout ELSE ref - timeout)
    BY <1>2, Elapsed
  <2>2. elapsed(ref, timeout') = (IF timeout' > ref THEN ref + Period - timeout' ELSE ref - timeout')
    BY <1>1, <1>2, Elapsed
  <2> QED
    BY <1>1, <1>2, <2>1, <2>2 DEF ev_timer_update, NeverEarly
<1>3. ASSUME ref # 0, since' - lost' < Period PROVE elapsed(ref, timeout') = since' - lost'
  <2>1. elapsed(ref, timeout) = (IF timeout > ref THEN ref + Period - timeout ELSE ref - timeout)
    BY <1>3, Elapsed
  <2>2. elapsed(ref, timeout') = (IF timeout' > ref THEN ref + Period - timeout' ELSE ref - timeout')
    BY <1>1, <1>3, Elapsed
  <2>3. since - lost < Period
    BY <1>3 DEF ev_timer_update
  <2> QED
    BY <1>1, <1>3, <2>1, <2>2, <2>3 DEF ev_timer_update, Exact
<1> QED
  BY <1>1, <1>2, <1>3 DEF NeverEarly, Exact

\* A reading begins anew from zero.
LEMMA Read ==
  ASSUME PeriodFits, Inv, NEW ms \in Nat, app_task(ms)
  PROVE  Inv'
<1> USE DEF Inv, TypeOK, app_task, PeriodFits
<1>1. elapsed(ref', timeout') = 0
  BY Elapsed
<1> QED
  BY <1>1 DEF NeverEarly, Exact

\* The time since the last reading is never overestimated, and exact within two hours
\* but for what the timer lost: a reading comes neither early nor, by more than that,
\* late, whatever the lengths of the sleeps between the updates (app_timer.c:30-50).
THEOREM ReadInTime ==
  ASSUME PeriodFits
  PROVE  Spec => [](NeverEarly /\ Exact)
<1>1. Init => Inv
  BY DEF PeriodFits, Init, Inv, TypeOK, NeverEarly, Exact
<1>2. Inv /\ [Next]_vars => Inv'
  <2> SUFFICES ASSUME Inv, [Next]_vars PROVE Inv'
    OBVIOUS
  <2>1. CASE UNCHANGED vars
    BY <2>1 DEF vars, Inv, TypeOK, NeverEarly, Exact
  <2> QED
    BY <2>1, Counted, Read DEF Next
<1>3. Inv => NeverEarly /\ Exact
  BY DEF Inv
<1> QED
  BY <1>1, <1>2, <1>3, PTL DEF Spec
=============================================================================
