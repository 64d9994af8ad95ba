-------------------------- MODULE ReportingProofs --------------------------
(***************************************************************************)
(* Proofs about Reporting: types, how long a report of an undisturbed      *)
(* entry can take and how soon it can be repeated, how long a report can   *)
(* take after an interference, and that no change is lost.                 *)
(*                                                                         *)
(* The inductive invariant says where an undisturbed entry with a maximum  *)
(* interval stands: either its counters are full and one timer runs whose  *)
(* remaining time and the age of the last report add up to the maximum     *)
(* interval (a maximum timer) or to at most both intervals (a minimum      *)
(* timer), or one counter is 0 and the reporting timer runs.  After an     *)
(* interference (AllAwaited) one more timer may come first, a minimum      *)
(* timer of an earlier setting.  For changes (AllSettled) it says that the *)
(* value compared with is the one reported last, or a minimum timer runs,  *)
(* or the entry goes out with the next reports.                            *)
(***************************************************************************)
EXTENDS Reporting, WellFoundedInduction, TLAPS

Proper(r) ==
  /\ r.min < Never /\ r.max <= Never
  /\ r.max \in {0, Never} \/ r.min <= r.max
  /\ r.timer.kind # "none" => r.timer.secs > 0
  /\ r.timer.left <= r.timer.secs

Full(r) == r.minCnt = OrNever(r.min) /\ r.maxCnt = OrNever(r.max)

\* No counter of r is 0 and a timer runs, age after the last report ...
Counting(r, age) ==
  LET t == r.timer
  IN  /\ Full(r)
      /\ \/ t.kind = "max" /\ t.secs = r.max /\ age + t.left = r.max
         \/ /\ t.kind = "min" /\ t.secs = r.min
            /\ age + t.left <= r.max + r.min
            /\ r.min <= age + t.left

\* ... or none runs yet.
Fresh(r, age) == Full(r) /\ r.timer.kind = "none" /\ age = 0

\* r goes out with the next reports.
Ready(r, age) ==
  /\ Valid(r, TRUE)
  /\ TimerFits(r)
  /\ age <= r.max + r.min
  /\ r.min <= age

OnCourse(e) ==
  /\ active
  /\ bound[e]
  /\ \/ Counting(entry[e], sent[e].age)
     \/ Fresh(entry[e], sent[e].age) /\ ~polled
     \/ Ready(entry[e], sent[e].age) /\ due

OnCourses == \A e \in Entries : sent[e].steady /\ Periodic(e) => OnCourse(e)

-----------------------------------------------------------------------------
(***************************************************************************)
(* The operators on one entry.                                             *)
(***************************************************************************)

\* Two entries with the same setting, and with the same counters.
Alike(q, r)     == q.min = r.min /\ q.max = r.max /\ q.change = r.change
SameCount(q, r) == q.minCnt = r.minCnt /\ q.maxCnt = r.maxCnt

\* No timer is a timer.
LEMMA NoTimerType ==
  NoTimer \in Timer /\ NoTimer.kind = "none" /\ NoTimer.secs = 0 /\ NoTimer.left = 0
BY DEF NoTimer, Timer

SetPrev(r, v)      == [r EXCEPT !.prev = v]
SetTimer(r, t)     == [r EXCEPT !.timer = t]
SetMinCnt(r, m)    == [r EXCEPT !.minCnt = m]
SetCounts(r, m, x) == [r EXCEPT !.minCnt = m, !.maxCnt = x]

\* Another value is compared with ...
LEMMA WithPrev ==
  ASSUME NEW r \in Entry, NEW v \in Int
  PROVE  /\ SetPrev(r, v) \in Entry /\ Alike(SetPrev(r, v), r) /\ SameCount(SetPrev(r, v), r)
         /\ SetPrev(r, v).timer = r.timer /\ SetPrev(r, v).prev = v
BY DEF Entry, Alike, SameCount, SetPrev

\* ... another timer runs ...
LEMMA WithTimer ==
  ASSUME NEW r \in Entry, NEW t \in Timer
  PROVE  /\ SetTimer(r, t) \in Entry /\ Alike(SetTimer(r, t), r) /\ SameCount(SetTimer(r, t), r)
         /\ SetTimer(r, t).timer = t /\ SetTimer(r, t).prev = r.prev
BY DEF Entry, Alike, SameCount, SetTimer

\* ... the minimum counter changes ...
LEMMA WithMinCnt ==
  ASSUME NEW r \in Entry, NEW m \in Nat
  PROVE  /\ SetMinCnt(r, m) \in Entry /\ Alike(SetMinCnt(r, m), r)
         /\ SetMinCnt(r, m).minCnt = m /\ SetMinCnt(r, m).maxCnt = r.maxCnt
         /\ SetMinCnt(r, m).timer = r.timer /\ SetMinCnt(r, m).prev = r.prev
BY DEF Entry, Alike, SetMinCnt

\* ... or both counters: the rest of the entry stays.
LEMMA WithCounts ==
  ASSUME NEW r \in Entry, NEW m \in Nat, NEW x \in Nat
  PROVE  /\ SetCounts(r, m, x) \in Entry /\ Alike(SetCounts(r, m, x), r)
         /\ SetCounts(r, m, x).minCnt = m /\ SetCounts(r, m, x).maxCnt = x
         /\ SetCounts(r, m, x).timer = r.timer /\ SetCounts(r, m, x).prev = r.prev
BY DEF Entry, Alike, SetCounts

\* Stopping the timer.
LEMMA Stopped ==
  ASSUME NEW r \in Entry
  PROVE  /\ Stop(r) \in Entry /\ Alike(Stop(r), r) /\ SameCount(Stop(r), r)
         /\ Stop(r).timer = NoTimer /\ Stop(r).prev = r.prev
BY NoTimerType, WithTimer DEF Stop, SetTimer

\* Starting one.
LEMMA Started ==
  ASSUME NEW r \in Entry, NEW kind \in {"min", "max"}, NEW s \in Nat
  PROVE  /\ Start(r, kind, s) \in Entry
         /\ Alike(Start(r, kind, s), r) /\ SameCount(Start(r, kind, s), r)
         /\ Start(r, kind, s).prev = r.prev
         /\ Start(r, kind, s).timer = [kind |-> kind, secs |-> s, left |-> s]
<1>1. [kind |-> kind, secs |-> s, left |-> s] \in Timer
  BY DEF Timer
<1> QED
  BY <1>1, WithTimer DEF Start, SetTimer

\* q is what a call of the main loop makes of an entry r it keeps: it changes the
\* timer, the value compared with and, when a change is to be sent at once, the
\* minimum counter.
PolledFrom(q, r, v) ==
  /\ q \in Entry /\ Alike(q, r) /\ q.maxCnt = r.maxCnt
  /\ q.prev = IF Changed(r, v) THEN v ELSE r.prev
  /\ Changed(r, v) /\ AtOnce(r) => q.minCnt = 0 /\ q.timer = NoTimer
  /\ ~(Changed(r, v) /\ AtOnce(r)) => q.minCnt = r.minCnt
  /\ Changed(r, v) /\ ~AtOnce(r)
       => q.timer = IF r.timer.kind = "min" THEN r.timer
                    ELSE [kind |-> "min", secs |-> r.min, left |-> r.min]
  /\ ~Changed(r, v) /\ r.max # 0
       => q.timer = IF \/ r.timer.kind = "none"
                       \/ r.timer.kind = "max" /\ r.timer.secs # r.max
                    THEN [kind |-> "max", secs |-> r.max, left |-> r.max]
                    ELSE r.timer
  /\ ~Changed(r, v) /\ r.max = 0
       => q.timer = IF r.timer.kind = "max" THEN NoTimer ELSE r.timer

\* What a call of the main loop makes of an entry it keeps.
LEMMA Polled ==
  ASSUME NEW r \in Entry, NEW v \in Int, Maintained(r, TRUE)
  PROVE  PolledFrom(Poll(r, v, TRUE), r, v)
<1> DEFINE seen == SetPrev(r, v)
           q    == Poll(r, v, TRUE)
<1> r.min \in Nat /\ r.max \in Nat /\ r.minCnt \in Nat /\ r.timer \in Timer
  BY DEF Entry
<1>1. /\ seen \in Entry /\ Alike(seen, r) /\ SameCount(seen, r)
      /\ seen.timer = r.timer /\ seen.prev = v
  BY WithPrev
<1>a. Changed(r, v) /\ AtOnce(r) => q = SetMinCnt(Stop(seen), 0)
  BY DEF Poll, OnChange, SetPrev, SetMinCnt
<1>b. Changed(r, v) /\ ~AtOnce(r)
        => q = IF r.timer.kind = "min" THEN seen ELSE Start(seen, "min", r.min)
  BY DEF Poll, OnChange, SetPrev
<1>c. ~Changed(r, v) => q = OnSame(r)
  BY DEF Poll
<1> HIDE DEF seen, q
<1>2. CASE Changed(r, v) /\ AtOnce(r)
  <2>1. /\ Stop(seen) \in Entry /\ Alike(Stop(seen), seen) /\ SameCount(Stop(seen), seen)
        /\ Stop(seen).timer = NoTimer /\ Stop(seen).prev = seen.prev
    BY <1>1, Stopped
  <2>2. q \in Entry /\ Alike(q, Stop(seen)) /\ q.minCnt = 0 /\ q.maxCnt = Stop(seen).maxCnt
        /\ q.timer = Stop(seen).timer /\ q.prev = Stop(seen).prev
    <3>1. q = SetMinCnt(Stop(seen), 0)
      BY <1>2, <1>a
    <3> QED
      BY <2>1, <3>1, WithMinCnt, 0 \in Nat
  <2>3. PolledFrom(q, r, v)
    BY <1>1, <1>2, <2>1, <2>2 DEF Alike, SameCount, PolledFrom
  <2> QED
    BY <2>3 DEF q
<1>3. CASE Changed(r, v) /\ ~AtOnce(r)
  <2>1. PolledFrom(q, r, v)
    BY <1>1, <1>3, <1>b, Started DEF Alike, SameCount, PolledFrom
  <2> QED
    BY <2>1 DEF q
<1>4. CASE ~Changed(r, v)
  <2>1. PolledFrom(q, r, v)
    BY <1>4, <1>c, Started, Stopped DEF Alike, SameCount, PolledFrom, OnSame
  <2> QED
    BY <2>1 DEF q
<1> QED
  BY <1>2, <1>3, <1>4

\* An entry that is not kept loses its timer.
LEMMA NotPolled ==
  ASSUME NEW r, NEW v, NEW b, ~Maintained(r, b)
  PROVE  Poll(r, v, b) = Stop(r)
BY DEF Poll

\* The binding matters only in that it keeps an entry.
LEMMA PollOfBound ==
  ASSUME NEW r, NEW v, NEW b \in BOOLEAN, Maintained(r, b)
  PROVE  Poll(r, v, b) = Poll(r, v, TRUE) /\ Maintained(r, TRUE)
BY DEF Poll, Maintained

\* A call of the main loop makes a proper entry of a proper entry.
LEMMA PollType ==
  ASSUME NEW r \in Entry, NEW v \in Int, NEW b \in BOOLEAN, Proper(r)
  PROVE  Poll(r, v, b) \in Entry /\ Proper(Poll(r, v, b)) /\ Alike(Poll(r, v, b), r)
<1>1. CASE ~Maintained(r, b)
  BY <1>1, NotPolled, Stopped, NoTimerType DEF Proper, Alike, Entry, Timer
<1>2. CASE Maintained(r, b)
  <2> DEFINE q == Poll(r, v, b)
  <2>1. PolledFrom(q, r, v)
    BY <1>2, PollOfBound, Polled
  <2> HIDE DEF q
  <2>2. q \in Entry /\ Alike(q, r) /\ Proper(q)
    BY <2>1, NoTimerType DEF PolledFrom, Proper, Alike, AtOnce, Entry, Timer
  <2> QED
    BY <2>2 DEF q
<1> QED
  BY <1>1, <1>2

\* What the expiry of the timer makes of an entry.
LEMMA ExpiredFields ==
  ASSUME NEW r \in Entry, NEW b \in BOOLEAN
  PROVE  /\ Expired(r, b) \in Entry /\ Alike(Expired(r, b), r)
         /\ Expired(r, b).timer = NoTimer /\ Expired(r, b).prev = r.prev
         /\ Expired(r, b).minCnt
              = IF Maintained(r, b) THEN Less(r.minCnt, r.timer.secs) ELSE r.minCnt
         /\ Expired(r, b).maxCnt
              = IF Maintained(r, b) THEN Less(r.maxCnt, r.timer.secs) ELSE r.maxCnt
<1> DEFINE m == IF Maintained(r, b) THEN Less(r.minCnt, r.timer.secs) ELSE r.minCnt
           x == IF Maintained(r, b) THEN Less(r.maxCnt, r.timer.secs) ELSE r.maxCnt
<1>1. m \in Nat /\ x \in Nat
  BY DEF Less, Entry, Timer
<1>2. Stop(r) \in Entry /\ Alike(Stop(r), r) /\ SameCount(Stop(r), r) /\ Stop(r).timer = NoTimer
      /\ Stop(r).prev = r.prev
  BY Stopped
<1>3. Expired(r, b) = SetCounts(Stop(r), m, x)
  BY <1>2 DEF Expired, SameCount, SetCounts
<1> HIDE DEF m, x
<1>4. /\ Expired(r, b) \in Entry /\ Alike(Expired(r, b), Stop(r))
      /\ Expired(r, b).minCnt = m /\ Expired(r, b).maxCnt = x
      /\ Expired(r, b).timer = Stop(r).timer /\ Expired(r, b).prev = Stop(r).prev
  BY <1>1, <1>2, <1>3, WithCounts
<1> QED
  BY <1>2, <1>4 DEF Alike, m, x

\* What a report makes of an entry.
LEMMA ReportedFields ==
  ASSUME NEW r \in Entry, NEW v \in Int
  PROVE  /\ Reported(r, v) \in Entry /\ Alike(Reported(r, v), r)
         /\ Reported(r, v).timer = r.timer /\ Reported(r, v).prev = v
         /\ Reported(r, v).minCnt = OrNever(r.min) /\ Reported(r, v).maxCnt = OrNever(r.max)
<1> DEFINE seen == SetPrev(r, v)
           m    == OrNever(r.min)
           x    == OrNever(r.max)
<1>1. m \in Nat /\ x \in Nat
  BY DEF OrNever, Never, Entry
<1>2. /\ seen \in Entry /\ Alike(seen, r) /\ SameCount(seen, r)
      /\ seen.timer = r.timer /\ seen.prev = v
  BY WithPrev
<1>3. Reported(r, v) = SetCounts(seen, m, x)
  BY DEF Reported, SetPrev, SetCounts
<1> HIDE DEF seen, m, x
<1>4. /\ Reported(r, v) \in Entry /\ Alike(Reported(r, v), seen)
      /\ Reported(r, v).minCnt = m /\ Reported(r, v).maxCnt = x
      /\ Reported(r, v).timer = seen.timer /\ Reported(r, v).prev = seen.prev
  BY <1>1, <1>2, <1>3, WithCounts
<1>5. Alike(Reported(r, v), r)
  BY <1>2, <1>4 DEF Alike
<1> QED
  BY <1>2, <1>4, <1>5 DEF m, x

\* A poll leaves an undisturbed entry on its course: a change that need not wait
\* makes it go out with the next reports, one that has to wait starts a minimum
\* timer no later than the maximum interval after the last report.
LEMMA PollOnCourse ==
  ASSUME NEW r \in Entry, NEW v \in Int, NEW age \in Nat,
         Proper(r), r.max \notin {0, Never}
  PROVE  /\ Counting(r, age) \/ Fresh(r, age)
              => \/ Counting(Poll(r, v, TRUE), age)
                 \/ Changed(r, v) /\ AtOnce(r) /\ Ready(Poll(r, v, TRUE), age)
         /\ Ready(r, age) => Ready(Poll(r, v, TRUE), age)
<1> DEFINE q == Poll(r, v, TRUE)
<1> r.min \in Nat /\ r.max \in Nat /\ r.timer \in Timer /\ r.timer.left \in Nat
  BY DEF Entry, Timer
<1>1. Maintained(r, TRUE)
  BY DEF Maintained
<1>2. PolledFrom(q, r, v)
  BY <1>1, Polled
<1> HIDE DEF q
<1>3. CASE Changed(r, v) /\ AtOnce(r)
  <2>1. r.min = 0 /\ q.minCnt = 0 /\ q.timer.kind = "none" /\ Alike(q, r)
    BY <1>2, <1>3, NoTimerType DEF AtOnce, PolledFrom
  <2>2. Counting(r, age) \/ Fresh(r, age) \/ Ready(r, age) => age <= r.max + r.min
    <3>1. Counting(r, age) => age <= r.max + r.min
      BY DEF Counting
    <3>2. Fresh(r, age) => age <= r.max + r.min
      BY DEF Fresh
    <3>3. Ready(r, age) => age <= r.max + r.min
      BY DEF Ready
    <3> QED
      BY <3>1, <3>2, <3>3
  <2>3. Counting(r, age) \/ Fresh(r, age) \/ Ready(r, age) => Ready(q, age)
    BY <2>1, <2>2 DEF Ready, Valid, Maintained, TimerFits, Alike
  <2> QED
    BY <1>3, <2>3 DEF q
<1>4. CASE ~(Changed(r, v) /\ AtOnce(r))
  <2>1. /\ Alike(q, r) /\ q.minCnt = r.minCnt /\ q.maxCnt = r.maxCnt
        /\ \/ q.timer = r.timer /\ r.timer.kind # "none"
           \/ /\ r.timer.kind # "min"
              /\ q.timer = [kind |-> "min", secs |-> r.min, left |-> r.min]
           \/ /\ r.timer.kind = "none" \/ (r.timer.kind = "max" /\ r.timer.secs # r.max)
              /\ q.timer = [kind |-> "max", secs |-> r.max, left |-> r.max]
    BY <1>2, <1>4 DEF Timer, PolledFrom
  <2>2. Full(r) => Full(q)
    BY <2>1 DEF Full, Alike
  <2>3. Counting(r, age) \/ Fresh(r, age) => Counting(q, age)
    BY <2>1, <2>2 DEF Counting, Fresh, Alike
  <2>4. Valid(r, TRUE) => Valid(q, TRUE)
    BY <2>1 DEF Valid, Maintained, Alike
  <2>5. TimerFits(r) => TimerFits(q)
    BY <2>1 DEF TimerFits, Alike
  <2>6. Ready(r, age) => Ready(q, age)
    BY <2>1, <2>4, <2>5 DEF Ready, Alike
  <2> QED
    BY <2>3, <2>6 DEF q
<1> QED
  BY <1>3, <1>4

\* The timer of an undisturbed entry expires when its report is due and can wait
\* for the reporting timer.
LEMMA ExpiredOnCourse ==
  ASSUME NEW r \in Entry, NEW age \in Nat, Proper(r), r.max \notin {0, Never},
         Counting(r, age) \/ Fresh(r, age) \/ Ready(r, age),
         r.timer.kind # "none", r.timer.left = 0
  PROVE  Ready(Expired(r, TRUE), age)
<1> DEFINE q == Expired(r, TRUE)
<1> /\ r.min \in Nat /\ r.max \in Nat /\ r.timer \in Timer
    /\ r.timer.left \in Nat /\ r.timer.secs \in Nat
  BY DEF Entry, Timer
<1>1. Maintained(r, TRUE)
  BY DEF Maintained
<1>2. Counting(r, age)
  <2>1. ~Ready(r, age)
    <3>1. r.timer.secs > 0 /\ r.timer.left = 0
      BY DEF Proper
    <3>2. ~TimerFits(r)
      BY <3>1 DEF TimerFits
    <3> QED
      BY <3>2 DEF Ready
  <2> QED
    BY <2>1 DEF Fresh
<1>3. /\ Alike(q, r) /\ q.timer.kind = "none"
      /\ q.minCnt = Less(r.minCnt, r.timer.secs) /\ q.maxCnt = Less(r.maxCnt, r.timer.secs)
  BY <1>1, ExpiredFields, NoTimerType
<1> HIDE DEF q
<1>4. /\ (q.maxCnt = 0 /\ q.max # 0) \/ q.minCnt = 0
      /\ age <= r.max + r.min /\ r.min <= age
  BY <1>2, <1>3 DEF Counting, Full, Less, OrNever, Proper, Alike, Never
<1>5. Ready(q, age)
  BY <1>3, <1>4 DEF Ready, Valid, Maintained, TimerFits, Alike
<1> QED
  BY <1>5 DEF q

\* After a report the course begins anew, if the timer that runs fits.
LEMMA ReportedOnCourse ==
  ASSUME NEW r \in Entry, NEW v \in Int, Proper(r), r.max \notin {0, Never}, TimerFits(r)
  PROVE  Counting(Reported(r, v), 0) \/ Fresh(Reported(r, v), 0)
<1> DEFINE q == Reported(r, v)
<1> r.min \in Nat /\ r.max \in Nat /\ r.timer \in Timer /\ r.timer.left \in Nat
  BY DEF Entry, Timer
<1>1. /\ Alike(q, r) /\ q.timer = r.timer
      /\ q.minCnt = OrNever(r.min) /\ q.maxCnt = OrNever(r.max)
  BY ReportedFields
<1> HIDE DEF q
<1>a. Full(q)
  BY <1>1 DEF Full, Alike
<1>2. Counting(q, 0) \/ Fresh(q, 0)
  BY <1>1, <1>a DEF Counting, Fresh, TimerFits, Proper, Alike, Timer
<1> QED
  BY <1>2 DEF q
-----------------------------------------------------------------------------
(***************************************************************************)
(* The actions.                                                            *)
(***************************************************************************)

Tables == [Entries -> Entry]

\* A table of proper entries.
Good(tab) == tab \in Tables /\ \A e \in Entries : Proper(tab[e])

\* What a setting is.
LEMMA SettingFields ==
  ASSUME NEW s \in Setting
  PROVE  s.min \in Nat /\ s.max \in Nat /\ s.change \in Nat /\ s.min < Never /\ s.max <= Never
<1>1. s.min \in 0..(Never - 1) /\ s.max \in 0..Never /\ s.change \in Nat
  BY DEF Setting
<1>2. Never \in Nat
  BY DEF Never
<1>3. /\ \A n \in 0..(Never - 1) : n \in Nat /\ n < Never
      /\ \A n \in 0..Never : n \in Nat /\ n <= Never
  BY <1>2
<1> QED
  BY <1>1, <1>3

\* The default settings make proper entries.
LEMMA Defaults ==
  ASSUME NEW e \in Entries
  PROVE  /\ Default[e].min \in Nat /\ Default[e].max \in Nat /\ Default[e].change \in Nat
         /\ Default[e].min < Never /\ Default[e].max <= Never
         /\ Default[e].max \in {0, Never} \/ Default[e].min <= Default[e].max
<1>1. Default[e] \in Setting /\ Acceptable(Default[e])
  BY SettingsAssumption
<1>2. Default[e].max \in {0, Never} \/ Default[e].min <= Default[e].max
  BY <1>1 DEF Acceptable
<1> QED
  BY <1>1, <1>2, SettingFields

\* A poll of the table.
LEMMA PollAllGood ==
  ASSUME NEW tab, Good(tab), value' \in [Entries -> Int], bound \in [Entries -> BOOLEAN]
  PROVE  Good(PollAll(tab))
BY PollType DEF Good, Tables, PollAll

\* The counters that are saved.
LEMMA CountersType ==
  ASSUME NEW tab \in Tables
  PROVE  Counters(tab) \in [Entries -> [min : Nat, max : Nat]]
BY DEF Tables, Entry, Counters

\* The table stays proper and everything keeps its type: the initial state.
LEMMA InitGood == Init => TypeOK /\ Good(entry)
<1> SUFFICES ASSUME Init PROVE TypeOK /\ Good(entry)
  OBVIOUS
<1> USE DEF Init
<1>1. \A e \in Entries : entry[e] \in Entry /\ Proper(entry[e])
  <2> TAKE e \in Entries
  <2>1. entry[e] = New(Default[e], 0, Default[e].min, Default[e].max)
    OBVIOUS
  <2> QED
    BY <2>1, Defaults, NoTimerType DEF New, Entry, Proper
<1>2. entry \in Tables
  BY <1>1 DEF Tables
<1>3. value \in [Entries -> Int] /\ calls \in 0..MaxCalls
  BY ValuesAssumption
<1>4. nv \in [stored : BOOLEAN, cnt : [Entries -> [min : Nat, max : Nat]]]
  BY <1>2, CountersType
<1>5. sent \in [Entries -> [last : Int, age : Nat, steady : BOOLEAN]]
  BY ValuesAssumption
<1> QED
  BY <1>1, <1>2, <1>3, <1>4, <1>5 DEF TypeOK, Good, Tables
\* The action does nothing to the table but what is good, and keeps every type.
Keeps == TypeOK' /\ Good(entry')

\* The history keeps its type when it is interrupted.
LEMMA InterruptType ==
  ASSUME TypeOK, NEW es, Interrupt(es)
  PROVE  sent' \in [Entries -> [last : Int, age : Nat, steady : BOOLEAN]]
BY DEF TypeOK, Interrupt

\* A setting that is accepted gives a proper entry.
LEMMA UpdateProper ==
  ASSUME NEW r \in Entry, Proper(r), NEW s \in Setting, Acceptable(s)
  PROVE  Update(r, s) \in Entry /\ Proper(Update(r, s))
<1>0. s.min \in Nat /\ s.max \in Nat /\ s.change \in Nat /\ s.min < Never /\ s.max <= Never
  BY SettingFields
<1>1. Update(r, s) \in Entry
  BY <1>0 DEF Update, Entry
<1>2. /\ Update(r, s).min = s.min /\ Update(r, s).max = s.max
      /\ Update(r, s).timer = r.timer
  BY DEF Update, Entry
<1> QED
  BY <1>0, <1>1, <1>2 DEF Proper, Acceptable

SetSetting(r, m, x) ==
  [r EXCEPT !.min = m, !.max = x, !.change = 0, !.minCnt = m, !.maxCnt = x]

\* A setting is entered with full counters.
LEMMA WithSetting ==
  ASSUME NEW r \in Entry, NEW m \in Nat, NEW x \in Nat
  PROVE  /\ SetSetting(r, m, x) \in Entry
         /\ SetSetting(r, m, x).min = m /\ SetSetting(r, m, x).max = x
         /\ SetSetting(r, m, x).timer = r.timer
BY DEF SetSetting, Entry

\* The counters are those intervals.
LEMMA WithSettingCounts ==
  ASSUME NEW r \in Entry, NEW m \in Nat, NEW x \in Nat
  PROVE  SetSetting(r, m, x).minCnt = m /\ SetSetting(r, m, x).maxCnt = x
BY DEF SetSetting, Entry

\* So does the default.
LEMMA ResetProper ==
  ASSUME NEW r \in Entry, NEW e \in Entries
  PROVE  Reset(r, Default[e]) \in Entry /\ Proper(Reset(r, Default[e]))
<1> DEFINE q == Stop(r)  d == Default[e]
<1>1. q \in Entry /\ q.timer = NoTimer
  BY Stopped
<1>2. /\ d.min \in Nat /\ d.max \in Nat
      /\ d.min < Never /\ d.max <= Never
      /\ d.max \in {0, Never} \/ d.min <= d.max
  BY Defaults
<1>3. Reset(r, d) = SetSetting(q, d.min, d.max)
  BY DEF Reset, SetSetting
<1> HIDE DEF q, d
<1>a. d.min \in Nat /\ d.max \in Nat
  BY <1>2
<1>b. /\ SetSetting(q, d.min, d.max) \in Entry
      /\ SetSetting(q, d.min, d.max).min = d.min /\ SetSetting(q, d.min, d.max).max = d.max
      /\ SetSetting(q, d.min, d.max).timer = q.timer
  BY <1>1, <1>a DEF SetSetting, Entry
<1>4. Reset(r, d) \in Entry
  BY <1>3, <1>b
<1>5. Reset(r, d).min = d.min /\ Reset(r, d).max = d.max /\ Reset(r, d).timer = q.timer
  BY <1>3, <1>b
<1>6. Proper(Reset(r, d))
  BY <1>1, <1>2, <1>5, NoTimerType DEF Proper
<1> QED
  BY <1>4, <1>6 DEF d

\* A second of a timer that runs.
LEMMA TickedFields ==
  ASSUME NEW r \in Entry, Proper(r), r.timer.left > 0
  PROVE  LET q == [r EXCEPT !.timer.left = r.timer.left - 1]
         IN  /\ q \in Entry /\ Proper(q) /\ Alike(q, r) /\ SameCount(q, r)
             /\ q.timer.kind = r.timer.kind /\ q.timer.secs = r.timer.secs
             /\ q.timer.left = r.timer.left - 1 /\ q.prev = r.prev
<1> DEFINE t == [r.timer EXCEPT !.left = r.timer.left - 1]
           q == [r EXCEPT !.timer.left = r.timer.left - 1]
<1>1. r.timer \in Timer
  BY DEF Entry
<1>2. t \in Timer /\ t.kind = r.timer.kind /\ t.secs = r.timer.secs /\ t.left = r.timer.left - 1
  BY <1>1 DEF Timer
<1>3. q = SetTimer(r, t)
  BY DEF SetTimer, Entry
<1> HIDE DEF t, q
<1>4. q \in Entry /\ Alike(q, r) /\ SameCount(q, r) /\ q.timer = t /\ q.prev = r.prev
  BY <1>2, <1>3, WithTimer
<1>5. Proper(q)
  BY <1>1, <1>2, <1>4 DEF Proper, Alike, Timer
<1> QED
  BY <1>2, <1>4, <1>5 DEF q

\* Types and proper entries are kept by every step.
LEMMA StepKeeps == TypeOK /\ Good(entry) /\ [Next]_vars => Keeps
<1> SUFFICES ASSUME TypeOK, Good(entry), [Next]_vars PROVE Keeps
  OBVIOUS
<1> DEFINE Sent == [Entries -> [last : Int, age : Nat, steady : BOOLEAN]]
           Nv   == [stored : BOOLEAN, cnt : [Entries -> [min : Nat, max : Nat]]]
<1>0. /\ value \in [Entries -> Int] /\ bound \in [Entries -> BOOLEAN] /\ nv \in Nv
      /\ due \in BOOLEAN /\ active \in BOOLEAN /\ polled \in BOOLEAN /\ measured \in BOOLEAN
      /\ calls \in 0..MaxCalls /\ sent \in Sent
      /\ entry \in Tables /\ \A e \in Entries : entry[e] \in Entry /\ Proper(entry[e])
  BY DEF TypeOK, Good, Tables
<1>t. ASSUME Good(entry'), value' \in [Entries -> Int], bound' \in [Entries -> BOOLEAN],
             nv' \in Nv, due' \in BOOLEAN, active' \in BOOLEAN, polled' \in BOOLEAN,
             measured' \in BOOLEAN, calls' \in 0..MaxCalls, sent' \in Sent
      PROVE  Keeps
  BY <1>t DEF Keeps, TypeOK, Good, Tables
<1>call. Call => calls' \in 0..MaxCalls
  BY <1>0, ValuesAssumption DEF Call
<1>1. CASE AppTask
  <2>1. value' \in [Entries -> Int] /\ measured' \in BOOLEAN
    BY <1>0, <1>1, ValuesAssumption DEF AppTask
  <2>2. Good(entry')
    BY <1>0, <1>1, <2>1, PollAllGood DEF AppTask
  <2>3. due' \in BOOLEAN /\ polled' \in BOOLEAN
    BY <1>0, <1>1, Zenon DEF AppTask
  <2> QED
    BY <1>0, <1>1, <1>t, <2>1, <2>2, <2>3 DEF AppTask
<1>2. CASE \E e \in Entries : Expire(e)
  <2>1. PICK e \in Entries : Expire(e)
    BY <1>2
  <2>2. entry' = [entry EXCEPT ![e] = Expired(entry[e], bound[e])]
    BY <2>1 DEF Expire
  <2>3. Expired(entry[e], bound[e]) \in Entry /\ Proper(Expired(entry[e], bound[e]))
    <3> DEFINE q == Expired(entry[e], bound[e])
    <3>1. q \in Entry /\ Alike(q, entry[e]) /\ q.timer = NoTimer
      BY <1>0, ExpiredFields
    <3> HIDE DEF q
    <3>2. Proper(q)
      BY <1>0, <3>1, NoTimerType DEF Proper, Alike
    <3> QED
      BY <3>1, <3>2 DEF q
  <2>4. Good(entry')
    BY <1>0, <2>2, <2>3 DEF Good, Tables
  <2> QED
    BY <1>0, <1>t, <2>1, <2>4 DEF Expire
<1>3. CASE ReportAttrs
  <2> DEFINE R(e) == Reported(entry[e], value[e])
  <2>1. \A e \in Entries : R(e) \in Entry /\ Proper(R(e))
    <3> TAKE e \in Entries
    <3>1. R(e) \in Entry /\ Alike(R(e), entry[e]) /\ R(e).timer = entry[e].timer
      BY <1>0, ReportedFields
    <3> HIDE DEF R
    <3> QED
      BY <1>0, <3>1 DEF Proper, Alike
  <2> HIDE DEF R
  <2>2. \E valid : entry' = [e \in Entries |-> IF e \in valid THEN R(e) ELSE entry[e]]
    BY <1>3 DEF ReportAttrs, R
  <2>3. Good(entry')
    BY <1>0, <2>1, <2>2 DEF Good, Tables
  <2>4. sent' \in Sent
    <3> DEFINE fits(e) == active /\ TimerFits(entry[e])
    <3>1. \A e \in Entries : fits(e) \in BOOLEAN
      BY <1>0
    <3> HIDE DEF fits
    <3>2. \E valid : sent' = [e \in Entries |-> IF e \in valid
                                 THEN [last |-> value[e], age |-> 0, steady |-> fits(e)]
                                 ELSE sent[e]]
      BY <1>3 DEF ReportAttrs, fits
    <3> QED
      BY <1>0, <3>1, <3>2
  <2> QED
    BY <1>0, <1>3, <1>t, <2>3, <2>4 DEF ReportAttrs
<1>4. CASE \E e \in Entries : Configure(e)
  <2>1. PICK e \in Entries : Configure(e)
    BY <1>4
  <2>2. PICK s \in Requests[e] : Acceptable(s) /\ entry' = [entry EXCEPT ![e] = Update(entry[e], s)]
    BY <2>1 DEF Configure
  <2>3. s \in Setting
    BY SettingsAssumption
  <2>4. Good(entry')
    BY <1>0, <2>2, <2>3, UpdateProper DEF Good, Tables
  <2>5. nv' \in Nv
    BY <2>1, <2>4, CountersType DEF Configure, Good
  <2>6. sent' \in Sent
    BY <2>1, InterruptType DEF Configure
  <2> QED
    BY <1>0, <1>t, <1>call, <2>1, <2>4, <2>5, <2>6 DEF Configure
<1>5. CASE \E e \in Entries : ConfigureDefault(e)
  <2>1. PICK e \in Entries : ConfigureDefault(e)
    BY <1>5
  <2> DEFINE tab == [entry EXCEPT ![e] = Reset(entry[e], Default[e])]
  <2>2. Good(tab)
    BY <1>0, ResetProper DEF Good, Tables
  <2>3. entry' = PollAll(tab) /\ value' = value
    BY <2>1 DEF ConfigureDefault
  <2>4. due' \in BOOLEAN
    BY <1>0, <2>1, Zenon DEF ConfigureDefault
  <2> HIDE DEF tab
  <2>5. Good(entry')
    BY <1>0, <2>2, <2>3, PollAllGood
  <2>6. nv' \in Nv
    BY <2>1, <2>5, CountersType DEF ConfigureDefault, Good
  <2>7. sent' \in Sent
    BY <2>1, InterruptType DEF ConfigureDefault
  <2> QED
    BY <1>0, <1>t, <1>call, <2>1, <2>3, <2>4, <2>5, <2>6, <2>7 DEF ConfigureDefault
<1>6. CASE \E e \in Entries : Rebind(e)
  <2>1. PICK e \in Entries : Rebind(e)
    BY <1>6
  <2>2. bound' \in [Entries -> BOOLEAN]
    BY <1>0, <2>1 DEF Rebind
  <2>3. sent' \in Sent
    BY <2>1, InterruptType DEF Rebind
  <2>4. entry' = entry
    BY <2>1 DEF Rebind
  <2> QED
    BY <1>0, <1>t, <1>call, <2>1, <2>2, <2>3, <2>4 DEF Rebind
<1>7. CASE Activate
  <2>1. sent' \in Sent
    BY <1>7, InterruptType DEF Activate
  <2>2. entry' = entry /\ active' \in BOOLEAN
    BY <1>7 DEF Activate
  <2> QED
    BY <1>0, <1>7, <1>t, <1>call, <2>1, <2>2 DEF Activate
<1>8. CASE Reboot
  <2> DEFINE q(e) == [entry[e] EXCEPT !.minCnt = nv.cnt[e].min, !.maxCnt = nv.cnt[e].max,
                                      !.prev = IF nv.stored THEN Erased[e] ELSE 0,
                                      !.timer = NoTimer]
  <2>1. ASSUME NEW e \in Entries PROVE q(e) \in Entry /\ Proper(q(e))
    <3>1. nv.cnt[e].min \in Nat /\ nv.cnt[e].max \in Nat
          /\ (IF nv.stored THEN Erased[e] ELSE 0) \in Int /\ entry[e] \in Entry
      BY <1>0, ValuesAssumption
    <3>2. q(e) \in Entry
      BY <3>1, NoTimerType DEF Entry
    <3>3. q(e).min = entry[e].min /\ q(e).max = entry[e].max /\ q(e).timer = NoTimer
      BY <3>1 DEF Entry
    <3> QED
      BY <1>0, <3>2, <3>3, NoTimerType DEF Proper
  <2>2. entry' = [e \in Entries |-> q(e)]
    BY <1>8 DEF Reboot
  <2> HIDE DEF q
  <2>3. Good(entry')
    BY <2>1, <2>2 DEF Good, Tables
  <2>4. sent' \in Sent
    BY <1>8, InterruptType DEF Reboot
  <2> QED
    BY <1>0, <1>8, <1>t, <1>call, <2>3, <2>4, ValuesAssumption DEF Reboot
<1>9. CASE Tick
  <2> DEFINE q(e) == IF entry[e].timer.kind = "none" THEN entry[e]
                     ELSE [entry[e] EXCEPT !.timer.left = entry[e].timer.left - 1]
  <2>1. ASSUME NEW e \in Entries PROVE q(e) \in Entry /\ Proper(q(e))
    BY <1>0, <1>9, TickedFields DEF Tick
  <2>2. entry' = [e \in Entries |-> q(e)]
    BY <1>9 DEF Tick
  <2> HIDE DEF q
  <2>3. Good(entry')
    BY <2>1, <2>2 DEF Good, Tables
  <2>4. sent' \in Sent
    <3> DEFINE age(e) == IF Counted(e) THEN sent[e].age + 1 ELSE 0
    <3>1. \A e \in Entries : age(e) \in Nat
      BY <1>0
    <3>2. sent' = [e \in Entries |-> [sent[e] EXCEPT !.age = age(e)]]
      BY <1>9 DEF Tick
    <3> HIDE DEF age
    <3> QED
      BY <1>0, <3>1, <3>2
  <2> QED
    BY <1>0, <1>9, <1>t, <2>3, <2>4 DEF Tick
<1>10. CASE UNCHANGED vars
  BY <1>0, <1>10, <1>t DEF vars, Good
<1> QED
  BY <1>1, <1>2, <1>3, <1>4, <1>5, <1>6, <1>7, <1>8, <1>9, <1>10 DEF Next
-----------------------------------------------------------------------------
(***************************************************************************)
(* The course of an undisturbed entry.                                     *)
(***************************************************************************)

\* An interrupted entry is not on a course, the others keep their history.
LEMMA Interrupted ==
  ASSUME TypeOK, NEW es, Interrupt(es), NEW e \in Entries
  PROVE  /\ e \in es => ~sent'[e].steady
         /\ e \notin es => sent'[e] = sent[e]
BY DEF TypeOK, Interrupt

\* Undisturbed entries stay on their course.
LEMMA StepOnCourse == TypeOK /\ Good(entry) /\ OnCourses /\ [Next]_vars => OnCourses'
<1> SUFFICES ASSUME TypeOK, Good(entry), OnCourses, [Next]_vars,
                    NEW e \in Entries, sent'[e].steady, Periodic(e)'
             PROVE  OnCourse(e)'
  BY DEF OnCourses
<1> DEFINE r == entry[e]  age == sent[e].age
<1>0. /\ r \in Entry /\ Proper(r) /\ age \in Nat /\ value[e] \in Int
      /\ r.min \in Nat /\ r.max \in Nat /\ r.timer \in Timer
      /\ entry \in Tables
  BY DEF TypeOK, Good, Tables, Entry
<1>same. ASSUME r' = r, sent'[e] = sent[e], bound'[e] = bound[e], active' = active,
                polled' = polled \/ polled' = FALSE, due' = due \/ due' = TRUE
         PROVE  OnCourse(e)'
  <2>1. OnCourse(e)
    BY <1>same DEF OnCourses, Periodic
  <2>2. polled' => polled
    BY <1>same DEF TypeOK
  <2>3. due => due'
    BY <1>same DEF TypeOK
  <2> QED
    BY <1>same, <2>1, <2>2, <2>3 DEF OnCourse
<1>1. CASE AppTask
  <2>1. sent' = sent /\ bound' = bound /\ active' = active
    BY <1>1 DEF AppTask
  <2>2. value'[e] \in Int
    BY <1>0, <1>1, ValuesAssumption DEF AppTask, TypeOK
  <2>3. CASE ~active
    BY <1>1, <1>same, <2>1, <2>3 DEF AppTask, OnCourses, Periodic, OnCourse
  <2>4. CASE active
    <3> DEFINE q == Poll(r, value'[e], bound[e])
    <3>1. r' = q
      BY <1>1, <2>4 DEF AppTask, PollAll
    <3>2. Alike(q, r)
      BY <1>0, <2>2, PollType DEF TypeOK
    <3>3. r.max \notin {0, Never}
      BY <3>1, <3>2 DEF Alike, Periodic
    <3>4. OnCourse(e)
      BY <2>1, <3>3 DEF OnCourses, Periodic
    <3>5. bound[e] = TRUE /\ Maintained(r, bound[e])
      BY <3>3, <3>4 DEF OnCourse, Maintained, TypeOK
    <3>6. /\ Counting(r, age) \/ Fresh(r, age)
               => \/ Counting(q, age)
                  \/ Changed(r, value'[e]) /\ AtOnce(r) /\ Ready(q, age)
          /\ Ready(r, age) => Ready(q, age)
      BY <1>0, <2>2, <3>3, <3>5, PollOnCourse
    <3>7. Changed(r, value'[e]) /\ AtOnce(r) => due'
      BY <1>1, <2>4, <3>5 DEF AppTask, PollReports
    <3>8. due => due'
      BY <1>1 DEF AppTask
    <3> HIDE DEF q
    <3> QED
      BY <2>1, <3>1, <3>4, <3>6, <3>7, <3>8, Zenon DEF OnCourse
  <2> QED
    BY <2>3, <2>4
<1>2. CASE \E f \in Entries : Expire(f)
  <2>1. PICK f \in Entries : Expire(f)
    BY <1>2
  <2>2. CASE f # e
    BY <1>0, <1>same, <2>1, <2>2 DEF Expire, Tables
  <2>3. CASE f = e
    <3>1. /\ r' = Expired(r, bound[e]) /\ sent' = sent /\ bound' = bound /\ active' = active
          /\ due' = TRUE /\ r.timer.kind # "none" /\ r.timer.left = 0
      BY <1>0, <2>1, <2>3 DEF Expire, Tables
    <3>2. Alike(r', r)
      BY <1>0, <3>1, ExpiredFields DEF TypeOK
    <3>3. r.max \notin {0, Never}
      BY <3>2 DEF Alike, Periodic
    <3>4. OnCourse(e)
      BY <3>1, <3>3 DEF OnCourses, Periodic
    <3>5. bound[e] = TRUE
      BY <3>4 DEF OnCourse, TypeOK
    <3>6. Counting(r, age) \/ Fresh(r, age) \/ Ready(r, age)
      BY <3>4 DEF OnCourse
    <3>7. Ready(r', age)
      BY <1>0, <3>1, <3>3, <3>5, <3>6, ExpiredOnCourse
    <3> QED
      BY <3>1, <3>4, <3>7 DEF OnCourse
  <2> QED
    BY <2>2, <2>3
<1>3. CASE ReportAttrs
  <2>1. bound' = bound /\ active' = active /\ due /\ polled' = FALSE
    BY <1>3 DEF ReportAttrs
  <2>2. CASE Valid(r, bound[e])
    <3>1. /\ r' = Reported(r, value[e])
          /\ sent'[e] = [last |-> value[e], age |-> 0, steady |-> active /\ TimerFits(r)]
      BY <1>3, <2>2 DEF ReportAttrs
    <3>2. active /\ TimerFits(r) /\ bound[e]
      <4> DEFINE fits == active /\ TimerFits(r)
      <4>0. sent'[e] = [last |-> value[e], age |-> 0, steady |-> fits]
        BY <3>1
      <4> HIDE DEF fits
      <4>1. sent'[e].steady = fits
        BY <4>0
      <4>a. fits
        BY <4>1
      <4>2. active /\ TimerFits(r)
        BY <4>a DEF fits
      <4> QED
        BY <2>2, <4>2 DEF Valid, Maintained
    <3>a. Alike(r', r)
      BY <1>0, <3>1, ReportedFields
    <3>3. r.max \notin {0, Never}
      BY <3>a DEF Alike, Periodic
    <3>4. Counting(r', 0) \/ Fresh(r', 0)
      BY <1>0, <3>1, <3>2, <3>3, ReportedOnCourse
    <3> QED
      BY <2>1, <3>1, <3>2, <3>4 DEF OnCourse
  <2>3. CASE ~Valid(r, bound[e])
    <3>1. r' = r /\ sent'[e] = sent[e]
      BY <1>3, <2>3 DEF ReportAttrs
    <3>2. OnCourse(e)
      BY <3>1 DEF OnCourses, Periodic
    <3>3. ~Ready(r, age)
      BY <2>3, <3>2 DEF Ready, OnCourse, Valid, Maintained
    <3> QED
      BY <2>1, <3>1, <3>2, <3>3, Zenon DEF OnCourse
  <2> QED
    BY <2>2, <2>3
<1>4. CASE \E f \in Entries : Configure(f)
  <2>1. PICK f \in Entries : Configure(f)
    BY <1>4
  <2>2. f # e /\ sent'[e] = sent[e]
    BY <2>1, Interrupted DEF Configure
  <2>3. r' = r
    BY <1>0, <2>1, <2>2 DEF Configure, Tables
  <2> QED
    BY <1>same, <2>1, <2>2, <2>3 DEF Configure
<1>5. CASE \E f \in Entries : ConfigureDefault(f)
  <2>1. PICK f \in Entries : ConfigureDefault(f)
    BY <1>5
  <2>2. f # e /\ sent'[e] = sent[e]
    BY <2>1, Interrupted DEF ConfigureDefault
  <2> DEFINE q   == Poll(r, value[e], bound[e])
             tab == [entry EXCEPT ![f] = Reset(entry[f], Default[f])]
  <2>3. tab[e] = r
    BY <1>0, <2>2 DEF Tables
  <2>4. /\ entry' = PollAll(tab) /\ value' = value /\ bound' = bound /\ active' = active
        /\ polled' = FALSE
        /\ due' = (due \/ PollReports(tab))
    BY <2>1 DEF ConfigureDefault
  <2> HIDE DEF tab
  <2>5. r' = q
    BY <2>3, <2>4 DEF PollAll
  <2>6. Alike(q, r)
    BY <1>0, PollType DEF TypeOK
  <2>7. r.max \notin {0, Never}
    BY <2>5, <2>6 DEF Alike, Periodic
  <2>8. OnCourse(e)
    BY <2>2, <2>7 DEF OnCourses, Periodic
  <2>9. bound[e] = TRUE /\ Maintained(r, bound[e])
    BY <2>7, <2>8 DEF OnCourse, Maintained, TypeOK
  <2>10. /\ Counting(r, age) \/ Fresh(r, age)
              => \/ Counting(q, age)
                 \/ Changed(r, value[e]) /\ AtOnce(r) /\ Ready(q, age)
         /\ Ready(r, age) => Ready(q, age)
    BY <1>0, <2>7, <2>9, PollOnCourse
  <2>11. Changed(r, value[e]) /\ AtOnce(r) => due'
    BY <2>3, <2>4, <2>9 DEF PollReports
  <2>12. due => due'
    BY <2>4
  <2> HIDE DEF q
  <2> QED
    BY <2>2, <2>4, <2>5, <2>8, <2>10, <2>11, <2>12, Zenon DEF OnCourse
<1>6. CASE \E f \in Entries : Rebind(f)
  <2>1. PICK f \in Entries : Rebind(f)
    BY <1>6
  <2>2. f # e /\ sent'[e] = sent[e]
    BY <2>1, Interrupted DEF Rebind
  <2>3. bound'[e] = bound[e]
    BY <2>1, <2>2 DEF Rebind, TypeOK
  <2> QED
    BY <1>same, <2>1, <2>2, <2>3 DEF Rebind
<1>7. CASE Activate
  BY <1>7, Interrupted DEF Activate
<1>8. CASE Reboot
  BY <1>8, Interrupted DEF Reboot
<1>9. CASE Tick
  <2>1. /\ bound' = bound /\ active' = active /\ due' = due /\ polled' = polled
        /\ polled /\ ~due
        /\ r' = IF r.timer.kind = "none" THEN r ELSE [r EXCEPT !.timer.left = r.timer.left - 1]
        /\ r.timer.kind # "none" => r.timer.left > 0
        /\ sent'[e] = [sent[e] EXCEPT !.age = IF Counted(e) THEN age + 1 ELSE 0]
    BY <1>9 DEF Tick
  <2>2. sent[e].steady /\ age' = IF Counted(e) THEN age + 1 ELSE 0
    BY <2>1 DEF TypeOK
  <2>3. /\ Alike(r', r) /\ SameCount(r', r) /\ r'.timer.kind = r.timer.kind
        /\ r'.timer.secs = r.timer.secs
        /\ r.timer.kind # "none" => r'.timer.left = r.timer.left - 1
    <3>1. CASE r.timer.kind = "none"
      BY <2>1, <3>1 DEF Alike, SameCount
    <3>2. CASE r.timer.kind # "none"
      BY <1>0, <2>1, <3>2, TickedFields
    <3> QED
      BY <3>1, <3>2
  <2>4. r.max \notin {0, Never}
    BY <2>3 DEF Alike, Periodic
  <2>5. OnCourse(e)
    BY <2>2, <2>4 DEF OnCourses, Periodic
  <2>6. Counting(r, age)
    BY <2>1, <2>5 DEF OnCourse
  <2>7. Counted(e)
    BY <2>4, <2>5 DEF Counted, OnCourse, Maintained
  <2>8. age' = age + 1
    BY <2>2, <2>7
  <2>9. Full(r') /\ r.timer.kind # "none"
    BY <2>3, <2>6 DEF Counting, Full, Alike, SameCount
  <2>10. Counting(r', age + 1)
    BY <1>0, <2>3, <2>6, <2>9 DEF Counting, Alike, Timer
  <2> QED
    BY <2>1, <2>5, <2>8, <2>10 DEF OnCourse
<1>10. CASE UNCHANGED vars
  BY <1>10, <1>same DEF vars
<1> QED
  BY <1>1, <1>2, <1>3, <1>4, <1>5, <1>6, <1>7, <1>8, <1>9, <1>10 DEF Next
-----------------------------------------------------------------------------
(***************************************************************************)
(* After an interference: how far a counter and a timer can reach.         *)
(***************************************************************************)

\* A set of numbers with a bound has a largest one.
LEMMA Largest ==
  ASSUME NEW top \in Nat, NEW S \in SUBSET (0..top), S # {}
  PROVE  \E m \in S : \A n \in S : n <= m
<1> DEFINE T == {top - m : m \in S}
           R == OpToRel(<, Nat)
<1>1. IsWellFoundedOn(R, Nat)
  BY NatLessThanWellFounded, Zenon
<1>2. \A m \in S : m \in 0..top /\ top - m \in Nat
  OBVIOUS
<1>3. T \subseteq Nat /\ T # {}
  BY <1>2
<1>4. \A x, y \in Nat : y < x => <<y, x>> \in R
  BY DEF OpToRel
<1> HIDE DEF R, T
<1>5. PICK x \in T : \A y \in T : ~(<<y, x>> \in R)
  BY <1>1, <1>3, WFMin
<1>6. PICK m \in S : x = top - m
  BY DEF T
<1>7. \A n \in S : top - n \in T
  BY DEF T
<1>8. \A n \in S : ~(top - n < top - m)
  BY <1>3, <1>4, <1>5, <1>6, <1>7
<1> QED
  BY <1>8

\* No minimum interval that an entry ever gets is longer than LongestMin.
LEMMA LongestMinIs ==
  ASSUME NEW e \in Entries
  PROVE  /\ LongestMin \in Nat
         /\ Default[e].min <= LongestMin
         /\ \A s \in Requests[e] : s.min <= LongestMin
<1> DEFINE Of(f) == {Default[f].min} \cup {s.min : s \in Requests[f]}
           mins  == UNION {Of(f) : f \in Entries}
<1>1. ASSUME NEW f \in Entries PROVE Of(f) \subseteq 0..(Never - 1)
  <2>1. Default[f].min \in 0..(Never - 1)
    BY SettingsAssumption DEF Setting
  <2>2. \A s \in Requests[f] : s.min \in 0..(Never - 1)
    BY SettingsAssumption DEF Setting
  <2> QED
    BY <2>1, <2>2
<1>2. Default[e].min \in mins /\ \A s \in Requests[e] : s.min \in mins
  OBVIOUS
<1>3. mins \in SUBSET (0..(Never - 1)) /\ mins # {}
  BY <1>1, <1>2
<1>4. LongestMin = CHOOSE m \in mins : \A n \in mins : n <= m
  BY DEF LongestMin
<1> HIDE DEF mins
<1>5. Never - 1 \in Nat
  BY DEF Never
<1>6. \E m \in mins : \A n \in mins : n <= m
  BY <1>3, <1>5, Largest
<1>7. LongestMin \in mins /\ \A n \in mins : n <= LongestMin
  BY <1>4, <1>6
<1>8. LongestMin \in 0..(Never - 1)
  BY <1>3, <1>7
<1>9. LongestMin \in Nat
  BY <1>5, <1>8
<1> QED
  BY <1>2, <1>7, <1>9

\* A counter does not exceed its interval.
NotOver(r, minCnt, maxCnt) ==
  /\ r.min > 0 => minCnt <= r.min
  /\ r.max \notin {0, Never} => maxCnt <= r.max

\* Neither do the intervals and a minimum timer exceed the longest minimum interval.
Bounded(r) ==
  /\ r.min <= LongestMin
  /\ r.timer.kind = "min" => r.timer.secs <= LongestMin
  /\ NotOver(r, r.minCnt, r.maxCnt)

\* The counters in the saved table belong to the present setting.
AllBounded ==
  \A e \in Entries : Bounded(entry[e]) /\ NotOver(entry[e], nv.cnt[e].min, nv.cnt[e].max)

\* What a poll leaves ...
LEMMA PollBounded ==
  ASSUME NEW r \in Entry, NEW v \in Int, NEW b \in BOOLEAN, Bounded(r)
  PROVE  Bounded(Poll(r, v, b))
<1> DEFINE q == Poll(r, v, b)
<1>1. CASE ~Maintained(r, b)
  <2>1. Alike(q, r) /\ SameCount(q, r) /\ q.timer.kind = "none"
    BY <1>1, NotPolled, Stopped, NoTimerType
  <2> HIDE DEF q
  <2>2. Bounded(q)
    BY <2>1 DEF Bounded, NotOver, Alike, SameCount
  <2> QED
    BY <2>2 DEF q
<1>2. CASE Maintained(r, b)
  <2>1. PolledFrom(q, r, v)
    BY <1>2, PollOfBound, Polled
  <2> HIDE DEF q
  <2>2. Alike(q, r) /\ q.maxCnt = r.maxCnt /\ (q.minCnt = r.minCnt \/ q.minCnt = 0)
    BY <2>1 DEF PolledFrom
  <2>3. q.timer.kind = "min" => q.timer = r.timer \/ q.timer.secs = r.min
    BY <2>1, NoTimerType DEF PolledFrom
  <2>4. Bounded(q)
    BY <2>2, <2>3 DEF Bounded, NotOver, Alike, Entry
  <2> QED
    BY <2>4 DEF q
<1> QED
  BY <1>1, <1>2

\* ... the expiry of a timer ...
LEMMA ExpiredBounded ==
  ASSUME NEW r \in Entry, NEW b \in BOOLEAN, Bounded(r)
  PROVE  Bounded(Expired(r, b))
<1> DEFINE q == Expired(r, b)
<1>1. /\ Alike(q, r) /\ q.timer = NoTimer
      /\ q.minCnt = r.minCnt \/ q.minCnt = Less(r.minCnt, r.timer.secs)
      /\ q.maxCnt = r.maxCnt \/ q.maxCnt = Less(r.maxCnt, r.timer.secs)
  BY ExpiredFields
<1>2. Less(r.minCnt, r.timer.secs) <= r.minCnt /\ Less(r.maxCnt, r.timer.secs) <= r.maxCnt
  BY DEF Less, Entry, Timer
<1>3. /\ r.min \in Nat /\ r.max \in Nat /\ r.minCnt \in Nat /\ r.maxCnt \in Nat
      /\ Less(r.minCnt, r.timer.secs) \in Nat /\ Less(r.maxCnt, r.timer.secs) \in Nat
  BY DEF Less, Entry, Timer
<1> HIDE DEF q
<1>4. Bounded(q)
  BY <1>1, <1>2, <1>3, NoTimerType DEF Bounded, NotOver, Alike
<1> QED
  BY <1>4 DEF q

\* ... and a report.
LEMMA ReportedBounded ==
  ASSUME NEW r \in Entry, NEW v \in Int, Bounded(r)
  PROVE  Bounded(Reported(r, v))
<1> DEFINE q == Reported(r, v)
<1>1. /\ Alike(q, r) /\ q.timer = r.timer
      /\ q.minCnt = OrNever(r.min) /\ q.maxCnt = OrNever(r.max)
  BY ReportedFields
<1>2. r.min \in Nat /\ r.max \in Nat
  BY DEF Entry
<1> HIDE DEF q
<1>3. Bounded(q)
  BY <1>1, <1>2 DEF Bounded, NotOver, Alike, OrNever
<1> QED
  BY <1>3 DEF q

\* A setting whose minimum is one of those known.
LEMMA SetBounded ==
  ASSUME NEW r \in Entry, NEW q \in Entry, Bounded(r),
         q.min <= LongestMin, q.minCnt = q.min, q.maxCnt = q.max,
         q.timer = r.timer \/ q.timer = NoTimer
  PROVE  Bounded(q)
BY NoTimerType DEF Bounded, NotOver, Entry

\* What a request and the default make of an entry.
LEMMA UpdateFields ==
  ASSUME NEW r \in Entry, NEW s \in Setting
  PROVE  /\ Update(r, s) \in Entry
         /\ Update(r, s).min = s.min /\ Update(r, s).max = s.max
         /\ Update(r, s).minCnt = s.min /\ Update(r, s).maxCnt = s.max
         /\ Update(r, s).timer = r.timer
BY SettingFields DEF Update, Entry

\* The same of the default.
LEMMA ResetFields ==
  ASSUME NEW r \in Entry, NEW e \in Entries
  PROVE  LET q == Reset(r, Default[e])
         IN  /\ q \in Entry
             /\ q.min = Default[e].min /\ q.max = Default[e].max
             /\ q.minCnt = Default[e].min /\ q.maxCnt = Default[e].max
             /\ q.timer = NoTimer
<1> DEFINE d == Default[e]  p == Stop(r)
<1>1. d.min \in Nat /\ d.max \in Nat
  BY Defaults
<1>2. p \in Entry /\ p.timer = NoTimer
  BY Stopped
<1>3. Reset(r, d) = SetSetting(p, d.min, d.max)
  BY DEF Reset, SetSetting
<1> HIDE DEF d, p
<1>4. /\ SetSetting(p, d.min, d.max) \in Entry
      /\ SetSetting(p, d.min, d.max).min = d.min /\ SetSetting(p, d.min, d.max).max = d.max
      /\ SetSetting(p, d.min, d.max).timer = p.timer
  BY <1>1, <1>2 DEF SetSetting, Entry
<1>5. /\ SetSetting(p, d.min, d.max).minCnt = d.min
      /\ SetSetting(p, d.min, d.max).maxCnt = d.max
  BY <1>1, <1>2, WithSettingCounts
<1> QED
  BY <1>2, <1>3, <1>4, <1>5 DEF d

\* The saved counters are those of the table.
LEMMA SavedBounded ==
  ASSUME NEW tab \in Tables, \A e \in Entries : Bounded(tab[e]), NEW e \in Entries
  PROVE  NotOver(tab[e], Counters(tab)[e].min, Counters(tab)[e].max)
BY DEF Counters, Bounded

\* The table and the saved counters stay within their intervals.
LEMMA InitBounded == Init => AllBounded
<1> SUFFICES ASSUME Init, NEW e \in Entries
             PROVE  Bounded(entry[e]) /\ NotOver(entry[e], nv.cnt[e].min, nv.cnt[e].max)
  BY DEF AllBounded
<1> DEFINE d == Default[e]
<1>1. /\ d.min \in Nat /\ d.max \in Nat /\ d.min <= LongestMin
  BY Defaults, LongestMinIs
<1>2. entry[e] = New(d, 0, d.min, d.max) /\ nv.cnt = Counters(entry)
  BY DEF Init
<1> HIDE DEF d
<1>3. /\ entry[e].min = d.min /\ entry[e].max = d.max /\ entry[e].minCnt = d.min
      /\ entry[e].maxCnt = d.max /\ entry[e].timer.kind = "none"
  BY <1>2, NoTimerType DEF New
<1>4. nv.cnt[e].min = d.min /\ nv.cnt[e].max = d.max
  BY <1>2, <1>3 DEF Counters
<1> QED
  BY <1>1, <1>3, <1>4 DEF Bounded, NotOver

\* Every step keeps them there.
LEMMA StepBounded ==
  TypeOK /\ Good(entry) /\ Good(entry)' /\ AllBounded /\ [Next]_vars => AllBounded'
<1> SUFFICES ASSUME TypeOK, Good(entry), Good(entry)', AllBounded, [Next]_vars PROVE AllBounded'
  OBVIOUS
<1>0. /\ entry \in Tables /\ entry' \in Tables
      /\ \A e \in Entries : entry[e] \in Entry /\ entry'[e] \in Entry /\ Bounded(entry[e])
      /\ \A e \in Entries : NotOver(entry[e], nv.cnt[e].min, nv.cnt[e].max)
      /\ \A e \in Entries : value[e] \in Int
      /\ bound \in [Entries -> BOOLEAN] /\ \A e \in Entries : bound[e] \in BOOLEAN
  BY DEF TypeOK, Good, Tables, AllBounded
<1>alike. ASSUME NEW e \in Entries, Bounded(entry'[e]), Alike(entry'[e], entry[e]), nv' = nv
          PROVE  NotOver(entry'[e], nv'.cnt[e].min, nv'.cnt[e].max)
  BY <1>0, <1>alike DEF NotOver, Alike
<1>saved. ASSUME \A e \in Entries : Bounded(entry'[e]), nv'.cnt = Counters(entry')
          PROVE  AllBounded'
  BY <1>0, <1>saved, SavedBounded DEF AllBounded
<1>1. CASE AppTask
  <2>1. value' \in [Entries -> Int] /\ nv' = nv
    BY <1>0, <1>1, ValuesAssumption DEF AppTask, TypeOK
  <2>2. CASE active
    <3>1. entry' = PollAll(entry)
      BY <1>1, <2>2 DEF AppTask
    <3>2. ASSUME NEW e \in Entries PROVE Bounded(entry'[e]) /\ Alike(entry'[e], entry[e])
      <4>1. entry'[e] = Poll(entry[e], value'[e], bound[e])
        BY <3>1 DEF PollAll
      <4> QED
        BY <1>0, <2>1, <4>1, PollBounded, PollType DEF Good
    <3> QED
      BY <1>alike, <2>1, <3>2 DEF AllBounded
  <2>3. CASE ~active
    BY <1>0, <1>1, <2>1, <2>3 DEF AppTask, AllBounded
  <2> QED
    BY <2>2, <2>3
<1>2. CASE \E f \in Entries : Expire(f)
  <2>1. PICK f \in Entries : Expire(f)
    BY <1>2
  <2>2. entry' = [entry EXCEPT ![f] = Expired(entry[f], bound[f])] /\ nv' = nv
    BY <2>1 DEF Expire
  <2>3. ASSUME NEW e \in Entries PROVE Bounded(entry'[e]) /\ Alike(entry'[e], entry[e])
    <3>1. CASE e = f
      BY <1>0, <2>2, <3>1, ExpiredBounded, ExpiredFields DEF Tables
    <3>2. CASE e # f
      BY <1>0, <2>2, <3>2 DEF Tables, Alike
    <3> QED
      BY <3>1, <3>2
  <2> QED
    BY <1>alike, <2>2, <2>3 DEF AllBounded
<1>3. CASE ReportAttrs
  <2>1. nv' = nv
    BY <1>3 DEF ReportAttrs
  <2>2. ASSUME NEW e \in Entries PROVE Bounded(entry'[e]) /\ Alike(entry'[e], entry[e])
    <3>1. entry'[e] = Reported(entry[e], value[e]) \/ entry'[e] = entry[e]
      BY <1>3 DEF ReportAttrs
    <3>2. CASE entry'[e] = Reported(entry[e], value[e])
      BY <1>0, <3>2, ReportedBounded, ReportedFields
    <3>3. CASE entry'[e] = entry[e]
      BY <1>0, <3>3 DEF Alike
    <3> QED
      BY <3>1, <3>2, <3>3
  <2> QED
    BY <1>alike, <2>1, <2>2 DEF AllBounded
<1>4. CASE \E f \in Entries : Configure(f)
  <2>1. PICK f \in Entries : Configure(f)
    BY <1>4
  <2>2. PICK s \in Requests[f] : entry' = [entry EXCEPT ![f] = Update(entry[f], s)]
    BY <2>1 DEF Configure
  <2>3. s \in Setting /\ s.min <= LongestMin
    BY SettingsAssumption, LongestMinIs
  <2>4. Bounded(Update(entry[f], s))
    BY <1>0, <2>3, UpdateFields, SetBounded
  <2>5. \A e \in Entries : Bounded(entry'[e])
    BY <1>0, <2>2, <2>4 DEF Tables
  <2>6. nv'.cnt = Counters(entry')
    BY <2>1 DEF Configure
  <2> QED
    BY <1>saved, <2>5, <2>6
<1>5. CASE \E f \in Entries : ConfigureDefault(f)
  <2>1. PICK f \in Entries : ConfigureDefault(f)
    BY <1>5
  <2> DEFINE q == Reset(entry[f], Default[f])
             tab == [entry EXCEPT ![f] = q]
  <2>2. q \in Entry /\ Bounded(q)
    <3>1. /\ q \in Entry /\ q.min = Default[f].min /\ q.minCnt = q.min /\ q.maxCnt = q.max
          /\ q.timer = NoTimer
      BY <1>0, ResetFields
    <3>2. q.min <= LongestMin
      BY <3>1, LongestMinIs
    <3> HIDE DEF q
    <3> QED
      BY <1>0, <3>1, <3>2, SetBounded
  <2>3. entry' = PollAll(tab) /\ value' = value /\ nv'.cnt = Counters(entry')
    BY <2>1 DEF ConfigureDefault
  <2> HIDE DEF q
  <2>4. \A e \in Entries : tab[e] \in Entry /\ Bounded(tab[e])
    BY <1>0, <2>2 DEF Tables
  <2> HIDE DEF tab
  <2>5. ASSUME NEW e \in Entries PROVE Bounded(entry'[e])
    <3>1. entry'[e] = Poll(tab[e], value[e], bound[e])
      BY <2>3 DEF PollAll
    <3> QED
      BY <1>0, <2>4, <3>1, PollBounded
  <2> QED
    BY <1>saved, <2>3, <2>5
<1>6. CASE \E f \in Entries : Rebind(f)
  BY <1>6 DEF Rebind, AllBounded
<1>7. CASE Activate
  BY <1>7 DEF Activate, AllBounded
<1>8. CASE Reboot
  <2>1. ASSUME NEW e \in Entries PROVE Bounded(entry'[e]) /\ Alike(entry'[e], entry[e])
    <3> DEFINE m == nv.cnt[e].min  x == nv.cnt[e].max
               p == IF nv.stored THEN Erased[e] ELSE 0
               q == [entry[e] EXCEPT !.minCnt = m, !.maxCnt = x, !.prev = p, !.timer = NoTimer]
    <3>1. entry'[e] = q
      BY <1>8 DEF Reboot
    <3> HIDE DEF m, x, p
    <3>2. /\ Alike(q, entry[e]) /\ q.minCnt = m /\ q.maxCnt = x /\ q.timer = NoTimer
      BY <1>0 DEF Alike, Entry
    <3>3. NotOver(entry[e], m, x) /\ Bounded(entry[e])
      BY <1>0 DEF m, x
    <3> HIDE DEF q
    <3> QED
      BY <3>1, <3>2, <3>3, NoTimerType DEF Bounded, NotOver, Alike
  <2>2. nv' = nv
    BY <1>8 DEF Reboot
  <2> QED
    BY <1>alike, <2>1, <2>2 DEF AllBounded
<1>9. CASE Tick
  <2>1. nv' = nv
    BY <1>9 DEF Tick
  <2>2. ASSUME NEW e \in Entries PROVE Bounded(entry'[e]) /\ Alike(entry'[e], entry[e])
    <3>1. CASE entry[e].timer.kind = "none"
      BY <1>0, <1>9, <3>1 DEF Tick, Alike
    <3>2. CASE entry[e].timer.kind # "none"
      <4>1. entry[e].timer.left > 0
            /\ entry'[e] = [entry[e] EXCEPT !.timer.left = entry[e].timer.left - 1]
        BY <1>9, <3>2 DEF Tick
      <4>2. /\ Alike(entry'[e], entry[e]) /\ SameCount(entry'[e], entry[e])
            /\ entry'[e].timer.kind = entry[e].timer.kind
            /\ entry'[e].timer.secs = entry[e].timer.secs
        BY <1>0, <4>1, TickedFields DEF Good
      <4> QED
        BY <1>0, <4>2 DEF Bounded, NotOver, Alike, SameCount
    <3> QED
      BY <3>1, <3>2
  <2> QED
    BY <1>alike, <2>1, <2>2 DEF AllBounded
<1>10. CASE UNCHANGED vars
  BY <1>10 DEF vars, AllBounded
<1> QED
  BY <1>1, <1>2, <1>3, <1>4, <1>5, <1>6, <1>7, <1>8, <1>9, <1>10 DEF Next

-----------------------------------------------------------------------------
(***************************************************************************)
(* When an entry is reported after an interference.                        *)
(***************************************************************************)

\* Where the timer of an entry stands, age after the last report or interference: a
\* minimum timer of whatever setting; after it a maximum timer of the present one,
\* which a minimum timer of the present one may replace.
Expected(r, age) ==
  LET t == r.timer
  IN  \/ t.kind = "none" /\ age <= LongestMin
      \/ t.kind = "min" /\ age + t.left <= LongestMin
      \/ t.kind = "min" /\ t.secs = r.min /\ age + t.left <= LongestMin + r.max + r.min
      \/ t.kind = "max" /\ t.secs = r.max /\ age + t.left <= LongestMin + r.max
      \/ t.kind = "max" /\ age = 0

\* The entry goes out with the next reports.
Leaving(r, age) ==
  /\ r.minCnt = 0 \/ r.maxCnt = 0
  /\ age <= LongestMin + r.max + r.min

\* The age is counted for an entry of an active device with a binding only; there the
\* main loop has started a timer of the present setting.
Awaited(e) ==
  LET r == entry[e]  age == sent[e].age
  IN  /\ ~(active /\ bound[e]) => age = 0
      /\ active /\ bound[e] /\ polled
           => /\ r.timer.kind = "max" => r.timer.secs = r.max
              /\ r.timer.kind = "none" => due
      /\ Expected(r, age) \/ (due /\ Leaving(r, age))

AllAwaited == \A e \in Entries : Periodic(e) => Awaited(e)

\* Any timer can be left from before.
LEMMA ExpectedAtZero ==
  ASSUME NEW r \in Entry, Proper(r), Bounded(r), LongestMin \in Nat
  PROVE  Expected(r, 0)
BY DEF Expected, Proper, Bounded, Entry, Timer

\* A poll of a periodic entry that has a binding leaves a timer of the present setting,
\* or the entry goes out with the next reports.
LEMMA PollExpected ==
  ASSUME NEW r \in Entry, NEW v \in Int, NEW age \in Nat, LongestMin \in Nat,
         Proper(r), Bounded(r), r.max \notin {0, Never}
  PROVE  /\ Expected(r, age)
              => \/ Expected(Poll(r, v, TRUE), age)
                 \/ Changed(r, v) /\ AtOnce(r) /\ Leaving(Poll(r, v, TRUE), age)
         /\ Leaving(r, age) => Leaving(Poll(r, v, TRUE), age)
         /\ Poll(r, v, TRUE).timer.kind = "max" => Poll(r, v, TRUE).timer.secs = r.max
         /\ Poll(r, v, TRUE).timer.kind = "none" => Changed(r, v) /\ AtOnce(r)
<1> DEFINE q == Poll(r, v, TRUE)
<1> /\ r.min \in Nat /\ r.max \in Nat /\ r.timer \in Timer
    /\ r.timer.left \in Nat /\ r.timer.secs \in Nat
  BY DEF Entry, Timer
<1>1. PolledFrom(q, r, v)
  BY Polled DEF Maintained
<1> HIDE DEF q
<1>2. Alike(q, r) /\ q.maxCnt = r.maxCnt /\ (q.minCnt = r.minCnt \/ q.minCnt = 0)
  BY <1>1 DEF PolledFrom
<1>3. Leaving(r, age) => Leaving(q, age)
  BY <1>2 DEF Leaving, Alike
<1>4. CASE Changed(r, v) /\ AtOnce(r)
  <2>1. q.minCnt = 0 /\ q.timer.kind = "none"
    BY <1>1, <1>4, NoTimerType DEF PolledFrom
  <2>2. Expected(r, age) => age <= LongestMin + r.max + r.min
    BY DEF Expected
  <2>3. Expected(r, age) => Leaving(q, age)
    BY <1>2, <2>1, <2>2 DEF Leaving, Alike
  <2> QED
    BY <1>3, <1>4, <2>1, <2>3 DEF q
<1>5. CASE ~(Changed(r, v) /\ AtOnce(r))
  <2>1. \/ q.timer = r.timer /\ r.timer.kind = "min"
        \/ q.timer = r.timer /\ r.timer.kind = "max" /\ r.timer.secs = r.max
        \/ /\ r.timer.kind # "min"
           /\ q.timer = [kind |-> "min", secs |-> r.min, left |-> r.min]
        \/ /\ r.timer.kind = "none" \/ (r.timer.kind = "max" /\ r.timer.secs # r.max)
           /\ q.timer = [kind |-> "max", secs |-> r.max, left |-> r.max]
    BY <1>1, <1>5 DEF Timer, PolledFrom
  <2>2. Expected(r, age) => Expected(q, age)
    <3>1. CASE q.timer = r.timer
      BY <1>2, <3>1 DEF Expected, Alike
    <3>2. CASE /\ r.timer.kind # "min"
               /\ q.timer = [kind |-> "min", secs |-> r.min, left |-> r.min]
      BY <1>2, <3>2 DEF Expected, Alike
    <3>3. CASE /\ r.timer.kind = "none" \/ (r.timer.kind = "max" /\ r.timer.secs # r.max)
               /\ q.timer = [kind |-> "max", secs |-> r.max, left |-> r.max]
      BY <1>2, <3>3 DEF Expected, Alike
    <3> QED
      BY <2>1, <3>1, <3>2, <3>3
  <2>3. (q.timer.kind = "max" => q.timer.secs = r.max) /\ q.timer.kind # "none"
    BY <2>1
  <2> QED
    BY <1>3, <2>2, <2>3 DEF q
<1> QED
  BY <1>4, <1>5

\* When the timer expires, the entry goes out with the next reports, unless it was a
\* minimum timer of another setting.
LEMMA ExpiredExpected ==
  ASSUME NEW r \in Entry, NEW age \in Nat, LongestMin \in Nat, Proper(r), Bounded(r),
         r.max \notin {0, Never}, Expected(r, age) \/ Leaving(r, age),
         r.timer.kind # "none", r.timer.left = 0
  PROVE  Expected(Expired(r, TRUE), age) \/ Leaving(Expired(r, TRUE), age)
<1> DEFINE q == Expired(r, TRUE)
<1> /\ r.min \in Nat /\ r.max \in Nat /\ r.minCnt \in Nat /\ r.maxCnt \in Nat
    /\ r.timer \in Timer /\ r.timer.left \in Nat /\ r.timer.secs \in Nat
  BY DEF Entry, Timer
<1>1. /\ Alike(q, r) /\ q.timer.kind = "none"
      /\ q.minCnt = Less(r.minCnt, r.timer.secs) /\ q.maxCnt = Less(r.maxCnt, r.timer.secs)
  BY ExpiredFields, NoTimerType DEF Maintained
<1> HIDE DEF q
<1>2. CASE Leaving(r, age)
  <2>1. q.minCnt = 0 \/ q.maxCnt = 0
    BY <1>1, <1>2 DEF Leaving, Less
  <2>2. Leaving(q, age)
    BY <1>1, <1>2, <2>1 DEF Leaving, Alike
  <2> QED
    BY <2>2 DEF q
<1>3. CASE age <= LongestMin
  <2>1. Expected(q, age)
    BY <1>1, <1>3 DEF Expected
  <2> QED
    BY <2>1 DEF q
<1>4. CASE r.timer.kind = "min" /\ r.timer.secs = r.min /\ age <= LongestMin + r.max + r.min
  <2>1. r.min > 0 /\ r.minCnt <= r.min
    BY <1>4 DEF Proper, Bounded, NotOver
  <2>2. q.minCnt = 0
    BY <1>1, <1>4, <2>1 DEF Less
  <2>3. Leaving(q, age)
    BY <1>1, <1>4, <2>2 DEF Leaving, Alike
  <2> QED
    BY <2>3 DEF q
<1>5. CASE r.timer.kind = "max" /\ r.timer.secs = r.max /\ age <= LongestMin + r.max
  <2>1. r.maxCnt <= r.max
    BY DEF Bounded, NotOver
  <2>2. q.maxCnt = 0
    BY <1>1, <1>5, <2>1 DEF Less
  <2>3. age <= LongestMin + r.max + r.min
    BY <1>5
  <2>4. Leaving(q, age)
    BY <1>1, <2>2, <2>3 DEF Leaving, Alike
  <2> QED
    BY <2>4 DEF q
<1>6. CASE Expected(r, age)
  <2>1. \/ age <= LongestMin
        \/ /\ r.timer.kind = "min" /\ r.timer.secs = r.min
           /\ age <= LongestMin + r.max + r.min
        \/ /\ r.timer.kind = "max" /\ r.timer.secs = r.max
           /\ age <= LongestMin + r.max
    BY <1>6 DEF Expected
  <2> QED
    BY <1>3, <1>4, <1>5, <2>1
<1> QED
  BY <1>2, <1>6

\* Every step keeps the time within which a report is to be expected.
LEMMA StepAwaited ==
  TypeOK /\ TypeOK' /\ Good(entry) /\ Good(entry)' /\ AllBounded /\ AllBounded' /\ AllAwaited
    /\ [Next]_vars => AllAwaited'
<1> SUFFICES ASSUME TypeOK, TypeOK', Good(entry), Good(entry)', AllBounded, AllBounded',
                    AllAwaited, [Next]_vars, NEW e \in Entries, Periodic(e)'
             PROVE  Awaited(e)'
  BY DEF AllAwaited
<1> DEFINE r == entry[e]  age == sent[e].age
<1>0. /\ r \in Entry /\ Proper(r) /\ Bounded(r) /\ age \in Nat /\ value[e] \in Int
      /\ r.min \in Nat /\ r.max \in Nat /\ r.timer \in Timer
      /\ entry \in Tables /\ bound[e] \in BOOLEAN /\ LongestMin \in Nat
  BY LongestMinIs DEF TypeOK, Good, Tables, Entry, AllBounded
<1>1. /\ r' \in Entry /\ Proper(r') /\ Bounded(r') /\ r'.max \notin {0, Never}
      /\ active' \in BOOLEAN /\ polled' \in BOOLEAN /\ bound'[e] \in BOOLEAN
  BY DEF TypeOK, Good, Tables, AllBounded, Periodic
<1>zero. ASSUME age' = 0, ~polled' \/ ~active' \/ ~bound'[e] PROVE Awaited(e)'
  <2>1. Expected(r', 0)
    BY <1>0, <1>1, ExpectedAtZero
  <2> QED
    BY <1>zero, <2>1 DEF Awaited
<1>same. ASSUME r' = r, sent'[e] = sent[e], bound'[e] = bound[e], active' = active,
                polled' = polled \/ polled' = FALSE, due' = due \/ due' = TRUE
         PROVE  Awaited(e)'
  <2>1. Awaited(e)
    BY <1>same DEF AllAwaited, Periodic
  <2>2. polled' => polled
    BY <1>same DEF TypeOK
  <2>3. due => due'
    BY <1>same DEF TypeOK
  <2> QED
    BY <1>same, <2>1, <2>2, <2>3 DEF Awaited
\* A poll of the entry while the device is active.
<1>poll. ASSUME NEW v \in Int, r' = Poll(r, v, bound[e]), Changed(r, v) /\ AtOnce(r)
                  /\ Maintained(r, bound[e]) => due', due => due',
                sent'[e] = sent[e], bound'[e] = bound[e], active' = active, active, bound[e]
         PROVE  Awaited(e)'
  <2> DEFINE q == Poll(r, v, TRUE)
  <2>1. r' = q
    BY <1>0, <1>poll
  <2>2. Alike(q, r)
    BY <1>0, <1>poll, PollType
  <2>3. r.max \notin {0, Never}
    BY <1>1, <2>1, <2>2 DEF Alike
  <2>4. Awaited(e) /\ Maintained(r, bound[e])
    BY <1>poll, <2>3 DEF AllAwaited, Periodic, Maintained
  <2>5. /\ Expected(r, age) => Expected(q, age) \/ (Changed(r, v) /\ AtOnce(r) /\ Leaving(q, age))
        /\ Leaving(r, age) => Leaving(q, age)
        /\ q.timer.kind = "max" => q.timer.secs = r.max
        /\ q.timer.kind = "none" => Changed(r, v) /\ AtOnce(r)
    BY <1>0, <1>poll, <2>3, PollExpected
  <2> HIDE DEF q
  <2>6. Expected(r, age) \/ (due /\ Leaving(r, age))
    BY <2>4 DEF Awaited
  <2>7. Expected(q, age) \/ (due' /\ Leaving(q, age))
    BY <1>poll, <2>4, <2>5, <2>6
  <2>8. (q.timer.kind = "max" => q.timer.secs = q.max) /\ (q.timer.kind = "none" => due')
    BY <1>poll, <2>2, <2>4, <2>5 DEF Alike
  <2> QED
    BY <1>poll, <2>1, <2>7, <2>8 DEF Awaited
<1>2. CASE AppTask
  <2>1. sent' = sent /\ bound' = bound /\ active' = active
    BY <1>2 DEF AppTask
  <2>2. value'[e] \in Int
    BY DEF TypeOK
  <2>3. CASE active /\ bound[e]
    <3>1. r' = Poll(r, value'[e], bound[e])
      BY <1>2, <2>3 DEF AppTask, PollAll
    <3>2. /\ Changed(r, value'[e]) /\ AtOnce(r) /\ Maintained(r, bound[e]) => due'
          /\ due => due'
      BY <1>2, <2>3 DEF AppTask, PollReports
    <3> QED
      BY <1>poll, <2>1, <2>2, <2>3, <3>1, <3>2
  <2>4. CASE ~(active /\ bound[e])
    <3>1. r'.max = r.max
      <4>1. CASE active
        <5>1. r' = Poll(r, value'[e], bound[e])
          BY <1>2, <4>1 DEF AppTask, PollAll
        <5> QED
          BY <1>0, <2>2, <5>1, PollType DEF Alike
      <4>2. CASE ~active
        BY <1>2, <4>2 DEF AppTask
      <4> QED
        BY <4>1, <4>2
    <3>2. Awaited(e)
      BY <1>1, <3>1 DEF AllAwaited, Periodic
    <3>3. age = 0
      BY <2>4, <3>2 DEF Awaited
    <3> QED
      BY <1>zero, <2>1, <2>4, <3>3
  <2> QED
    BY <2>3, <2>4
<1>3. CASE \E f \in Entries : Expire(f)
  <2>1. PICK f \in Entries : Expire(f)
    BY <1>3
  <2>2. CASE f # e
    BY <1>0, <1>same, <2>1, <2>2 DEF Expire, Tables
  <2>3. CASE f = e
    <3>1. /\ r' = Expired(r, bound[e]) /\ sent' = sent /\ bound' = bound /\ active' = active
          /\ due' = TRUE /\ polled' = FALSE /\ r.timer.kind # "none" /\ r.timer.left = 0
      BY <1>0, <2>1, <2>3 DEF Expire, Tables
    <3>2. Alike(r', r)
      BY <1>0, <3>1, ExpiredFields
    <3>3. r.max \notin {0, Never} /\ Awaited(e)
      BY <1>1, <3>2 DEF Alike, AllAwaited, Periodic
    <3>4. CASE ~bound[e]
      BY <1>zero, <3>1, <3>3, <3>4 DEF Awaited
    <3>5. CASE bound[e]
      <4>1. r' = Expired(r, TRUE)
        BY <1>0, <3>1, <3>5
      <4>2. Expected(r, age) \/ Leaving(r, age)
        BY <3>3 DEF Awaited
      <4>3. Expected(r', age) \/ Leaving(r', age)
        BY <1>0, <3>1, <3>3, <4>1, <4>2, ExpiredExpected
      <4> QED
        BY <3>1, <3>3, <4>3 DEF Awaited
    <3> QED
      BY <3>4, <3>5
  <2> QED
    BY <2>2, <2>3
<1>4. CASE ReportAttrs
  <2>1. bound' = bound /\ active' = active /\ polled' = FALSE
    BY <1>4 DEF ReportAttrs
  <2>2. CASE Valid(r, bound[e])
    <3>1. age' = 0
      BY <1>4, <2>2 DEF ReportAttrs
    <3> QED
      BY <1>zero, <2>1, <3>1
  <2>3. CASE ~Valid(r, bound[e])
    <3>1. r' = r /\ sent'[e] = sent[e]
      BY <1>4, <2>3 DEF ReportAttrs
    <3>2. Awaited(e) /\ r.max \notin {0, Never}
      BY <1>1, <3>1 DEF AllAwaited, Periodic
    <3>3. CASE ~bound[e]
      BY <1>zero, <2>1, <3>1, <3>2, <3>3 DEF Awaited
    <3>4. CASE bound[e]
      <4>1. ~Leaving(r, age)
        BY <2>3, <3>2, <3>4 DEF Leaving, Valid, Maintained
      <4>2. Expected(r, age)
        BY <3>2, <4>1 DEF Awaited
      <4> QED
        BY <2>1, <3>1, <3>2, <4>2 DEF Awaited
    <3> QED
      BY <3>3, <3>4
  <2> QED
    BY <2>2, <2>3
<1>i. ASSUME NEW es, Interrupt(es)
      PROVE  (e \in es => age' = 0) /\ (e \notin es => sent'[e] = sent[e])
  BY <1>i DEF Interrupt, TypeOK
<1>5. CASE \E f \in Entries : Configure(f)
  <2>1. PICK f \in Entries : Configure(f)
    BY <1>5
  <2>2. CASE f = e
    BY <1>i, <1>zero, <2>1, <2>2 DEF Configure
  <2>3. CASE f # e
    <3>1. r' = r /\ sent'[e] = sent[e]
      BY <1>0, <1>i, <2>1, <2>3 DEF Configure, Tables
    <3> QED
      BY <1>same, <2>1, <3>1 DEF Configure
  <2> QED
    BY <2>2, <2>3
<1>6. CASE \E f \in Entries : ConfigureDefault(f)
  <2>1. PICK f \in Entries : ConfigureDefault(f)
    BY <1>6
  <2> DEFINE tab == [entry EXCEPT ![f] = Reset(entry[f], Default[f])]
  <2>2. /\ entry' = PollAll(tab) /\ value' = value /\ bound' = bound /\ active' = active
        /\ polled' = FALSE /\ Interrupt({f})
        /\ due' = (due \/ PollReports(tab))
    BY <2>1 DEF ConfigureDefault
  <2>3. CASE f = e
    BY <1>i, <1>zero, <2>2, <2>3
  <2>4. CASE f # e
    <3>1. tab[e] = r /\ sent'[e] = sent[e]
      BY <1>0, <1>i, <2>2, <2>4 DEF Tables
    <3> HIDE DEF tab
    <3>2. r' = Poll(r, value[e], bound[e])
      BY <2>2, <3>1 DEF PollAll
    <3>3. CASE active /\ bound[e]
      <4>1. /\ Changed(r, value[e]) /\ AtOnce(r) /\ Maintained(r, bound[e]) => due'
            /\ due => due'
        BY <2>2, <3>1 DEF PollReports
      <4> QED
        BY <1>0, <1>poll, <2>2, <3>1, <3>2, <3>3, <4>1
    <3>4. CASE ~(active /\ bound[e])
      <4>1. r'.max = r.max
        BY <1>0, <3>2, PollType DEF Alike
      <4>2. Awaited(e)
        BY <1>1, <4>1 DEF AllAwaited, Periodic
      <4>3. age = 0
        BY <3>4, <4>2 DEF Awaited
      <4> QED
        BY <1>zero, <2>2, <3>1, <4>3
    <3> QED
      BY <3>3, <3>4
  <2> QED
    BY <2>3, <2>4
<1>7. CASE \E f \in Entries : Rebind(f)
  <2>1. PICK f \in Entries : Rebind(f)
    BY <1>7
  <2>2. CASE f = e
    BY <1>i, <1>zero, <2>1, <2>2 DEF Rebind
  <2>3. CASE f # e
    <3>1. sent'[e] = sent[e] /\ bound'[e] = bound[e]
      BY <1>i, <2>1, <2>3 DEF Rebind, TypeOK
    <3> QED
      BY <1>same, <2>1, <3>1 DEF Rebind
  <2> QED
    BY <2>2, <2>3
<1>8. CASE Activate
  BY <1>i, <1>zero, <1>8 DEF Activate
<1>9. CASE Reboot
  BY <1>i, <1>zero, <1>9 DEF Reboot
<1>10. CASE Tick
  <2>1. /\ bound' = bound /\ active' = active /\ polled' = polled /\ due' = due
        /\ polled /\ ~due
        /\ r' = IF r.timer.kind = "none" THEN r ELSE [r EXCEPT !.timer.left = r.timer.left - 1]
        /\ r.timer.kind # "none" => r.timer.left > 0
        /\ sent'[e] = [sent[e] EXCEPT !.age = IF Counted(e) THEN age + 1 ELSE 0]
    BY <1>10 DEF Tick
  <2>2. age' = IF Counted(e) THEN age + 1 ELSE 0
    BY <2>1 DEF TypeOK
  <2>3. /\ Alike(r', r) /\ r'.timer.kind = r.timer.kind /\ r'.timer.secs = r.timer.secs
        /\ r.timer.kind # "none" => r'.timer.left = r.timer.left - 1
    <3>1. CASE r.timer.kind = "none"
      BY <2>1, <3>1 DEF Alike
    <3>2. CASE r.timer.kind # "none"
      BY <1>0, <2>1, <3>2, TickedFields
    <3> QED
      BY <3>1, <3>2
  <2>4. Awaited(e) /\ r.max \notin {0, Never}
    BY <1>1, <2>3 DEF Alike, AllAwaited, Periodic
  <2>5. CASE ~(active /\ bound[e])
    <3>1. age' = 0
      BY <2>2, <2>5 DEF Counted, Maintained
    <3> QED
      BY <1>zero, <2>1, <2>5, <3>1
  <2>6. CASE active /\ bound[e]
    <3>1. age' = age + 1
      BY <2>2, <2>4, <2>6 DEF Counted, Maintained
    <3>2. r.timer.kind # "none" /\ (r.timer.kind = "max" => r.timer.secs = r.max)
      BY <2>1, <2>4, <2>6 DEF Awaited
    <3>3. Expected(r, age)
      BY <2>1, <2>4 DEF Awaited
    <3>4. r.timer.left \in Nat /\ r.timer.secs \in Nat /\ r.timer.left <= r.timer.secs
      BY <1>0 DEF Timer, Proper
    <3>5. Expected(r', age + 1)
      BY <1>0, <2>3, <3>2, <3>3, <3>4 DEF Expected, Alike
    <3>6. r'.timer.kind # "none" /\ (r'.timer.kind = "max" => r'.timer.secs = r'.max)
      BY <2>3, <3>2 DEF Alike
    <3> QED
      BY <2>1, <2>6, <3>1, <3>5, <3>6 DEF Awaited
  <2> QED
    BY <2>5, <2>6
<1>11. CASE UNCHANGED vars
  BY <1>11, <1>same DEF vars
<1> QED
  BY <1>2, <1>3, <1>4, <1>5, <1>6, <1>7, <1>8, <1>9, <1>10, <1>11 DEF Next

-----------------------------------------------------------------------------
(***************************************************************************)
(* A change of an undisturbed entry.                                       *)
(***************************************************************************)

\* The last report told the value compared with, unless a minimum timer runs or the
\* entry goes out with the next reports; p: the main loop has compared the value v.
Told(r, last, v, p, d) ==
  /\ r.timer.kind = "min" => r.timer.secs = r.min
  /\ \/ r.timer.kind = "min"
     \/ d /\ r.minCnt = 0
     \/ r.prev = last /\ (p => ~Changed(r, v))

Settled(e) ==
  /\ active /\ bound[e] /\ entry[e].max # Never
  /\ Told(entry[e], sent[e].last, value[e], polled, due)

AllSettled == \A e \in Entries : sent[e].steady => Settled(e)

\* q is what a poll makes of r: it starts a minimum timer or makes the entry go out with
\* the next reports if v is a change, and it takes back neither.
Seen(q, r, v) ==
  /\ q.max = r.max
  /\ q.timer.kind = "min" => q.timer.secs = q.min
  /\ r.timer.kind = "min" => q.timer.kind = "min" \/ (Changed(r, v) /\ AtOnce(r))
  /\ r.minCnt = 0 \/ (Changed(r, v) /\ AtOnce(r)) => q.minCnt = 0
  /\ \/ q.timer.kind = "min"
     \/ Changed(r, v) /\ AtOnce(r)
     \/ q.prev = r.prev /\ ~Changed(q, v)

\* A poll sees every change.
LEMMA PollSees ==
  ASSUME NEW r \in Entry, NEW v \in Int, r.max # Never,
         r.timer.kind = "min" => r.timer.secs = r.min
  PROVE  Seen(Poll(r, v, TRUE), r, v)
<1> DEFINE q == Poll(r, v, TRUE)
<1>1. PolledFrom(q, r, v)
  BY Polled DEF Maintained
<1> HIDE DEF q
<1>2. Alike(q, r)
  BY <1>1 DEF PolledFrom
<1>3. CASE Changed(r, v) /\ AtOnce(r)
  <2>1. q.minCnt = 0 /\ q.timer.kind = "none"
    BY <1>1, <1>3, NoTimerType DEF PolledFrom
  <2>2. Seen(q, r, v)
    BY <1>2, <1>3, <2>1 DEF Seen, Alike
  <2> QED
    BY <2>2 DEF q
<1>4. CASE Changed(r, v) /\ ~AtOnce(r)
  <2>1. q.timer.kind = "min" /\ q.timer.secs = r.min /\ q.minCnt = r.minCnt
    BY <1>1, <1>4 DEF PolledFrom
  <2>2. Seen(q, r, v)
    BY <1>2, <1>4, <2>1 DEF Seen, Alike
  <2> QED
    BY <2>2 DEF q
<1>5. CASE ~Changed(r, v)
  <2>1. q.prev = r.prev /\ q.minCnt = r.minCnt
    BY <1>1, <1>5 DEF PolledFrom
  <2>2. ~Changed(q, v)
    BY <1>2, <1>5, <2>1 DEF Changed, Alike
  <2>3. /\ r.timer.kind = "min" => q.timer = r.timer
        /\ q.timer.kind = "min" => q.timer = r.timer
    BY <1>1, <1>5, NoTimerType DEF PolledFrom
  <2>4. Seen(q, r, v)
    BY <1>2, <1>5, <2>1, <2>2, <2>3 DEF Seen, Alike
  <2> QED
    BY <2>4 DEF q
<1> QED
  BY <1>3, <1>4, <1>5

\* With the minimum timer the minimum counter comes to 0.
LEMMA ExpiredTold ==
  ASSUME NEW r \in Entry, r.max # Never, Proper(r), Bounded(r), r.timer.kind # "none",
         NEW last, NEW v, NEW p, NEW d, Told(r, last, v, p, d)
  PROVE  Told(Expired(r, TRUE), last, v, FALSE, TRUE)
<1> DEFINE q == Expired(r, TRUE)
<1> /\ r.min \in Nat /\ r.max \in Nat /\ r.minCnt \in Nat /\ r.timer \in Timer
    /\ r.timer.secs \in Nat
  BY DEF Entry, Timer
<1>1. /\ q.timer.kind = "none" /\ q.prev = r.prev
      /\ q.minCnt = Less(r.minCnt, r.timer.secs)
  BY ExpiredFields, NoTimerType DEF Maintained
<1> HIDE DEF q
<1>2. CASE r.timer.kind = "min"
  <2>1. r.timer.secs = r.min /\ r.min > 0 /\ r.minCnt <= r.min
    BY <1>2 DEF Told, Proper, Bounded, NotOver
  <2>2. q.minCnt = 0
    BY <1>1, <2>1 DEF Less
  <2>3. Told(q, last, v, FALSE, TRUE)
    BY <1>1, <2>2 DEF Told
  <2> QED
    BY <2>3 DEF q
<1>3. CASE r.minCnt = 0
  <2>1. q.minCnt = 0
    BY <1>1, <1>3 DEF Less
  <2>2. Told(q, last, v, FALSE, TRUE)
    BY <1>1, <2>1 DEF Told
  <2> QED
    BY <2>2 DEF q
<1>4. CASE r.prev = last
  <2>1. Told(q, last, v, FALSE, TRUE)
    BY <1>1, <1>4 DEF Told
  <2> QED
    BY <2>1 DEF q
<1> QED
  BY <1>2, <1>3, <1>4 DEF Told

\* A report tells the value.
LEMMA ReportedTold ==
  ASSUME NEW r \in Entry, NEW v \in Int, TimerFits(r), NEW d
  PROVE  Told(Reported(r, v), v, v, FALSE, d) /\ Reported(r, v).max = r.max
<1> DEFINE q == Reported(r, v)
<1>1. Alike(q, r) /\ q.timer = r.timer /\ q.prev = v
  BY ReportedFields
<1> HIDE DEF q
<1>2. Told(q, v, v, FALSE, d)
  BY <1>1 DEF Told, TimerFits, Alike
<1> QED
  BY <1>1, <1>2 DEF q, Alike

\* No step loses a change of an undisturbed entry.
LEMMA StepSettled ==
  TypeOK /\ TypeOK' /\ Good(entry) /\ AllBounded /\ AllSettled /\ [Next]_vars => AllSettled'
<1> SUFFICES ASSUME TypeOK, TypeOK', Good(entry), AllBounded, AllSettled, [Next]_vars,
                    NEW e \in Entries, sent'[e].steady
             PROVE  Settled(e)'
  BY DEF AllSettled
<1> DEFINE r == entry[e]  last == sent[e].last
<1>0. /\ r \in Entry /\ Proper(r) /\ Bounded(r) /\ value[e] \in Int
      /\ entry \in Tables /\ bound[e] \in BOOLEAN /\ due \in BOOLEAN /\ due' \in BOOLEAN
      /\ polled \in BOOLEAN
  BY DEF TypeOK, Good, Tables, AllBounded
<1>was. ASSUME sent'[e] = sent[e]
        PROVE  /\ active /\ bound[e] /\ r.max # Never /\ Maintained(r, bound[e])
               /\ Told(r, last, value[e], polled, due)
  BY <1>was DEF AllSettled, Settled, Maintained
<1>same. ASSUME r' = r, sent'[e] = sent[e], bound'[e] = bound[e], active' = active,
                value'[e] = value[e],
                polled' = polled \/ polled' = FALSE, due' = due \/ due' = TRUE
         PROVE  Settled(e)'
  <2>1. Told(r, last, value[e], polled, due)
    BY <1>same, <1>was
  <2>2. (polled' => polled) /\ (due => due')
    BY <1>0, <1>same
  <2>3. Told(r, last, value[e], polled', due')
    BY <2>1, <2>2 DEF Told
  <2> QED
    BY <1>same, <1>was, <2>3 DEF Settled
\* A poll of the entry.
<1>poll. ASSUME value'[e] \in Int, r' = Poll(r, value'[e], bound[e]),
                Changed(r, value'[e]) /\ AtOnce(r) /\ Maintained(r, bound[e]) => due',
                due => due', sent'[e] = sent[e], bound'[e] = bound[e], active' = active
         PROVE  Settled(e)'
  <2>1. /\ active /\ bound[e] /\ r.max # Never /\ Maintained(r, bound[e])
        /\ Told(r, last, value[e], polled, due)
    BY <1>poll, <1>was
  <2>2. r' = Poll(r, value'[e], TRUE)
    BY <1>0, <1>poll, <2>1
  <2>3. Changed(r, value'[e]) /\ AtOnce(r) => due'
    BY <1>poll, <2>1
  <2>4. Seen(r', r, value'[e])
    BY <1>0, <1>poll, <2>1, <2>2, PollSees DEF Told
  <2>5. Told(r', last, value'[e], polled', due')
    BY <1>poll, <2>1, <2>3, <2>4 DEF Told, Seen
  <2> QED
    BY <1>poll, <2>1, <2>4, <2>5 DEF Settled, Seen
<1>i. ASSUME NEW es, Interrupt(es) PROVE e \notin es /\ sent'[e] = sent[e]
  BY <1>i, Interrupted
<1>1. CASE AppTask
  <2>1. sent' = sent /\ bound' = bound /\ active' = active /\ value'[e] \in Int
    BY <1>1 DEF AppTask, TypeOK
  <2>2. active
    BY <1>was, <2>1
  <2>3. r' = Poll(r, value'[e], bound[e])
    BY <1>1, <2>2 DEF AppTask, PollAll
  <2>4. /\ Changed(r, value'[e]) /\ AtOnce(r) /\ Maintained(r, bound[e]) => due'
        /\ due => due'
    BY <1>1, <2>2 DEF AppTask, PollReports
  <2> QED
    BY <1>poll, <2>1, <2>3, <2>4
<1>2. CASE \E f \in Entries : Expire(f)
  <2>1. PICK f \in Entries : Expire(f)
    BY <1>2
  <2>2. CASE f # e
    BY <1>0, <1>same, <2>1, <2>2 DEF Expire, Tables
  <2>3. CASE f = e
    <3>1. /\ r' = Expired(r, bound[e]) /\ sent' = sent /\ bound' = bound /\ active' = active
          /\ value' = value /\ due' = TRUE /\ polled' = FALSE /\ r.timer.kind # "none"
      BY <1>0, <2>1, <2>3 DEF Expire, Tables
    <3>2. /\ active /\ bound[e] = TRUE /\ r.max # Never
          /\ Told(r, last, value[e], polled, due)
      BY <1>0, <1>was, <3>1
    <3>3. r' = Expired(r, TRUE)
      BY <3>1, <3>2
    <3>4. Told(r', last, value[e], FALSE, TRUE)
      BY <1>0, <3>1, <3>2, <3>3, ExpiredTold
    <3>5. r'.max = r.max
      <4>1. Alike(Expired(r, TRUE), r)
        BY <1>0, ExpiredFields
      <4> QED
        BY <3>3, <4>1 DEF Alike
    <3> QED
      BY <3>1, <3>2, <3>4, <3>5 DEF Settled
  <2> QED
    BY <2>2, <2>3
<1>3. CASE ReportAttrs
  <2>1. bound' = bound /\ active' = active /\ value' = value /\ due' = FALSE /\ polled' = FALSE
    BY <1>3 DEF ReportAttrs
  <2>2. CASE Valid(r, bound[e])
    <3> DEFINE fits == active /\ TimerFits(r)
    <3>1. /\ r' = Reported(r, value[e])
          /\ sent'[e] = [last |-> value[e], age |-> 0, steady |-> fits]
      BY <1>3, <2>2 DEF ReportAttrs
    <3> HIDE DEF fits
    <3>2. sent'[e].steady = fits /\ sent'[e].last = value[e]
      BY <3>1
    <3>3. active /\ TimerFits(r)
      BY <3>2 DEF fits
    <3>4. Told(r', value[e], value[e], FALSE, due') /\ r'.max = r.max
      BY <1>0, <3>1, <3>3, ReportedTold
    <3>5. bound[e] /\ r.max # Never
      BY <2>2 DEF Valid, Maintained
    <3> QED
      BY <2>1, <3>2, <3>3, <3>4, <3>5 DEF Settled
  <2>3. CASE ~Valid(r, bound[e])
    <3>1. r' = r /\ sent'[e] = sent[e]
      BY <1>3, <2>3 DEF ReportAttrs
    <3>2. /\ active /\ bound[e] /\ r.max # Never /\ Maintained(r, bound[e])
          /\ Told(r, last, value[e], polled, due)
      BY <1>was, <3>1
    <3>3. r.minCnt # 0
      BY <2>3, <3>2 DEF Valid
    <3>4. Told(r, last, value[e], FALSE, FALSE)
      BY <3>2, <3>3 DEF Told
    <3> QED
      BY <2>1, <3>1, <3>2, <3>4 DEF Settled
  <2> QED
    BY <2>2, <2>3
<1>4. CASE \E f \in Entries : Configure(f)
  <2>1. PICK f \in Entries : Configure(f)
    BY <1>4
  <2>2. f # e /\ sent'[e] = sent[e]
    BY <1>i, <2>1 DEF Configure
  <2>3. r' = r
    BY <1>0, <2>1, <2>2 DEF Configure, Tables
  <2> QED
    BY <1>same, <2>1, <2>2, <2>3 DEF Configure
<1>5. CASE \E f \in Entries : ConfigureDefault(f)
  <2>1. PICK f \in Entries : ConfigureDefault(f)
    BY <1>5
  <2>2. f # e /\ sent'[e] = sent[e]
    BY <1>i, <2>1 DEF ConfigureDefault
  <2> DEFINE tab == [entry EXCEPT ![f] = Reset(entry[f], Default[f])]
  <2>3. tab[e] = r
    BY <1>0, <2>2 DEF Tables
  <2>4. /\ entry' = PollAll(tab) /\ value' = value /\ bound' = bound /\ active' = active
        /\ due' = (due \/ PollReports(tab))
    BY <2>1 DEF ConfigureDefault
  <2> HIDE DEF tab
  <2>5. r' = Poll(r, value'[e], bound[e])
    BY <2>3, <2>4 DEF PollAll
  <2>6. /\ Changed(r, value'[e]) /\ AtOnce(r) /\ Maintained(r, bound[e]) => due'
        /\ due => due'
    BY <2>3, <2>4 DEF PollReports
  <2> QED
    BY <1>0, <1>poll, <2>2, <2>4, <2>5, <2>6
<1>6. CASE \E f \in Entries : Rebind(f)
  <2>1. PICK f \in Entries : Rebind(f)
    BY <1>6
  <2>2. f # e /\ sent'[e] = sent[e]
    BY <1>i, <2>1 DEF Rebind
  <2>3. bound'[e] = bound[e]
    BY <2>1, <2>2 DEF Rebind, TypeOK
  <2> QED
    BY <1>same, <2>1, <2>2, <2>3 DEF Rebind
<1>7. CASE Activate
  BY <1>i, <1>7 DEF Activate
<1>8. CASE Reboot
  BY <1>i, <1>8 DEF Reboot
<1>9. CASE Tick
  <2>1. /\ bound' = bound /\ active' = active /\ polled' = polled /\ due' = due
        /\ value' = value
        /\ r' = IF r.timer.kind = "none" THEN r ELSE [r EXCEPT !.timer.left = r.timer.left - 1]
        /\ r.timer.kind # "none" => r.timer.left > 0
        /\ sent'[e] = [sent[e] EXCEPT !.age = IF Counted(e) THEN sent[e].age + 1 ELSE 0]
    BY <1>9 DEF Tick
  <2>2. sent'[e].steady = sent[e].steady /\ sent'[e].last = last
    BY <2>1 DEF TypeOK
  <2>3. /\ Alike(r', r) /\ SameCount(r', r) /\ r'.timer.kind = r.timer.kind
        /\ r'.timer.secs = r.timer.secs /\ r'.prev = r.prev
    <3>1. CASE r.timer.kind = "none"
      BY <2>1, <3>1 DEF Alike, SameCount
    <3>2. CASE r.timer.kind # "none"
      BY <1>0, <2>1, <3>2, TickedFields
    <3> QED
      BY <3>1, <3>2
  <2>4. Settled(e)
    BY <2>2 DEF AllSettled
  <2>5. Changed(r', value[e]) <=> Changed(r, value[e])
    BY <2>3 DEF Changed, Alike
  <2>6. Told(r', last, value[e], polled, due)
    BY <2>3, <2>4, <2>5 DEF Settled, Told, Alike, SameCount
  <2> QED
    BY <2>1, <2>2, <2>3, <2>4, <2>6 DEF Settled, Alike
<1>10. CASE UNCHANGED vars
  BY <1>10, <1>same DEF vars
<1> QED
  BY <1>1, <1>2, <1>3, <1>4, <1>5, <1>6, <1>7, <1>8, <1>9, <1>10 DEF Next

-----------------------------------------------------------------------------
(***************************************************************************)
(* The theorems.                                                           *)
(***************************************************************************)

IInv == TypeOK /\ Good(entry) /\ OnCourses /\ AllBounded /\ AllAwaited /\ AllSettled

\* The invariant holds at the start and is kept.
LEMMA Inductive == Spec => []IInv
<1>1. Init => IInv
  <2> SUFFICES ASSUME Init PROVE IInv
    OBVIOUS
  <2>1. TypeOK /\ Good(entry) /\ AllBounded
    BY InitGood, InitBounded
  <2>2. \A e \in Entries : sent[e].age = 0 /\ ~sent[e].steady /\ ~polled
    BY DEF Init
  <2>3. ASSUME NEW e \in Entries PROVE Awaited(e)
    <3>1. Expected(entry[e], 0)
      BY <2>1, LongestMinIs, ExpectedAtZero DEF Good, Tables, AllBounded
    <3> QED
      BY <2>2, <3>1 DEF Awaited
  <2> QED
    BY <2>1, <2>2, <2>3 DEF IInv, OnCourses, AllAwaited, AllSettled
<1>2. IInv /\ [Next]_vars => IInv'
  <2> SUFFICES ASSUME IInv, [Next]_vars PROVE IInv'
    OBVIOUS
  <2>1. TypeOK' /\ Good(entry)'
    BY StepKeeps DEF IInv, Keeps
  <2>2. OnCourses'
    BY StepOnCourse DEF IInv
  <2>3. AllBounded'
    BY <2>1, StepBounded DEF IInv
  <2>4. AllAwaited'
    BY <2>1, <2>3, StepAwaited DEF IInv
  <2>5. AllSettled'
    BY <2>1, StepSettled DEF IInv
  <2> QED
    BY <2>1, <2>2, <2>3, <2>4, <2>5 DEF IInv
<1> QED
  BY <1>1, <1>2, PTL DEF Spec

\* Entries keep their types and counters their range.
THEOREM Typing == Spec => []TypeOK
<1>1. IInv => TypeOK
  BY DEF IInv
<1> QED
  BY <1>1, Inductive, PTL

\* While nothing interferes, an entry with a maximum interval is reported within
\* both intervals after its last report, for every table, configuration and
\* sequence of measurements.
THEOREM InTime == Spec => []ReportedInTime
<1>1. IInv => ReportedInTime
  <2> SUFFICES ASSUME IInv, NEW e \in Entries, sent[e].steady, Periodic(e)
               PROVE  sent[e].age <= entry[e].max + entry[e].min
    BY DEF ReportedInTime
  <2> DEFINE r == entry[e]  age == sent[e].age
  <2>1. /\ r.min \in Nat /\ r.max \in Nat /\ r.timer.left \in Nat /\ age \in Nat
    BY DEF IInv, TypeOK, Entry, Timer
  <2>2. Counting(r, age) \/ Fresh(r, age) \/ Ready(r, age)
    BY DEF IInv, OnCourses, OnCourse
  <2>3. Counting(r, age) => age <= r.max + r.min
    BY <2>1 DEF Counting
  <2>4. Fresh(r, age) => age <= r.max + r.min
    BY <2>1 DEF Fresh
  <2>5. Ready(r, age) => age <= r.max + r.min
    BY DEF Ready
  <2> QED
    BY <2>2, <2>3, <2>4, <2>5
<1> QED
  BY <1>1, Inductive, PTL

\* Whatever interferes - a setting while a timer of an earlier one runs, a lost binding,
\* a reboot with old counters - an entry with a maximum interval is reported within
\* both its intervals and the longest minimum interval of any setting after it.
THEOREM InTimeAgain == Spec => []ReportedAgain
<1>1. IInv => ReportedAgain
  <2> SUFFICES ASSUME IInv, NEW e \in Entries, Periodic(e)
               PROVE  sent[e].age <= LongestMin + entry[e].max + entry[e].min
    BY DEF ReportedAgain
  <2> DEFINE r == entry[e]  age == sent[e].age
  <2>1. /\ r.min \in Nat /\ r.max \in Nat /\ r.timer.left \in Nat /\ age \in Nat
        /\ LongestMin \in Nat
    BY LongestMinIs DEF IInv, TypeOK, Entry, Timer
  <2>2. Expected(r, age) \/ Leaving(r, age)
    BY DEF IInv, AllAwaited, Awaited
  <2>3. Leaving(r, age) => age <= LongestMin + r.max + r.min
    BY DEF Leaving
  <2>4. Expected(r, age) => age <= LongestMin + r.max + r.min
    BY <2>1 DEF Expected
  <2> QED
    BY <2>2, <2>3, <2>4
<1> QED
  BY <1>1, Inductive, PTL

\* While nothing interferes, a value that is a reportable change away from the last
\* report is on its way, whatever was measured and polled in between.
THEOREM ChangeIsNotLost == Spec => []ChangeOnItsWay
<1>1. IInv => ChangeOnItsWay
  <2> SUFFICES ASSUME IInv, NEW e \in Entries, sent[e].steady, polled
               PROVE  \/ value[e] = sent[e].last
                      \/ Distance(value[e], sent[e].last) < entry[e].change
                      \/ entry[e].timer.kind = "min"
                      \/ due /\ entry[e].minCnt = 0
    BY DEF ChangeOnItsWay
  <2>1. /\ value[e] \in Int /\ sent[e].last \in Int /\ entry[e].change \in Nat
        /\ Distance(value[e], sent[e].last) \in Int
    BY DEF IInv, TypeOK, Entry, Distance
  <2>2. Told(entry[e], sent[e].last, value[e], TRUE, due)
    BY DEF IInv, AllSettled, Settled, Told
  <2> QED
    BY <2>1, <2>2 DEF Told, Changed
<1> QED
  BY <1>1, Inductive, PTL

\* Two reports between which nothing interferes are at least the minimum
\* interval apart.
THEOREM Apart == Spec => MinimumKept
<1>1. IInv /\ [Next]_vars
        => [\A e \in Entries : Reports(e) /\ sent[e].steady /\ Periodic(e)
                                 => sent[e].age >= entry[e].min]_vars
  <2> SUFFICES ASSUME IInv, NEW e \in Entries, Reports(e), sent[e].steady, Periodic(e)
               PROVE  sent[e].age >= entry[e].min
    OBVIOUS
  <2> DEFINE r == entry[e]  age == sent[e].age
  <2>1. r.min \in Nat /\ r.max \in Nat /\ age \in Nat
    BY DEF IInv, TypeOK, Entry
  <2>2. Valid(r, TRUE) /\ OnCourse(e)
    BY DEF IInv, OnCourses, Reports, Valid, Maintained
  <2>3. ~Full(r)
    BY <2>1, <2>2 DEF Valid, Full, OrNever, Never, Periodic
  <2>4. Ready(r, age)
    BY <2>2, <2>3 DEF OnCourse, Counting, Fresh
  <2> QED
    BY <2>1, <2>4 DEF Ready
<1> QED
  BY <1>1, Inductive, PTL DEF Spec, MinimumKept
=============================================================================
