---------------------------- MODULE PanelProofs ----------------------------
(***************************************************************************)
(* Proofs about Panel: handles agree with their timers, searches and       *)
(* raised poll rates end, the icon goes out, attempts follow each other    *)
(* and a lost network is sought.                                           *)
(***************************************************************************)
EXTENDS Panel, TLAPS

(***************************************************************************)
(* The event timers.  Good timers: handles agree with them but for those   *)
(* in c; what may have the place of the dangling handle does run, and is   *)
(* of a kind that nobody cancels.                                          *)
(***************************************************************************)
Good(t, c) ==
  /\ t \in Timers
  /\ \A k \in Kinds \ {"searchEnd"} : t.running[k] <= 1
  /\ \A k \in Held : /\ Running(t, k) => k \in t.handle
                     /\ k \in t.handle => Running(t, k) \/ k \in c
  /\ Running(t, "flag") => "flag" \in t.handle
  /\ \A k \in t.later : Running(t, k) /\ k \in Uncancelled

\* u differs from t in the kinds of K only.
Beside(t, u, K) ==
  \A j \in Kinds \ K : /\ Running(u, j) <=> Running(t, j)
                       /\ j \in u.handle <=> j \in t.handle

\* Bounds without the numerals of the assumption.
LEMMA Bounds == MaxSearches \in Nat \ {0} /\ MaxClicks \in Nat
BY PanelAssumption DEF PanelAssumption

\* The fields of timers one of which has been scheduled.
LEMMA ScheduleFields ==
  ASSUME NEW t \in Timers, NEW k \in Kinds
  PROVE  LET u == Schedule(t, k)
         IN  /\ u = [running |-> u.running, handle |-> u.handle, later |-> u.later]
             /\ u.running = [t.running EXCEPT ![k] = @ + 1]
             /\ u.handle = IF k \in Held \cup {"flag"} THEN t.handle \cup {k} ELSE t.handle
             /\ u.later \subseteq t.later \cup ({k} \cap Uncancelled)
<1> DEFINE h == IF k \in Held \cup {"flag"} THEN t.handle \cup {k} ELSE t.handle
<1> DEFINE l == IF Dangling(t) THEN t.later \cup ({k} \cap Followed) ELSE t.later
<1>1. t = [running |-> t.running, handle |-> t.handle, later |-> t.later]
  BY DEF Timers
<1>2. Schedule(t, k) = [t EXCEPT !.running = [t.running EXCEPT ![k] = @ + 1], !.handle = h, !.later = l]
  BY <1>1, Zenon DEF Schedule
<1>3. l \subseteq t.later \cup ({k} \cap Uncancelled)
  BY FollowedAssumption DEF FollowedAssumption
<1> HIDE DEF h, l
<1>4. Schedule(t, k) = [running |-> [t.running EXCEPT ![k] = @ + 1], handle |-> h, later |-> l]
  BY <1>1, <1>2
<1> QED
  BY <1>3, <1>4 DEF h

\* The fields of timers one of which has ended.
LEMMA EndedFields ==
  ASSUME NEW t \in Timers, NEW k \in Kinds
  PROVE  LET u == Ended(t, k)
         IN  /\ u = [running |-> u.running, handle |-> u.handle, later |-> u.later]
             /\ u.running = [t.running EXCEPT ![k] = @ - 1]
             /\ u.handle = t.handle
             /\ u.later = IF k = "flag" \/ t.running[k] = 1 THEN t.later \ {k} ELSE t.later
<1> DEFINE l == IF k = "flag" \/ t.running[k] = 1 THEN t.later \ {k} ELSE t.later
<1>1. t = [running |-> t.running, handle |-> t.handle, later |-> t.later]
  BY DEF Timers
<1>2. Ended(t, k) = [t EXCEPT !.running = [t.running EXCEPT ![k] = @ - 1], !.later = l]
  BY <1>1, Zenon DEF Ended
<1> HIDE DEF l
<1>3. Ended(t, k) = [running |-> [t.running EXCEPT ![k] = @ - 1], handle |-> t.handle, later |-> l]
  BY <1>1, <1>2
<1> QED
  BY <1>3 DEF l

\* A timer is scheduled of which none runs, or another end of the search.
LEMMA Scheduled ==
  ASSUME NEW c, NEW t, Good(t, c), NEW k \in Kinds,
         k = "searchEnd" => t.running[k] < MaxSearches,
         k # "searchEnd" => ~Running(t, k)
  PROVE  /\ Good(Schedule(t, k), c) /\ Beside(t, Schedule(t, k), {k})
         /\ Running(Schedule(t, k), k)
         /\ k \in Held \cup {"flag"} => k \in Schedule(t, k).handle
<1> DEFINE u == Schedule(t, k)
<1>1. /\ u = [running |-> u.running, handle |-> u.handle, later |-> u.later]
      /\ u.running = [t.running EXCEPT ![k] = @ + 1]
      /\ u.handle = IF k \in Held \cup {"flag"} THEN t.handle \cup {k} ELSE t.handle
      /\ u.later \subseteq t.later \cup ({k} \cap Uncancelled)
  BY ScheduleFields DEF Good
<1>2. /\ t.running \in [Kinds -> 0..MaxSearches]
      /\ t.handle \in SUBSET (Held \cup {"flag"}) /\ t.later \in SUBSET Kinds
  BY DEF Good, Timers
<1>3. u.running[k] = t.running[k] + 1 /\ \A j \in Kinds \ {k} : u.running[j] = t.running[j]
  BY <1>1, <1>2
<1>4. u.running[k] \in 0..MaxSearches /\ u.running[k] > 0 /\ (k # "searchEnd" => u.running[k] <= 1)
  BY Bounds, <1>2, <1>3 DEF Running
<1> HIDE DEF u
<1>5. u.running \in [Kinds -> 0..MaxSearches]
  BY <1>1, <1>2, <1>4
<1>6. u.handle \in SUBSET (Held \cup {"flag"}) /\ u.later \in SUBSET Kinds
  BY <1>1, <1>2
<1>7. u \in Timers
  <2>1. [running |-> u.running, handle |-> u.handle, later |-> u.later] \in Timers
    BY <1>5, <1>6 DEF Timers
  <2> QED BY <2>1, <1>1
<1>8. \A j \in Kinds \ {k} : Running(u, j) <=> Running(t, j)
  BY <1>3 DEF Running
<1>9. Running(u, k) /\ (k \in Held \cup {"flag"} => k \in u.handle)
  BY <1>1, <1>4 DEF Running
<1>10. \A j \in Kinds \ {k} : j \in u.handle <=> j \in t.handle
  BY <1>1
<1>11. \A j \in Kinds \ {"searchEnd"} : u.running[j] <= 1
  BY <1>3, <1>4 DEF Good
<1>12. \A j \in Held : /\ Running(u, j) => j \in u.handle
                       /\ j \in u.handle => Running(u, j) \/ j \in c
  BY <1>8, <1>9, <1>10 DEF Good, Kinds
<1>13. Running(u, "flag") => "flag" \in u.handle
  BY <1>8, <1>9, <1>10 DEF Good, Kinds
<1>14. \A j \in u.later : Running(u, j) /\ j \in Uncancelled
  BY <1>1, <1>2, <1>8, <1>9 DEF Good
<1>15. Good(u, c) /\ Beside(t, u, {k})
  BY <1>7, <1>8, <1>10, <1>11, <1>12, <1>13, <1>14 DEF Good, Beside
<1> QED
  BY <1>9, <1>15 DEF u

\* A timer that runs ends: its handle is left, which is right in place of c \cup {k}.
LEMMA Ending ==
  ASSUME NEW c, NEW t, Good(t, c), NEW k \in Kinds, Running(t, k)
  PROVE  /\ Good(Ended(t, k), c \cup {k}) /\ Beside(t, Ended(t, k), {k})
         /\ k \notin Held => Good(Ended(t, k), c)
         /\ k # "searchEnd" => ~Running(Ended(t, k), k)
         /\ Ended(t, k).handle = t.handle
<1> DEFINE u == Ended(t, k)
<1>1. /\ u = [running |-> u.running, handle |-> u.handle, later |-> u.later]
      /\ u.running = [t.running EXCEPT ![k] = @ - 1]
      /\ u.handle = t.handle
      /\ u.later = IF k = "flag" \/ t.running[k] = 1 THEN t.later \ {k} ELSE t.later
  BY EndedFields DEF Good
<1>2. /\ t.running \in [Kinds -> 0..MaxSearches]
      /\ t.handle \in SUBSET (Held \cup {"flag"}) /\ t.later \in SUBSET Kinds
  BY DEF Good, Timers
<1>3. u.running[k] = t.running[k] - 1 /\ \A j \in Kinds \ {k} : u.running[j] = t.running[j]
  BY <1>1, <1>2
<1>4. t.running[k] > 0 /\ (k # "searchEnd" => t.running[k] <= 1)
  BY DEF Running, Good
<1>5. u.running[k] \in 0..MaxSearches /\ (k # "searchEnd" => u.running[k] = 0)
  <2>1. t.running[k] \in 0..MaxSearches
    BY <1>2
  <2> QED BY Bounds, <2>1, <1>3, <1>4
<1> HIDE DEF u
<1>6. u.running \in [Kinds -> 0..MaxSearches]
  BY <1>1, <1>2, <1>5
<1>7. u \in Timers
  <2>1. [running |-> u.running, handle |-> u.handle, later |-> u.later] \in Timers
    BY <1>1, <1>2, <1>6 DEF Timers
  <2> QED BY <2>1, <1>1
<1>8. \A j \in Kinds \ {k} : Running(u, j) <=> Running(t, j)
  BY <1>3 DEF Running
<1>9. k # "searchEnd" => ~Running(u, k)
  BY <1>5 DEF Running
<1>10. \A j \in Kinds \ {"searchEnd"} : u.running[j] <= 1
  BY <1>3, <1>5 DEF Good
<1>11. \A j \in u.later : Running(u, j) /\ j \in Uncancelled
  <2> SUFFICES ASSUME NEW j \in u.later PROVE Running(u, j) /\ j \in Uncancelled
    OBVIOUS
  <2>1. j \in t.later /\ j \in Kinds /\ Running(t, j) /\ j \in Uncancelled
    BY <1>1, <1>2 DEF Good
  <2>2. CASE j # k
    BY <2>1, <2>2, <1>8
  <2>3. CASE j = k
    <3>1. t.running[k] # 1
      BY <2>3, <1>1
    <3>2. u.running[k] > 0
      BY <3>1, <1>2, <1>3, <1>4
    <3> QED BY <2>1, <2>3, <3>2 DEF Running
  <2> QED BY <2>2, <2>3
<1>12. \A j \in Held : /\ Running(u, j) => j \in u.handle
                       /\ j \in u.handle => Running(u, j) \/ j \in c \cup {k}
  BY <1>1, <1>8, <1>9 DEF Good, Kinds, Held
<1>13. Running(u, "flag") => "flag" \in u.handle
  BY <1>1, <1>8, <1>9 DEF Good, Kinds
<1>14. Good(u, c \cup {k}) /\ Beside(t, u, {k})
  BY <1>1, <1>7, <1>8, <1>10, <1>11, <1>12, <1>13 DEF Good, Beside
<1>15. k \notin Held => Good(u, c)
  BY <1>7, <1>8, <1>10, <1>11, <1>12, <1>13 DEF Good
<1> QED
  BY <1>1, <1>9, <1>14, <1>15 DEF u

\* A handle is set to NULL whose timer does not run.
LEMMA Forgotten ==
  ASSUME NEW c, NEW t, NEW k \in Held \cup {"flag"}, Good(t, c \cup {k}), ~Running(t, k)
  PROVE  LET u == [t EXCEPT !.handle = @ \ {k}]
         IN  Good(u, c) /\ Beside(t, u, {k}) /\ ~Running(u, k) /\ k \notin u.handle
<1> DEFINE u == [t EXCEPT !.handle = @ \ {k}]
<1>1. /\ u.running = t.running /\ u.handle = t.handle \ {k} /\ u.later = t.later
      /\ u \in Timers
  BY DEF Good, Timers
<1> HIDE DEF u
<1>2. \A j : Running(u, j) <=> Running(t, j)
  BY <1>1 DEF Running
<1>3. \A j \in Held : /\ Running(u, j) => j \in u.handle
                      /\ j \in u.handle => Running(u, j) \/ j \in c
  BY <1>1, <1>2 DEF Good
<1>4. Running(u, "flag") => "flag" \in u.handle
  BY <1>1, <1>2 DEF Good, Held
<1>5. Good(u, c) /\ Beside(t, u, {k})
  BY <1>1, <1>2, <1>3, <1>4 DEF Good, Beside
<1> QED
  BY <1>1, <1>2, <1>5 DEF u

\* The callback of a timer ends it.
LEMMA Expiring ==
  ASSUME NEW c, NEW t, Good(t, c), NEW k \in Held \cup {"flag"}, Running(t, k)
  PROVE  /\ Good(Expired(t, k), c) /\ Beside(t, Expired(t, k), {k})
         /\ ~Running(Expired(t, k), k) /\ k \notin Expired(t, k).handle
<1>1. k \in Kinds /\ k # "searchEnd"
  BY DEF Kinds, Held
<1>2. Good(Ended(t, k), c \cup {k}) /\ ~Running(Ended(t, k), k) /\ Beside(t, Ended(t, k), {k})
  BY <1>1, Ending
<1>3. Good(Expired(t, k), c) /\ Beside(Ended(t, k), Expired(t, k), {k})
      /\ ~Running(Expired(t, k), k) /\ k \notin Expired(t, k).handle
  BY <1>2, Forgotten DEF Expired
<1> QED
  BY <1>2, <1>3 DEF Beside

\* A timer is cancelled, or is none.
LEMMA Cancelling ==
  ASSUME NEW c, NEW t, Good(t, c), NEW k \in Held \cup {"flag"}
  PROVE  /\ Good(Cancel(t, k), c) /\ Beside(t, Cancel(t, k), {k})
         /\ ~Running(Cancel(t, k), k) /\ k \notin Cancel(t, k).handle
<1>1. CASE k \notin t.handle
  BY <1>1 DEF Cancel, Good, Beside
<1>2. CASE k \in t.handle /\ Running(t, k)
  BY <1>2, Expiring DEF Cancel, Expired
<1>3. CASE k \in t.handle /\ ~Running(t, k)
  <2>1. Good(t, c \cup {k})
    BY DEF Good
  <2> QED BY <1>3, <2>1, Forgotten DEF Cancel
<1> QED BY <1>1, <1>2, <1>3

\* A timer is cancelled and scheduled.
LEMMA Restarting ==
  ASSUME NEW c, NEW t, Good(t, c), NEW k \in Held \cup {"flag"}
  PROVE  /\ Good(Restart(t, k), c) /\ Beside(t, Restart(t, k), {k})
         /\ Running(Restart(t, k), k) /\ k \in Restart(t, k).handle
<1>1. k \in Kinds /\ k # "searchEnd"
  BY DEF Kinds, Held
<1>2. Good(Cancel(t, k), c) /\ Beside(t, Cancel(t, k), {k}) /\ ~Running(Cancel(t, k), k)
  BY Cancelling
<1>3. /\ Good(Restart(t, k), c) /\ Beside(Cancel(t, k), Restart(t, k), {k})
      /\ Running(Restart(t, k), k) /\ k \in Restart(t, k).handle
  BY <1>1, <1>2, Scheduled DEF Restart
<1> QED
  BY <1>2, <1>3 DEF Beside

\* A timer is scheduled unless there is one.
LEMMA Starting ==
  ASSUME NEW c, NEW t, Good(t, c), NEW k \in Held
  PROVE  /\ Good(Start(t, k), c) /\ Beside(t, Start(t, k), {k})
         /\ Running(Start(t, k), k) \/ k \in c
         /\ k \in Start(t, k).handle
<1>1. k \in Kinds /\ k # "searchEnd"
  BY DEF Kinds, Held
<1>2. CASE k \in t.handle
  <2>1. Start(t, k) = t
    BY <1>2 DEF Start
  <2>2. Running(t, k) \/ k \in c
    BY <1>2 DEF Good
  <2> QED BY <1>2, <2>1, <2>2 DEF Beside
<1>3. CASE k \notin t.handle
  <2>1. ~Running(t, k)
    BY <1>3 DEF Good
  <2> QED BY <1>1, <1>3, <2>1, Scheduled DEF Start
<1> QED BY <1>2, <1>3

-----------------------------------------------------------------------------
(***************************************************************************)
(* The inductive invariant.  What an action has to show is in Kept.        *)
(***************************************************************************)
Icons   == [on : BOOLEAN, sta : BOOLEAN, times : 0..255, zero : BOOLEAN]
Buttons == [state : {"normal", "check", "release", "doing"}, ctn : 0..MaxClicks, down : BOOLEAN]

OtherTypes ==
  /\ icon \in Icons
  /\ button \in Buttons
  /\ searching \in BOOLEAN /\ fast \in BOOLEAN
  /\ net \in {"new", "joined", "lost"}
  /\ leaving \in BOOLEAN
  /\ bdb \in [state : {"init", "idle", "starting", "steering", "finding"}, find : BOOLEAN]
  /\ rejoin \in [asked : BOOLEAN, told : {"nothing", "success", "failure", "lost"}]
  /\ cut \subseteq Uncancelled

\* Blinking that is over was begun with zero times.
OverAtOnce == Blinking /\ icon.times = 0 => icon.zero

\* A stack that is being initialized has nothing to tell.
NothingToTell == bdb.state = "init" => rejoin.told = "nothing"

IInv ==
  /\ Good(timers, cut)
  /\ OtherTypes
  /\ TemporaryEnds
  /\ OverAtOnce
  /\ IconGoesOut
  /\ NothingToTell

SearchStep ==
  searching /\ searching' /\ net = "new" /\ net' = "new" /\ Attempted =>
    \/ Attempted'
    \/ Running(timers, "steer") /\ ~Running(timers', "steer")
    \/ leaving /\ ~leaving' /\ UNCHANGED timers

SoughtStep ==
  net' = "lost" /\ (net = "joined" \/ Sought) => Sought' \/ bdb.state \in {"steering", "finding"}

Kept == IInv' /\ SearchStep /\ SoughtStep

\* The kinds whose running is a promise.
Promised == {"searchEnd", "poll", "steer", "backoff"}

\* What an action has to show that concerns neither commissioning nor the network.
LEMMA Local ==
  ASSUME IInv, UNCHANGED <<searching, fast, net, leaving, bdb, rejoin, cut>>,
         Good(timers', cut), \A k \in Promised : Running(timers, k) => Running(timers', k),
         icon' \in Icons, button' \in Buttons, OverAtOnce', IconGoesOut'
  PROVE  Kept
<1>1. OtherTypes' /\ Good(timers', cut')
  BY DEF IInv, OtherTypes
<1>2. TemporaryEnds'
  BY DEF IInv, TemporaryEnds, Promised
<1>3. NothingToTell'
  BY DEF IInv, NothingToTell
<1>4. SearchStep
  BY DEF SearchStep, Attempted, Promised
<1>5. SoughtStep
  BY DEF SoughtStep, Sought, Promised
<1> QED
  BY <1>1, <1>2, <1>3, <1>4, <1>5 DEF Kept, IInv

\* Timers that an action leaves alone are promises kept.
LEMMA PromisesKept ==
  ASSUME NEW t, NEW u, NEW K, Beside(t, u, K), K \cap Promised = {}
  PROVE  \A k \in Promised : Running(t, k) => Running(u, k)
BY DEF Beside, Promised, Kinds, Held

\* Numbers without the numerals of the assumption.
LEMMA Inputs ==
  /\ \A times \in Repeats : times \in Nat
  /\ \A times \in IdentifyTimes : times \in Nat
BY PanelAssumption DEF PanelAssumption

\* The fields of the icon.
LEMMA IconFields ==
  ASSUME NEW i \in Icons
  PROVE  /\ i = [on |-> i.on, sta |-> i.sta, times |-> i.times, zero |-> i.zero]
         /\ i.on \in BOOLEAN /\ i.sta \in BOOLEAN /\ i.times \in 0..255 /\ i.zero \in BOOLEAN
BY DEF Icons

\* The icon with other fields.
LEMMA IconWith ==
  ASSUME NEW a \in BOOLEAN, NEW b \in BOOLEAN, NEW n \in 0..255, NEW z \in BOOLEAN
  PROVE  [on |-> a, sta |-> b, times |-> n, zero |-> z] \in Icons
BY DEF Icons

\* The icon when it is told to blink.
LEMMA StartedIcon ==
  ASSUME IInv, NEW times \in Nat
  PROVE  /\ Started(times) \in Icons
         /\ Started(times).times = 0 => Started(times).zero
<1>1. times % 256 \in 0..255
  BY SMT
<1>2. icon.on \in BOOLEAN /\ icon.sta \in BOOLEAN /\ Blinking \in BOOLEAN
  BY DEF IInv, OtherTypes, Icons, Blinking
<1>3. (times % 256 = 0) \in BOOLEAN
  OBVIOUS
<1>4. Started(times) \in Icons
  BY <1>1, <1>2, <1>3 DEF Started, Icons
<1> QED
  BY <1>4 DEF Started

\* The icon when it is told to stop.
LEMMA StoppedIcon ==
  ASSUME IInv
  PROVE  /\ Stopped \in Icons
         /\ ~button.down /\ ~Stopped.zero => ~Stopped.on
<1>1. CASE Blinking
  <2>1. icon \in Icons
    BY DEF IInv, OtherTypes
  <2> icon = [on |-> icon.on, sta |-> icon.sta, times |-> icon.times, zero |-> icon.zero]
    BY <2>1, IconFields
  <2>2. Stopped = [on |-> FALSE, sta |-> icon.sta, times |-> 0, zero |-> FALSE]
    BY <1>1 DEF Stopped
  <2>3. 0 \in 0..255 /\ FALSE \in BOOLEAN
    BY SMT
  <2> QED BY <2>1, <2>2, <2>3, IconFields, IconWith
<1>2. CASE ~Blinking
  BY <1>2 DEF Stopped, IInv, OtherTypes, IconGoesOut
<1> QED BY <1>1, <1>2

\* One step of the blinking.
LEMMA BlinkStep ==
  ASSUME IInv, lcd_link_blink_cb
  PROVE  Kept
<1>0. /\ UNCHANGED <<searching, fast, net, leaving, bdb, rejoin, cut>> /\ UNCHANGED button
      /\ icon \in Icons /\ button \in Buttons /\ Good(timers, cut) /\ Running(timers, "blink")
  BY DEF lcd_link_blink_cb, Elsewhere, IInv, OtherTypes
<1>1. ASSUME timers' = Expired(timers, "blink")
      PROVE  /\ Good(timers', cut) /\ \A k \in Promised : Running(timers, k) => Running(timers', k)
             /\ ~Blinking'
  BY <1>0, <1>1, Expiring, PromisesKept DEF Promised, Held, Blinking
<1>2. Blinking
  BY <1>0 DEF IInv, Good, Held, Blinking
<1>3. CASE icon.times = 0 /\ timers' = Expired(timers, "blink") /\ UNCHANGED icon
  <2>1. icon.zero
    BY <1>2, <1>3 DEF IInv, OverAtOnce
  <2> QED
    BY <1>0, <1>1, <1>3, <2>1, Local DEF OverAtOnce, IconGoesOut
<1>4. CASE /\ timers' = Expired(timers, "blink")
           /\ icon' = [icon EXCEPT !.times = 0, !.on = FALSE]
  <2> icon = [on |-> icon.on, sta |-> icon.sta, times |-> icon.times, zero |-> icon.zero]
    BY <1>0, IconFields
  <2>1. icon' = [on |-> FALSE, sta |-> icon.sta, times |-> 0, zero |-> icon.zero]
    BY <1>4
  <2>2. 0 \in 0..255 /\ FALSE \in BOOLEAN
    BY SMT
  <2>3. icon' \in Icons /\ ~icon'.on
    BY <1>0, <2>1, <2>2, IconFields, IconWith
  <2> QED
    BY <1>0, <1>1, <1>4, <2>3, Local DEF OverAtOnce, IconGoesOut
<1>5. CASE /\ icon.times > (IF icon.sta THEN 0 ELSE 1)
           /\ icon' = [icon EXCEPT !.on = ~icon.sta, !.sta = ~icon.sta,
                                   !.times = IF icon.sta THEN @ ELSE @ - 1]
           /\ UNCHANGED timers
  <2>1. icon.times \in 0..255 /\ icon.sta \in BOOLEAN
    BY <1>0 DEF Icons
  <2> DEFINE n == IF icon.sta THEN icon.times ELSE icon.times - 1
  <2>2. n \in 0..255 /\ n # 0
    BY <1>5, <2>1
  <2> HIDE DEF n
  <2>3. icon' = [icon EXCEPT !.on = ~icon.sta, !.sta = ~icon.sta, !.times = n]
    BY <1>5 DEF n
  <2>4. icon' \in Icons /\ icon'.times # 0
    <3>1. icon' = [on |-> ~icon.sta, sta |-> ~icon.sta, times |-> n, zero |-> icon.zero]
      BY <1>0, <2>3 DEF Icons
    <3>2. icon.zero \in BOOLEAN
      BY <1>0, IconFields
    <3>3. icon' \in Icons
      <4>1. \A a, b \in BOOLEAN : [on |-> a, sta |-> b, times |-> n, zero |-> icon.zero] \in Icons
        BY <2>2, <3>2 DEF Icons
      <4>2. CASE icon.sta
        <5>1. icon' = [on |-> FALSE, sta |-> FALSE, times |-> n, zero |-> icon.zero]
          BY <3>1, <4>2
        <5> QED BY <4>1, <5>1
      <4>3. CASE ~icon.sta
        <5>1. icon' = [on |-> TRUE, sta |-> TRUE, times |-> n, zero |-> icon.zero]
          BY <3>1, <4>3
        <5> QED BY <4>1, <5>1
      <4> QED BY <4>2, <4>3
    <3> QED BY <2>2, <3>1, <3>3
  <2>5. Blinking'
    BY <1>2, <1>5 DEF Blinking
  <2> QED
    BY <1>0, <1>5, <2>4, <2>5, Local DEF OverAtOnce, IconGoesOut
<1> QED
  BY <1>3, <1>4, <1>5 DEF lcd_link_blink_cb

\* An Identify command.
LEMMA IdentifyStep ==
  ASSUME IInv, NEW time \in IdentifyTimes, app_zclIdentifyCmdHandler(time)
  PROVE  Kept
<1>0. /\ UNCHANGED <<searching, fast, net, leaving, bdb, rejoin, cut>> /\ UNCHANGED button
      /\ button \in Buttons /\ Good(timers, cut)
  BY DEF app_zclIdentifyCmdHandler, Elsewhere, IInv, OtherTypes
<1>1. CASE icon' = Stopped /\ timers' = Cancel(Cancel(timers, "identify"), "blink")
  <2> DEFINE t == Cancel(timers, "identify")
  <2>1. Good(t, cut) /\ Beside(timers, t, {"identify"})
    BY <1>0, Cancelling DEF Held
  <2>2. Good(timers', cut) /\ Beside(t, timers', {"blink"}) /\ ~Blinking'
    BY <1>1, <2>1, Cancelling DEF Held, Blinking
  <2> HIDE DEF t
  <2>3. \A k \in Promised : Running(timers, k) => Running(timers', k)
    BY <2>1, <2>2, PromisesKept DEF Promised
  <2> QED
    BY <1>0, <1>1, <2>2, <2>3, StoppedIcon, Local DEF OverAtOnce, IconGoesOut
<1>2. CASE /\ "identify" \notin timers.handle
           /\ icon' = Started(time)
           /\ timers' = Schedule(Start(timers, "blink"), "identify")
  <2> DEFINE t == Start(timers, "blink")
  <2>1. Good(t, cut) /\ Beside(timers, t, {"blink"}) /\ "blink" \in t.handle
    BY <1>0, Starting DEF Held
  <2>2. ~Running(timers, "identify")
    BY <1>0, <1>2 DEF Good, Held
  <2>3. ~Running(t, "identify")
    BY <2>1, <2>2 DEF Beside, Kinds, Held
  <2> HIDE DEF t
  <2>4. Good(timers', cut) /\ Beside(t, timers', {"identify"})
    BY <1>2, <2>1, <2>3, Scheduled DEF Kinds, Held, t
  <2>5. Blinking'
    BY <2>1, <2>4 DEF Beside, Kinds, Held, Blinking
  <2>6. \A k \in Promised : Running(timers, k) => Running(timers', k)
    BY <2>1, <2>4, PromisesKept DEF Promised
  <2> QED
    BY <1>0, <1>2, <2>4, <2>5, <2>6, Inputs, StartedIcon, Local DEF OverAtOnce, IconGoesOut
<1> QED
  BY <1>1, <1>2 DEF app_zclIdentifyCmdHandler

\* The end of the countdown.
LEMMA IdentifyEndStep ==
  ASSUME IInv, app_zclIdentifyTimerCb
  PROVE  Kept
<1>0. /\ UNCHANGED <<searching, fast, net, leaving, bdb, rejoin, cut>> /\ UNCHANGED <<icon, button>>
      /\ icon \in Icons /\ button \in Buttons /\ Good(timers, cut)
      /\ Running(timers, "identify") /\ timers' = Expired(timers, "identify")
  BY DEF app_zclIdentifyTimerCb, Elsewhere, IInv, OtherTypes
<1>1. Good(timers', cut) /\ Beside(timers, timers', {"identify"})
  BY <1>0, Expiring DEF Held
<1>2. Blinking' <=> Blinking
  BY <1>1 DEF Beside, Kinds, Held, Blinking
<1>3. \A k \in Promised : Running(timers, k) => Running(timers', k)
  BY <1>1, PromisesKept DEF Promised
<1> QED
  BY <1>0, <1>1, <1>2, <1>3, Local DEF IInv, OverAtOnce, IconGoesOut

\* A trigger effect.
LEMMA TriggerStep ==
  ASSUME IInv, NEW times \in {0} \cup Repeats, app_zcltriggerCmdHandler(times)
  PROVE  Kept
<1>0. /\ UNCHANGED <<searching, fast, net, leaving, bdb, rejoin, cut>> /\ UNCHANGED button
      /\ button \in Buttons /\ Good(timers, cut) /\ times \in Nat
  BY Inputs DEF app_zcltriggerCmdHandler, Elsewhere, IInv, OtherTypes
<1>1. CASE icon' = Stopped /\ timers' = Cancel(timers, "blink")
  <2>1. Good(timers', cut) /\ Beside(timers, timers', {"blink"}) /\ ~Blinking'
    BY <1>0, <1>1, Cancelling DEF Held, Blinking
  <2>2. \A k \in Promised : Running(timers, k) => Running(timers', k)
    BY <2>1, PromisesKept DEF Promised
  <2> QED
    BY <1>0, <1>1, <2>1, <2>2, StoppedIcon, Local DEF OverAtOnce, IconGoesOut
<1>2. CASE icon' = Started(times) /\ timers' = Start(timers, "blink")
  <2>1. Good(timers', cut) /\ Beside(timers, timers', {"blink"}) /\ Blinking'
    BY <1>0, <1>2, Starting DEF Held, Blinking
  <2>2. \A k \in Promised : Running(timers, k) => Running(timers', k)
    BY <2>1, PromisesKept DEF Promised
  <2> QED
    BY <1>0, <1>2, <2>1, <2>2, StartedIcon, Local DEF OverAtOnce, IconGoesOut
<1> QED
  BY <1>1, <1>2 DEF app_zcltriggerCmdHandler

\* The key goes down.
LEMMA PressStep ==
  ASSUME IInv, keyScan_keyPressedCB
  PROVE  Kept
<1>0. /\ UNCHANGED <<searching, fast, net, leaving, bdb, rejoin, cut>> /\ UNCHANGED timers
      /\ icon \in Icons /\ button \in Buttons /\ Good(timers, cut)
      /\ button' = [state |-> "check", ctn |-> button.ctn + 1, down |-> TRUE]
      /\ icon' = [icon EXCEPT !.on = TRUE] /\ button.ctn < MaxClicks
  BY DEF keyScan_keyPressedCB, IInv, OtherTypes
<1>1. icon' = [on |-> TRUE, sta |-> icon.sta, times |-> icon.times, zero |-> icon.zero]
  <2> icon = [on |-> icon.on, sta |-> icon.sta, times |-> icon.times, zero |-> icon.zero]
    BY <1>0, IconFields
  <2> QED BY <1>0
<1>2. icon' \in Icons
  BY <1>0, <1>1 DEF Icons
<1>3. button.ctn \in 0..MaxClicks
  BY <1>0 DEF Buttons
<1>4. button.ctn + 1 \in 0..MaxClicks
  BY <1>0, <1>3, Bounds
<1>5. button' \in Buttons /\ button'.down
  BY <1>0, <1>4 DEF Buttons
<1> QED
  BY <1>0, <1>1, <1>2, <1>5, Local DEF IInv, OverAtOnce, IconGoesOut, Blinking

\* The key comes up.
LEMMA ReleaseStep ==
  ASSUME IInv, keyScan_keyReleasedCB
  PROVE  Kept
<1>0. /\ UNCHANGED <<searching, fast, net, leaving, bdb, rejoin, cut>> /\ UNCHANGED timers
      /\ icon \in Icons /\ button \in Buttons /\ Good(timers, cut)
      /\ button' = [button EXCEPT !.state = "release", !.down = FALSE]
      /\ icon' = [icon EXCEPT !.on = FALSE]
  BY DEF keyScan_keyReleasedCB, IInv, OtherTypes
<1>1. icon' = [on |-> FALSE, sta |-> icon.sta, times |-> icon.times, zero |-> icon.zero]
  <2> icon = [on |-> icon.on, sta |-> icon.sta, times |-> icon.times, zero |-> icon.zero]
    BY <1>0, IconFields
  <2> QED BY <1>0
<1>2. icon' \in Icons
  BY <1>0, <1>1 DEF Icons
<1>3. button' \in Buttons
  BY <1>0 DEF Buttons
<1> QED
  BY <1>0, <1>1, <1>2, <1>3, Local DEF IInv, OverAtOnce, IconGoesOut, Blinking

\* Clicks without effect here.
LEMMA OtherwiseStep ==
  ASSUME IInv, buttonOtherwise
  PROVE  Kept
<1>0. /\ UNCHANGED <<searching, fast, net, leaving, bdb, rejoin, cut>> /\ UNCHANGED <<timers, icon>>
      /\ icon \in Icons /\ button \in Buttons /\ Good(timers, cut)
      /\ button' = [button EXCEPT !.state = "normal", !.ctn = 0]
  BY DEF buttonOtherwise, Clicked, IInv, OtherTypes
<1>1. button' \in Buttons /\ button'.down = button.down
  <2>1. 0 \in 0..MaxClicks
    BY Bounds
  <2> QED BY <1>0, <2>1 DEF Buttons
<1> QED
  BY <1>0, <1>1, Local DEF IInv, OverAtOnce, IconGoesOut, Blinking

\* find_bind_flag is cleared.
LEMMA ClearFlagStep ==
  ASSUME IInv, find_and_bind_clear_flag
  PROVE  Kept
<1>0. /\ UNCHANGED <<searching, fast, net, leaving, bdb, rejoin, cut>> /\ UNCHANGED <<icon, button>>
      /\ icon \in Icons /\ button \in Buttons /\ Good(timers, cut)
      /\ Running(timers, "flag") /\ timers' = Ended(timers, "flag")
  BY DEF find_and_bind_clear_flag, Elsewhere, IInv, OtherTypes
<1>1. Good(timers', cut) /\ Beside(timers, timers', {"flag"})
  BY <1>0, Ending DEF Kinds, Held
<1>2. Blinking' <=> Blinking
  BY <1>1 DEF Beside, Kinds, Held, Blinking
<1>3. \A k \in Promised : Running(timers, k) => Running(timers', k)
  BY <1>1, PromisesKept DEF Promised
<1> QED
  BY <1>0, <1>1, <1>2, <1>3, Local DEF IInv, OverAtOnce, IconGoesOut

\* A long press: the search has an end, and an attempt is to come.
LEMMA KeepPressedStep ==
  ASSUME IInv, buttonKeepPressed
  PROVE  Kept
<1>0. /\ UNCHANGED <<fast, net, bdb, rejoin, cut>>
      /\ button' = [button EXCEPT !.state = "doing", !.ctn = 0]
      /\ leaving' = TRUE /\ searching' = TRUE
      /\ timers.running["searchEnd"] < MaxSearches
      /\ timers' = Start(Schedule(timers, "searchEnd"), "blink")
      /\ button \in Buttons /\ Good(timers, cut)
  BY DEF buttonKeepPressed, SearchScheduled, IInv, OtherTypes
<1> DEFINE t == Schedule(timers, "searchEnd")
<1>1. Good(t, cut) /\ Beside(timers, t, {"searchEnd"}) /\ Running(t, "searchEnd")
  BY <1>0, Scheduled DEF Kinds
<1>2. Good(timers', cut) /\ Beside(t, timers', {"blink"}) /\ Blinking'
  BY <1>0, <1>1, Starting DEF Held, Blinking
<1> HIDE DEF t
<1>3. /\ Running(timers', "searchEnd")
      /\ Running(timers, "poll") => Running(timers', "poll")
      /\ Running(timers, "backoff") => Running(timers', "backoff")
  BY <1>1, <1>2 DEF Beside, Kinds, Held
<1>4. icon' \in Icons /\ OverAtOnce'
  <2>1. PICK times \in Repeats : icon' = Started(times)
    BY DEF buttonKeepPressed
  <2> QED BY <2>1, Inputs, StartedIcon DEF OverAtOnce
<1>5. button' \in Buttons
  <2>1. 0 \in 0..MaxClicks
    BY Bounds
  <2> QED BY <1>0, <2>1 DEF Buttons
<1>6. OtherTypes'
  BY <1>0, <1>4, <1>5 DEF IInv, OtherTypes
<1>7. TemporaryEnds' /\ IconGoesOut' /\ NothingToTell'
  BY <1>0, <1>2, <1>3 DEF IInv, TemporaryEnds, IconGoesOut, NothingToTell
<1>8. SearchStep /\ SoughtStep
  BY <1>0, <1>3 DEF SearchStep, SoughtStep, Attempted, Sought
<1> QED
  BY <1>0, <1>2, <1>4, <1>6, <1>7, <1>8 DEF Kept, IInv

\* The end of the search.
LEMMA SearchEndStep ==
  ASSUME IInv, net_steer_start_offCb
  PROVE  Kept
<1>0. /\ UNCHANGED <<button, fast, net, leaving, bdb, rejoin, cut>>
      /\ searching' = FALSE /\ icon' = Stopped /\ Running(timers, "searchEnd")
      /\ timers' = Cancel(Ended(timers, "searchEnd"), "blink")
      /\ Good(timers, cut)
  BY DEF net_steer_start_offCb, IInv, OtherTypes
<1> DEFINE t == Ended(timers, "searchEnd")
<1>1. Good(t, cut) /\ Beside(timers, t, {"searchEnd"})
  BY <1>0, Ending DEF Kinds, Held
<1>2. Good(timers', cut) /\ Beside(t, timers', {"blink"}) /\ ~Blinking'
  BY <1>0, <1>1, Cancelling DEF Held, Blinking
<1> HIDE DEF t
<1>3. /\ Running(timers, "poll") => Running(timers', "poll")
      /\ Running(timers, "backoff") => Running(timers', "backoff")
  BY <1>1, <1>2 DEF Beside, Kinds, Held
<1>4. OtherTypes' /\ IconGoesOut' /\ OverAtOnce'
  <2>1. Stopped \in Icons /\ (~button.down /\ ~Stopped.zero => ~Stopped.on)
    BY StoppedIcon
  <2>2. OtherTypes'
    BY <1>0, <2>1 DEF IInv, OtherTypes
  <2> QED BY <1>0, <1>2, <2>1, <2>2 DEF IconGoesOut, OverAtOnce
<1>5. TemporaryEnds' /\ NothingToTell'
  BY <1>0, <1>3 DEF IInv, TemporaryEnds, NothingToTell
<1>6. SearchStep /\ SoughtStep
  BY <1>0, <1>3 DEF SearchStep, SoughtStep, Sought
<1> QED
  BY <1>0, <1>2, <1>4, <1>5, <1>6 DEF Kept, IInv

\* The poll rate is raised.
LEMMA Raised ==
  ASSUME NEW c, NEW t, Good(t, c)
  PROVE  /\ Good(app_setPollRate(t), c) /\ Beside(t, app_setPollRate(t), {"poll"})
         /\ Running(app_setPollRate(t), "poll")
BY Restarting DEF app_setPollRate, Held

\* What a press and the poll rate's timer leave: commissioning, the icon and the search.
LEMMA PollStep ==
  ASSUME IInv, UNCHANGED <<icon, searching, net, leaving, bdb, cut>>, button' \in Buttons,
         button'.down = button.down,
         Good(timers', cut), Beside(timers, timers', {"poll"}), fast' \in BOOLEAN,
         fast' => Running(timers', "poll"),
         rejoin' \in {rejoin, [rejoin EXCEPT !.asked = TRUE]}
  PROVE  Kept
<1>1. /\ Running(timers, "searchEnd") => Running(timers', "searchEnd")
      /\ Running(timers, "backoff") => Running(timers', "backoff")
      /\ Running(timers, "steer") => Running(timers', "steer")
      /\ Blinking' <=> Blinking
  BY DEF Beside, Kinds, Held, Blinking
<1>2. /\ rejoin' \in [asked : BOOLEAN, told : {"nothing", "success", "failure", "lost"}]
      /\ rejoin'.told = rejoin.told /\ (rejoin.asked => rejoin'.asked)
  BY DEF IInv, OtherTypes
<1>3. OtherTypes'
  BY <1>2 DEF IInv, OtherTypes
<1>4. TemporaryEnds'
  BY <1>1 DEF IInv, TemporaryEnds
<1>5. OverAtOnce' /\ IconGoesOut' /\ NothingToTell'
  BY <1>1, <1>2 DEF IInv, OverAtOnce, IconGoesOut, NothingToTell
<1>6. SearchStep /\ SoughtStep
  BY <1>1, <1>2 DEF SearchStep, SoughtStep, Attempted, Sought
<1> QED
  BY <1>3, <1>4, <1>5, <1>6 DEF Kept, IInv

\* The fields of the button after clicks.
LEMMA ClickedButton ==
  ASSUME IInv, NEW n, Clicked(n)
  PROVE  button' \in Buttons /\ button'.down = button.down
<1>1. 0 \in 0..MaxClicks
  BY Bounds
<1> QED BY <1>1 DEF IInv, OtherTypes, Buttons, Clicked

\* One click.
LEMMA SinglePressedStep ==
  ASSUME IInv, buttonSinglePressed
  PROVE  Kept
<1>0. /\ UNCHANGED <<icon, searching, net, leaving, bdb, cut>> /\ Good(timers, cut)
      /\ button' \in Buttons /\ button'.down = button.down
      /\ rejoin' \in {rejoin, [rejoin EXCEPT !.asked = TRUE]}
  BY ClickedButton DEF buttonSinglePressed, Clicked, IInv
<1>1. CASE timers' = app_setPollRate(timers) /\ fast' = TRUE
  BY <1>0, <1>1, Raised, PollStep
<1>2. CASE UNCHANGED <<timers, fast>>
  BY <1>0, <1>2, PollStep DEF Beside, IInv, OtherTypes, TemporaryEnds
<1> QED
  BY <1>1, <1>2 DEF buttonSinglePressed

\* The poll rate is raised for other reasons.
LEMMA PeriodStep ==
  ASSUME IInv, app_sensor_get_period
  PROVE  Kept
<1>0. /\ UNCHANGED <<icon, searching, net, leaving, bdb, cut>> /\ Good(timers, cut)
      /\ button' \in Buttons /\ button'.down = button.down /\ rejoin' = rejoin
      /\ timers' = app_setPollRate(timers) /\ fast' = TRUE
  BY DEF app_sensor_get_period, IInv, OtherTypes
<1> QED
  BY <1>0, Raised, PollStep

\* The poll rate is lowered.
LEMMA PollEndStep ==
  ASSUME IInv, set_pollRateCb
  PROVE  Kept
<1>0. /\ UNCHANGED <<icon, searching, net, leaving, bdb, cut>> /\ Good(timers, cut)
      /\ button' \in Buttons /\ button'.down = button.down /\ rejoin' = rejoin
      /\ Running(timers, "poll") /\ timers' = Expired(timers, "poll") /\ fast' = FALSE
  BY DEF set_pollRateCb, IInv, OtherTypes
<1>1. Good(timers', cut) /\ Beside(timers, timers', {"poll"})
  BY <1>0, Expiring DEF Held
<1> QED
  BY <1>0, <1>1, PollStep

\* What may have the place of the dangling handle is forgotten.
LEMMA Reused ==
  ASSUME NEW c, NEW t, Good(t, c)
  PROVE  LET u == [t EXCEPT !.later = {}]
         IN  Good(u, c) /\ Beside(t, u, {}) /\ u.handle = t.handle
<1> DEFINE u == [t EXCEPT !.later = {}]
<1>1. u.running = t.running /\ u.handle = t.handle /\ u.later = {} /\ u \in Timers
  BY DEF Good, Timers
<1> HIDE DEF u
<1>2. \A j : Running(u, j) <=> Running(t, j)
  BY <1>1 DEF Running
<1>3. Good(u, c) /\ Beside(t, u, {})
  BY <1>1, <1>2 DEF Good, Beside
<1> QED
  BY <1>1, <1>3 DEF u

\* Finding & binding is asked for.
LEMMA FindBindStep ==
  ASSUME IInv, NEW n, buttonFindBind(n)
  PROVE  Kept
<1> DEFINE t == Schedule(timers, "findBind")
<1>0. /\ UNCHANGED <<icon, searching, fast, net, leaving, bdb, rejoin>> /\ Good(timers, cut)
      /\ button' \in Buttons /\ button'.down = button.down /\ icon \in Icons
  BY ClickedButton DEF buttonFindBind, Clicked, IInv, OtherTypes
<1>1. CASE UNCHANGED <<timers, cut>>
  BY <1>0, <1>1, Local DEF IInv, OverAtOnce, IconGoesOut, Blinking
<1>2. ASSUME "findBind" \notin timers.handle
      PROVE  Good(t, cut) /\ Beside(timers, t, {"findBind"})
  <2>1. ~Running(timers, "findBind")
    BY <1>0, <1>2 DEF Good, Held
  <2> QED BY <1>0, <2>1, Scheduled DEF Kinds, Held
<1>3. CASE /\ "findBind" \notin timers.handle
           /\ timers' = [Restart(t, "flag") EXCEPT !.later = {}] /\ UNCHANGED cut
  <2> DEFINE u == Restart(t, "flag")
  <2>1. Good(u, cut) /\ Beside(t, u, {"flag"})
    BY <1>2, <1>3, Restarting
  <2> HIDE DEF u
  <2>2. Good(timers', cut) /\ Beside(u, timers', {})
    BY <1>3, <2>1, Reused DEF u
  <2> HIDE DEF t
  <2>3. /\ \A k \in Promised : Running(timers, k) => Running(timers', k)
        /\ Blinking' <=> Blinking
    BY <1>2, <1>3, <2>1, <2>2 DEF Beside, Promised, Kinds, Held, Blinking
  <2> QED
    BY <1>0, <1>3, <2>2, <2>3, Local DEF IInv, OverAtOnce, IconGoesOut
<1>4. ASSUME "findBind" \notin timers.handle, Dangling(timers), NEW k \in t.later,
             timers' = [Schedule(Ended(t, k), "flag") EXCEPT !.later = {}], cut' = cut \cup {k}
      PROVE  Kept
  <2> DEFINE u == Ended(t, k)
  <2> DEFINE v == Schedule(u, "flag")
  <2>1. Good(t, cut) /\ Beside(timers, t, {"findBind"})
    BY <1>2, <1>4
  <2>2. Running(t, k) /\ k \in Kinds /\ k \in Uncancelled
    BY <1>4, <2>1 DEF Good, Timers
  <2>3. ~Running(t, "flag")
    BY <1>4, <2>1 DEF Dangling, Beside, Kinds
  <2> HIDE DEF t
  <2>4. Good(u, cut') /\ Beside(t, u, {k}) /\ u.handle = t.handle
    BY <1>4, <2>1, <2>2, Ending
  <2>5. ~Running(u, "flag")
    BY <2>2, <2>3, <2>4 DEF Beside, Kinds
  <2> HIDE DEF u
  <2>6. Good(v, cut') /\ Beside(u, v, {"flag"})
    BY <2>4, <2>5, Scheduled DEF Kinds
  <2> HIDE DEF v
  <2>7. Good(timers', cut') /\ Beside(v, timers', {})
    BY <1>4, <2>6, Reused DEF t, u, v
  <2>8. Blinking' <=> Blinking
    <3>1. "blink" \in t.handle <=> Blinking
      BY <2>1 DEF Beside, Kinds, Held, Blinking
    <3>2. "blink" \in v.handle <=> "blink" \in u.handle
      BY <2>6 DEF Beside, Kinds, Held
    <3>3. Blinking' <=> "blink" \in v.handle
      BY <2>7 DEF Beside, Kinds, Held, Blinking
    <3> QED BY <2>4, <3>1, <3>2, <3>3
  <2>9. \A j \in Promised : \/ Running(timers, j) => Running(timers', j)
                            \/ j = "searchEnd" /\ j \in cut'
    <3> SUFFICES ASSUME NEW j \in Promised, Running(timers, j), j # k
                 PROVE  Running(timers', j)
      BY <1>4, <2>2 DEF Uncancelled, Promised
    <3>1. j \in Kinds /\ j # "findBind" /\ j # "flag"
      BY DEF Promised, Kinds, Held
    <3> QED BY <2>1, <2>4, <2>6, <2>7, <3>1 DEF Beside
  <2>10. cut \subseteq cut' /\ cut' \subseteq Uncancelled
    BY <1>4, <2>2 DEF IInv, OtherTypes
  <2>11. OtherTypes'
    BY <1>0, <2>10 DEF IInv, OtherTypes
  <2>12. TemporaryEnds' /\ OverAtOnce' /\ IconGoesOut' /\ NothingToTell'
    BY <1>0, <2>8, <2>9, <2>10 DEF IInv, TemporaryEnds, OverAtOnce, IconGoesOut, NothingToTell, Promised
  <2>13. SearchStep /\ SoughtStep
    BY <1>0, <2>9, <2>10 DEF SearchStep, SoughtStep, Attempted, Sought, Promised
  <2> QED
    BY <2>7, <2>11, <2>12, <2>13 DEF Kept, IInv
<1> QED
  BY <1>1, <1>3, <1>4 DEF buttonFindBind

-----------------------------------------------------------------------------
(***************************************************************************)
(* Commissioning and the network.                                          *)
(***************************************************************************)
BdbTypes    == [state : {"init", "idle", "starting", "steering", "finding"}, find : BOOLEAN]
RejoinTypes == [asked : BOOLEAN, told : {"nothing", "success", "failure", "lost"}]

\* The timers after a success.
LEMMA SuccessTimers ==
  ASSUME NEW c, NEW t, Good(t, c)
  PROVE  LET u == Cancel(Cancel(app_setPollRate(Restart(t, "blink")), "steer"), "backoff")
         IN  /\ Good(u, c) /\ Beside(t, u, {"blink", "poll", "steer", "backoff"})
             /\ Running(u, "poll") /\ "blink" \in u.handle
<1> DEFINE t1 == Restart(t, "blink")
<1> DEFINE t2 == app_setPollRate(t1)
<1> DEFINE t3 == Cancel(t2, "steer")
<1> DEFINE u == Cancel(t3, "backoff")
<1>1. Good(t1, c) /\ Beside(t, t1, {"blink"}) /\ "blink" \in t1.handle
  BY Restarting DEF Held
<1> HIDE DEF t1
<1>2. Good(t2, c) /\ Beside(t1, t2, {"poll"}) /\ Running(t2, "poll")
  BY <1>1, Raised
<1> HIDE DEF t2
<1>3. Good(t3, c) /\ Beside(t2, t3, {"steer"})
  BY <1>2, Cancelling DEF Held
<1> HIDE DEF t3
<1>4. Good(u, c) /\ Beside(t3, u, {"backoff"})
  BY <1>3, Cancelling DEF Held
<1> HIDE DEF u
<1>5. Beside(t, u, {"blink", "poll", "steer", "backoff"})
  BY <1>1, <1>2, <1>3, <1>4 DEF Beside
<1>6. Running(u, "poll") /\ "blink" \in u.handle
  BY <1>1, <1>2, <1>3, <1>4 DEF Beside, Kinds, Held
<1> QED
  BY <1>4, <1>5, <1>6 DEF u, t3, t2, t1

\* A success is confirmed.
LEMMA Succeeding ==
  ASSUME IInv, ConfirmSuccess, UNCHANGED <<button, cut, leaving>>,
         net' \in {"new", "joined", "lost"}, bdb' \in BdbTypes, bdb'.state # "init"
  PROVE  Kept
<1>1. /\ timers' = Cancel(Cancel(app_setPollRate(Restart(timers, "blink")), "steer"), "backoff")
      /\ searching' = FALSE /\ fast' = TRUE
      /\ icon' = [on |-> TRUE, sta |-> TRUE, times |-> 1, zero |-> FALSE]
      /\ rejoin' = [asked |-> rejoin.asked \/ net' # "joined", told |-> "nothing"]
      /\ Good(timers, cut) /\ cut' = cut
  BY DEF ConfirmSuccess, IInv
<1>2. Good(timers', cut') /\ Running(timers', "poll") /\ Blinking'
  BY <1>1, SuccessTimers DEF Blinking
<1>3. icon' \in Icons /\ icon'.times # 0
  BY <1>1 DEF Icons
<1>4. rejoin' \in RejoinTypes /\ (net' = "lost" => rejoin'.asked)
  BY <1>1 DEF RejoinTypes, IInv, OtherTypes
<1>5. OtherTypes'
  BY <1>1, <1>3, <1>4 DEF IInv, OtherTypes, RejoinTypes, BdbTypes, Buttons
<1>6. TemporaryEnds' /\ OverAtOnce' /\ IconGoesOut' /\ NothingToTell'
  BY <1>1, <1>2, <1>3 DEF TemporaryEnds, OverAtOnce, IconGoesOut, NothingToTell
<1>7. SearchStep /\ SoughtStep
  BY <1>1, <1>4 DEF SearchStep, SoughtStep, Sought
<1> QED
  BY <1>2, <1>5, <1>6, <1>7 DEF Kept, IInv

\* A search is repeated.
LEMMA Repeated ==
  ASSUME IInv, SteerAgain
  PROVE  /\ Good(timers', cut) /\ Beside(timers, timers', {"steer"})
         /\ searching => Running(timers', "steer")
<1>1. CASE searching /\ timers' = Restart(timers, "steer")
  BY <1>1, Restarting DEF IInv, Held
<1>2. CASE ~searching /\ timers' = timers
  BY <1>2 DEF IInv, Beside
<1> QED BY <1>1, <1>2 DEF SteerAgain

\* A failure is confirmed to a device that has no network.
LEMMA Failing ==
  ASSUME IInv, ConfirmFailure, UNCHANGED <<button, cut, leaving>>,
         net' = "new", bdb' \in BdbTypes, bdb'.state # "init"
  PROVE  Kept
<1>0. UNCHANGED <<icon, searching, fast, rejoin, button, cut, leaving>>
  BY DEF ConfirmFailure
<1>1. /\ Good(timers', cut) /\ Beside(timers, timers', {"steer"})
      /\ searching => Running(timers', "steer")
  BY Repeated DEF ConfirmFailure
<1>2. /\ Running(timers, "searchEnd") => Running(timers', "searchEnd")
      /\ Running(timers, "poll") => Running(timers', "poll")
      /\ Blinking' <=> Blinking
  BY <1>1 DEF Beside, Kinds, Held, Blinking
<1>3. OtherTypes'
  BY <1>0 DEF IInv, OtherTypes, BdbTypes
<1>4. TemporaryEnds' /\ OverAtOnce' /\ IconGoesOut' /\ NothingToTell'
  BY <1>0, <1>2 DEF IInv, TemporaryEnds, OverAtOnce, IconGoesOut, NothingToTell
<1>5. SearchStep /\ SoughtStep
  BY <1>0, <1>1 DEF SearchStep, SoughtStep, Attempted
<1> QED
  BY <1>0, <1>1, <1>3, <1>4, <1>5 DEF Kept, IInv

\* Nothing is confirmed, or nothing that matters.
LEMMA NothingConfirmed ==
  ASSUME IInv, UNCHANGED <<timers, icon, searching, fast, rejoin, button, cut, leaving>>,
         net' \in {net, "joined"}, bdb' \in BdbTypes, bdb'.state # "init", bdb.state # "init",
         bdb.state \in {"starting", "steering"} => bdb'.state = "steering" \/ net' # "new"
  PROVE  Kept
<1>1. OtherTypes'
  BY DEF IInv, OtherTypes, BdbTypes
<1>2. TemporaryEnds' /\ OverAtOnce' /\ IconGoesOut' /\ NothingToTell'
  BY DEF IInv, TemporaryEnds, OverAtOnce, IconGoesOut, NothingToTell, Blinking
<1>3. SearchStep /\ SoughtStep
  BY DEF SearchStep, SoughtStep, Attempted, Sought
<1> QED
  BY <1>1, <1>2, <1>3 DEF Kept, IInv

\* The stack has been initialized.
LEMMA InitStep ==
  ASSUME IInv, NEW ok, zb_bdbInitCb(ok)
  PROVE  Kept
<1>0. /\ UNCHANGED <<icon, leaving, rejoin, button, cut>> /\ Good(timers, cut)
      /\ bdb' \in BdbTypes /\ bdb'.state = "idle" /\ bdb.state = "init"
  BY DEF zb_bdbInitCb, Aside, IInv, OtherTypes, BdbTypes, Commissioning
<1>1. CASE net = "new" /\ SteerAgain /\ UNCHANGED <<searching, fast, net>>
  BY <1>0, <1>1, Failing DEF ConfirmFailure
<1>2. CASE /\ net # "new" /\ net' = "joined" /\ searching' = FALSE /\ fast' = TRUE
           /\ timers' = app_setPollRate(timers)
  <2>1. Good(timers', cut) /\ Running(timers', "poll") /\ (Blinking' <=> Blinking)
    BY <1>0, <1>2, Raised DEF Beside, Kinds, Held, Blinking
  <2>2. OtherTypes'
    BY <1>0, <1>2 DEF IInv, OtherTypes, BdbTypes
  <2>3. TemporaryEnds' /\ OverAtOnce' /\ IconGoesOut' /\ NothingToTell'
    BY <1>0, <1>2, <2>1 DEF IInv, TemporaryEnds, OverAtOnce, IconGoesOut, NothingToTell
  <2>4. SearchStep /\ SoughtStep
    BY <1>2 DEF SearchStep, SoughtStep
  <2> QED
    BY <1>0, <2>1, <2>2, <2>3, <2>4 DEF Kept, IInv
<1>3. CASE /\ net # "new" /\ net' = "lost" /\ timers' = Start(timers, "backoff")
           /\ UNCHANGED <<searching, fast>>
  <2>1. /\ Good(timers', cut) /\ Beside(timers, timers', {"backoff"})
        /\ Running(timers', "backoff")
    <3>1. "backoff" \notin cut
      BY DEF IInv, OtherTypes, Uncancelled
    <3> QED BY <1>0, <1>3, <3>1, Starting DEF Held
  <2>2. /\ Running(timers, "searchEnd") => Running(timers', "searchEnd")
        /\ Running(timers, "poll") => Running(timers', "poll")
        /\ Blinking' <=> Blinking
    BY <2>1 DEF Beside, Kinds, Held, Blinking
  <2>3. OtherTypes'
    BY <1>0, <1>3 DEF IInv, OtherTypes, BdbTypes
  <2>4. TemporaryEnds' /\ OverAtOnce' /\ IconGoesOut' /\ NothingToTell'
    BY <1>0, <1>3, <2>2 DEF IInv, TemporaryEnds, OverAtOnce, IconGoesOut, NothingToTell
  <2>5. SearchStep /\ SoughtStep
    BY <1>0, <1>3, <2>1 DEF SearchStep, SoughtStep, Sought
  <2> QED
    BY <1>0, <2>1, <2>3, <2>4, <2>5 DEF Kept, IInv
<1> QED
  BY <1>1, <1>2, <1>3 DEF zb_bdbInitCb

\* The device is asked to leave.
LEMMA LeaveRequestedStep ==
  ASSUME IInv, LeaveRequested
  PROVE  Kept
<1>0. UNCHANGED <<timers, icon, searching, fast, net, bdb, rejoin, button, cut>> /\ leaving' = TRUE
  BY DEF LeaveRequested, Aside
<1>1. OtherTypes'
  BY <1>0 DEF IInv, OtherTypes
<1>2. TemporaryEnds' /\ OverAtOnce' /\ IconGoesOut' /\ NothingToTell'
  BY <1>0 DEF IInv, TemporaryEnds, OverAtOnce, IconGoesOut, NothingToTell, Blinking
<1>3. SearchStep /\ SoughtStep
  BY <1>0 DEF SearchStep, SoughtStep, Attempted, Sought, LeaveRequested
<1> QED
  BY <1>0, <1>1, <1>2, <1>3 DEF Kept, IInv

\* The network has been left.
LEMMA LeftStep ==
  ASSUME IInv, LeaveConfirmed
  PROVE  Kept
<1>0. /\ UNCHANGED <<icon, searching, fast, button, cut>> /\ Good(timers, cut)
      /\ leaving' = FALSE /\ net' = "new" /\ bdb' = Commissioning("init", bdb.find)
      /\ rejoin' = [asked |-> FALSE, told |-> "nothing"]
      /\ timers' = Restart(Cancel(timers, "backoff"), "steer")
  BY DEF LeaveConfirmed, Aside, IInv
<1> DEFINE t == Cancel(timers, "backoff")
<1>1. Good(t, cut) /\ Beside(timers, t, {"backoff"})
  BY <1>0, Cancelling DEF Held
<1>2. Good(timers', cut) /\ Beside(t, timers', {"steer"}) /\ Running(timers', "steer")
  BY <1>0, <1>1, Restarting DEF Held
<1> HIDE DEF t
<1>3. /\ Running(timers, "searchEnd") => Running(timers', "searchEnd")
      /\ Running(timers, "poll") => Running(timers', "poll")
      /\ Blinking' <=> Blinking
  BY <1>1, <1>2 DEF Beside, Kinds, Held, Blinking
<1>4. OtherTypes'
  BY <1>0 DEF IInv, OtherTypes, Commissioning
<1>5. TemporaryEnds' /\ OverAtOnce' /\ IconGoesOut' /\ NothingToTell'
  BY <1>0, <1>3 DEF IInv, TemporaryEnds, OverAtOnce, IconGoesOut, NothingToTell, Commissioning
<1>6. SearchStep /\ SoughtStep
  BY <1>0, <1>2 DEF SearchStep, SoughtStep, Attempted
<1> QED
  BY <1>0, <1>2, <1>4, <1>5, <1>6 DEF Kept, IInv

\* Leaving has failed.
LEMMA LeaveFailedStep ==
  ASSUME IInv, LeaveFailed
  PROVE  Kept
<1>0. /\ UNCHANGED <<timers, icon, searching, fast, net, bdb, rejoin, button, cut>>
      /\ leaving /\ leaving' = FALSE
  BY DEF LeaveFailed, Aside
<1>1. OtherTypes' /\ Good(timers', cut')
  BY <1>0 DEF IInv, OtherTypes
<1>2. TemporaryEnds' /\ OverAtOnce' /\ IconGoesOut' /\ NothingToTell'
  BY <1>0 DEF IInv, TemporaryEnds, OverAtOnce, IconGoesOut, NothingToTell, Blinking
<1>3. SearchStep /\ SoughtStep
  BY <1>0 DEF SearchStep, SoughtStep, Sought
<1> QED
  BY <1>1, <1>2, <1>3 DEF Kept, IInv

\* The leave confirm.
LEMMA LeaveStep ==
  ASSUME IInv, NEW success \in BOOLEAN, app_leaveCnfHandler(success)
  PROVE  Kept
BY LeftStep, LeaveFailedStep DEF app_leaveCnfHandler

\* What an attempt, of a search or of finding & binding, leaves.
LEMMA AttemptStep ==
  ASSUME IInv, UNCHANGED <<icon, searching, fast, net, leaving, rejoin, button, cut>>,
         Good(timers', cut), NEW k \in {"steer", "findBind"}, Beside(timers, timers', {k}),
         k = "findBind" \/ ~Running(timers', "steer"), bdb' \in BdbTypes,
         bdb'.state = bdb.state \/ (bdb.state = "idle" /\ bdb'.state = "starting")
  PROVE  Kept
<1>1. /\ Running(timers, "searchEnd") => Running(timers', "searchEnd")
      /\ Running(timers, "poll") => Running(timers', "poll")
      /\ Running(timers, "backoff") => Running(timers', "backoff")
      /\ Blinking' <=> Blinking
      /\ k = "findBind" => (Running(timers', "steer") <=> Running(timers, "steer"))
  BY DEF Beside, Kinds, Held, Blinking
<1>2. OtherTypes'
  BY DEF IInv, OtherTypes, BdbTypes
<1>3. TemporaryEnds' /\ OverAtOnce' /\ IconGoesOut' /\ NothingToTell'
  BY <1>1 DEF IInv, TemporaryEnds, OverAtOnce, IconGoesOut, NothingToTell
<1>4. SearchStep /\ SoughtStep
  BY <1>1 DEF SearchStep, SoughtStep, Attempted, Sought
<1> QED
  BY <1>2, <1>3, <1>4 DEF Kept, IInv

\* A search is attempted.
LEMMA SteerStep ==
  ASSUME IInv, NEW refused \in BOOLEAN, app_bdbNetworkSteerStart(refused)
  PROVE  Kept
<1>0. /\ UNCHANGED <<icon, searching, fast, net, leaving, rejoin, button, cut>> /\ Good(timers, cut)
      /\ Running(timers, "steer") /\ timers' = Expired(timers, "steer")
  BY DEF app_bdbNetworkSteerStart, Aside, IInv
<1>1. bdb' \in BdbTypes /\ (bdb'.state = bdb.state \/ (bdb.state = "idle" /\ bdb'.state = "starting"))
  BY DEF app_bdbNetworkSteerStart, IInv, OtherTypes, BdbTypes, Commissioning
<1>2. Good(timers', cut) /\ Beside(timers, timers', {"steer"}) /\ ~Running(timers', "steer")
  BY <1>0, Expiring DEF Held
<1> QED
  BY <1>0, <1>1, <1>2, AttemptStep

\* Finding & binding is attempted.
LEMMA FindBindStartStep ==
  ASSUME IInv, NEW refused \in BOOLEAN, app_bdbFindAndBindStart(refused)
  PROVE  Kept
<1>0. /\ UNCHANGED <<icon, searching, fast, net, leaving, rejoin, button, cut>> /\ Good(timers, cut)
      /\ Running(timers, "findBind") /\ timers' \in {timers, Expired(timers, "findBind")}
  BY DEF app_bdbFindAndBindStart, Aside, IInv
<1>1. bdb' \in BdbTypes /\ (bdb'.state = bdb.state \/ (bdb.state = "idle" /\ bdb'.state = "starting"))
  BY DEF app_bdbFindAndBindStart, IInv, OtherTypes, BdbTypes, Commissioning
<1>2. Good(timers', cut) /\ Beside(timers, timers', {"findBind"})
  <2>1. CASE timers' = timers
    BY <1>0, <2>1 DEF Beside
  <2>2. CASE timers' = Expired(timers, "findBind")
    BY <1>0, <2>2, Expiring DEF Held
  <2> QED BY <1>0, <2>1, <2>2
<1> QED
  BY <1>0, <1>1, <1>2, AttemptStep

\* A commissioning starts.
LEMMA StartStep ==
  ASSUME IInv, bdb_task_start
  PROVE  Kept
<1>0. UNCHANGED <<net, leaving, button, cut>> /\ bdb.state = "starting" /\ bdb \in BdbTypes
  BY DEF bdb_task_start, Aside, IInv, OtherTypes, BdbTypes
<1>1. CASE bdb' = Commissioning("steering", bdb.find) /\ ConfirmNothing
  BY <1>0, <1>1, NothingConfirmed DEF ConfirmNothing, BdbTypes, Commissioning
<1>2. CASE net # "new" /\ bdb' = Commissioning("finding", bdb.find) /\ ConfirmNothing
  BY <1>0, <1>2, NothingConfirmed DEF ConfirmNothing, BdbTypes, Commissioning
<1>3. CASE net = "new" /\ bdb' = Commissioning("idle", bdb.find) /\ ConfirmFailure
  BY <1>0, <1>3, Failing DEF BdbTypes, Commissioning
<1> QED
  BY <1>1, <1>2, <1>3 DEF bdb_task_start

\* A steering ends.
LEMMA SteerDoneStep ==
  ASSUME IInv, NEW joins \in BOOLEAN, SteerDone(joins)
  PROVE  Kept
<1>0. /\ UNCHANGED <<leaving, button, cut>> /\ bdb.state = "steering" /\ bdb \in BdbTypes
      /\ net' \in {net, "joined"} /\ net' \in {"new", "joined", "lost"}
  BY DEF SteerDone, Aside, IInv, OtherTypes, BdbTypes
<1>1. CASE net' # "new" /\ bdb' = Commissioning("finding", bdb.find) /\ ConfirmNothing
  BY <1>0, <1>1, NothingConfirmed DEF ConfirmNothing, BdbTypes, Commissioning
<1>2. CASE bdb' = Commissioning("idle", bdb.find) /\ ConfirmSuccess
  BY <1>0, <1>2, Succeeding DEF BdbTypes, Commissioning
<1>3. CASE net' = "new" /\ bdb' = Commissioning("idle", bdb.find) /\ ConfirmFailure
  BY <1>0, <1>3, Failing DEF BdbTypes, Commissioning
<1> QED
  BY <1>1, <1>2, <1>3 DEF SteerDone

\* Finding & binding ends.
LEMMA FindBindDoneStep ==
  ASSUME IInv, FindBindDone
  PROVE  Kept
<1>0. /\ UNCHANGED <<net, leaving, button, cut>> /\ bdb.state = "finding" /\ bdb \in BdbTypes
      /\ net \in {"new", "joined", "lost"} /\ bdb' = Commissioning("idle", bdb.find)
  BY DEF FindBindDone, Aside, IInv, OtherTypes, BdbTypes
<1>1. bdb' \in BdbTypes /\ bdb'.state = "idle"
  BY <1>0 DEF BdbTypes, Commissioning
<1>2. CASE ConfirmSuccess
  BY <1>0, <1>1, <1>2, Succeeding
<1>3. CASE ConfirmNothing
  BY <1>0, <1>1, <1>3, NothingConfirmed DEF ConfirmNothing
<1> QED
  BY <1>2, <1>3 DEF FindBindDone

\* The stack tells the application, or keeps it to itself.
LEMMA Telling ==
  ASSUME IInv, NEW result \in {"success", "failure", "lost"}, bdb.state # "init"
  PROVE  /\ Told(result) \in RejoinTypes /\ Told(result).asked = rejoin.asked
         /\ bdb.state \in {"idle", "starting"} => Told(result).told # "nothing"
         /\ bdb.state \in {"idle", "starting", "steering", "finding"}
BY DEF Told, RejoinTypes, IInv, OtherTypes

\* What the loss of the network and the end of rejoining leave.
LEMMA NetworkStep ==
  ASSUME IInv, UNCHANGED <<timers, icon, searching, fast, leaving, bdb, button, cut>>,
         bdb.state # "init", net' \in {"new", "joined", "lost"}, rejoin' \in RejoinTypes,
         net' = "new" => net = "new",
         net' = "lost" => rejoin'.told # "nothing" \/ bdb.state \in {"steering", "finding"}
  PROVE  Kept
<1>1. OtherTypes'
  BY DEF IInv, OtherTypes, RejoinTypes
<1>2. TemporaryEnds' /\ OverAtOnce' /\ IconGoesOut' /\ NothingToTell'
  BY DEF IInv, TemporaryEnds, OverAtOnce, IconGoesOut, NothingToTell, Blinking
<1>3. SearchStep /\ SoughtStep
  BY DEF SearchStep, SoughtStep, Attempted, Sought
<1> QED
  BY <1>1, <1>2, <1>3 DEF Kept, IInv

\* The parent is lost.
LEMMA ParentLostStep ==
  ASSUME IInv, ParentLost
  PROVE  Kept
<1>0. /\ UNCHANGED <<timers, icon, searching, fast, leaving, bdb, button, cut>>
      /\ bdb.state # "init" /\ net' = "lost" /\ rejoin' = Told("lost")
  BY DEF ParentLost, Aside
<1>1. /\ rejoin' \in RejoinTypes
      /\ rejoin'.told # "nothing" \/ bdb.state \in {"steering", "finding"}
  BY <1>0, Telling
<1> QED
  BY <1>0, <1>1, NetworkStep

\* The stack's rejoining ends.
LEMMA RejoinedStep ==
  ASSUME IInv, NEW ok \in BOOLEAN, Rejoined(ok)
  PROVE  Kept
<1> DEFINE r == IF ok THEN "success" ELSE "failure"
<1>0. /\ UNCHANGED <<timers, icon, searching, fast, leaving, bdb, button, cut>>
      /\ bdb.state # "init" /\ net' \in {net, "joined"} /\ net \in {"new", "joined", "lost"}
      /\ rejoin' = [Told(r) EXCEPT !.asked = FALSE] /\ r \in {"success", "failure", "lost"}
  BY DEF Rejoined, Aside, IInv, OtherTypes
<1> HIDE DEF r
<1>1. /\ Told(r) \in RejoinTypes
      /\ Told(r).told # "nothing" \/ bdb.state \in {"steering", "finding"}
  BY <1>0, Telling
<1>2. rejoin' \in RejoinTypes /\ rejoin'.told = Told(r).told
  BY <1>0, <1>1 DEF RejoinTypes
<1> QED
  BY <1>0, <1>1, <1>2, NetworkStep

\* The application is told what became of the network.
LEMMA RejoinDoneStep ==
  ASSUME IInv, bdb_task_rejoinDone
  PROVE  Kept
<1>0. /\ UNCHANGED <<net, leaving, bdb, button, cut>> /\ rejoin.told # "nothing" /\ Good(timers, cut)
      /\ bdb \in BdbTypes /\ bdb.state # "init" /\ net' \in {"new", "joined", "lost"}
      /\ rejoin \in RejoinTypes
  BY DEF bdb_task_rejoinDone, Aside, IInv, OtherTypes, NothingToTell, BdbTypes, RejoinTypes
<1>1. CASE ConfirmSuccess
  BY <1>0, <1>1, Succeeding
<1>2. CASE /\ bdb.state \notin {"idle", "starting"}
           /\ rejoin' = [rejoin EXCEPT !.told = "nothing"]
           /\ UNCHANGED <<timers, icon, searching, fast>>
  <2>1. rejoin' \in RejoinTypes /\ bdb.state \in {"steering", "finding"}
    BY <1>0, <1>2 DEF RejoinTypes, BdbTypes
  <2> QED BY <1>0, <1>2, <2>1, NetworkStep
<1>3. CASE rejoin' = AfterLoss /\ UNCHANGED <<timers, icon, searching, fast>>
  <2>1. rejoin' \in RejoinTypes /\ rejoin'.asked
    BY <1>3 DEF RejoinTypes, AfterLoss
  <2>2. OtherTypes'
    BY <1>0, <1>3, <2>1 DEF IInv, OtherTypes, RejoinTypes
  <2>3. TemporaryEnds' /\ OverAtOnce' /\ IconGoesOut' /\ NothingToTell'
    BY <1>0, <1>3 DEF IInv, TemporaryEnds, OverAtOnce, IconGoesOut, NothingToTell, Blinking
  <2>4. SearchStep /\ SoughtStep
    BY <1>0, <1>3, <2>1 DEF SearchStep, SoughtStep, Attempted, Sought
  <2> QED
    BY <1>0, <1>3, <2>2, <2>3, <2>4 DEF Kept, IInv
<1>4. CASE /\ rejoin' = [rejoin EXCEPT !.told = "nothing"]
           /\ timers' = Start(timers, "backoff")
           /\ UNCHANGED <<icon, searching, fast>>
  <2>1. rejoin' \in RejoinTypes
    BY <1>0, <1>4 DEF RejoinTypes
  <2>2. /\ Good(timers', cut) /\ Beside(timers, timers', {"backoff"})
        /\ Running(timers', "backoff")
    <3>1. "backoff" \notin cut
      BY DEF IInv, OtherTypes, Uncancelled
    <3> QED BY <1>0, <1>4, <3>1, Starting DEF Held
  <2>3. /\ Running(timers, "searchEnd") => Running(timers', "searchEnd")
        /\ Running(timers, "poll") => Running(timers', "poll")
        /\ Running(timers, "steer") => Running(timers', "steer")
        /\ Blinking' <=> Blinking
    BY <2>2 DEF Beside, Kinds, Held, Blinking
  <2>4. OtherTypes'
    BY <1>0, <1>4, <2>1 DEF IInv, OtherTypes, RejoinTypes
  <2>5. TemporaryEnds' /\ OverAtOnce' /\ IconGoesOut' /\ NothingToTell'
    BY <1>0, <1>4, <2>3 DEF IInv, TemporaryEnds, OverAtOnce, IconGoesOut, NothingToTell
  <2>6. SearchStep /\ SoughtStep
    BY <1>0, <1>4, <2>2, <2>3 DEF SearchStep, SoughtStep, Attempted, Sought
  <2> QED
    BY <1>0, <2>2, <2>4, <2>5, <2>6 DEF Kept, IInv
<1> QED
  BY <1>1, <1>2, <1>3, <1>4 DEF bdb_task_rejoinDone

\* Another attempt to rejoin.
LEMMA BackoffStep ==
  ASSUME IInv, app_rejoinBacckoff
  PROVE  Kept
<1>0. /\ UNCHANGED <<icon, searching, fast, net, leaving, bdb, button, cut>> /\ Good(timers, cut)
      /\ Running(timers, "backoff") /\ rejoin \in RejoinTypes
  BY DEF app_rejoinBacckoff, Aside, IInv, OtherTypes, RejoinTypes
<1>1. /\ Good(timers', cut) /\ Beside(timers, timers', {"backoff"})
      /\ net # "new" => timers' = timers
  <2>1. CASE net = "new"
    BY <1>0, <2>1, Expiring DEF app_rejoinBacckoff, Held
  <2>2. CASE net # "new"
    BY <1>0, <2>2 DEF app_rejoinBacckoff, Beside
  <2> QED BY <2>1, <2>2
<1>2. rejoin' \in RejoinTypes /\ rejoin'.told = rejoin.told /\ (rejoin.asked => rejoin'.asked)
  BY <1>0 DEF app_rejoinBacckoff, RejoinTypes
<1>3. /\ Running(timers, "searchEnd") => Running(timers', "searchEnd")
      /\ Running(timers, "poll") => Running(timers', "poll")
      /\ Running(timers, "steer") => Running(timers', "steer")
      /\ Blinking' <=> Blinking
  BY <1>1 DEF Beside, Kinds, Held, Blinking
<1>4. OtherTypes'
  BY <1>0, <1>2 DEF IInv, OtherTypes, RejoinTypes
<1>5. TemporaryEnds' /\ OverAtOnce' /\ IconGoesOut' /\ NothingToTell'
  BY <1>0, <1>2, <1>3 DEF IInv, TemporaryEnds, OverAtOnce, IconGoesOut, NothingToTell
<1>6. SearchStep /\ SoughtStep
  BY <1>0, <1>1, <1>2, <1>3 DEF SearchStep, SoughtStep, Attempted, Sought
<1> QED
  BY <1>0, <1>1, <1>4, <1>5, <1>6 DEF Kept, IInv

-----------------------------------------------------------------------------
(***************************************************************************)
(* The theorems.                                                           *)
(***************************************************************************)

\* The invariant holds at the start ...
LEMMA Starts == Init => IInv
<1> SUFFICES ASSUME Init PROVE IInv
  OBVIOUS
<1> DEFINE t == [running |-> [k \in Kinds |-> 0], handle |-> {}, later |-> {}]
<1>1. timers = t /\ cut = {}
  BY DEF Init
<1>2. t.running = [k \in Kinds |-> 0] /\ t.handle = {} /\ t.later = {}
  OBVIOUS
<1>3. t \in Timers
  <2>1. [k \in Kinds |-> 0] \in [Kinds -> 0..MaxSearches]
    BY Bounds
  <2> QED BY <2>1 DEF Timers
<1> HIDE DEF t
<1>4. \A k \in Kinds : t.running[k] = 0 /\ ~Running(t, k)
  BY <1>2 DEF Running
<1>5. Good(t, cut)
  BY <1>2, <1>3, <1>4 DEF Good, Kinds
<1>6. icon \in Icons
  <2>1. 0 \in 0..255
    BY SMT
  <2> QED BY <2>1, IconWith DEF Init
<1>7. button \in Buttons
  <2>1. 0 \in 0..MaxClicks
    BY Bounds
  <2> QED BY <2>1 DEF Init, Buttons
<1>8. OtherTypes
  BY <1>1, <1>6, <1>7 DEF OtherTypes, Init
<1>9. TemporaryEnds /\ IconGoesOut /\ NothingToTell
  BY DEF TemporaryEnds, IconGoesOut, NothingToTell, Init
<1>10. OverAtOnce
  BY <1>1, <1>2 DEF OverAtOnce, Blinking
<1> QED
  BY <1>1, <1>5, <1>8, <1>9, <1>10 DEF IInv

\* ... and every step keeps it, and goes on searching and seeking.
LEMMA Keeps ==
  ASSUME IInv, [Next]_vars
  PROVE  Kept
<1>1. CASE UNCHANGED vars
  <2>1. UNCHANGED <<timers, icon, button, searching, fast, net, leaving, bdb, rejoin, cut>>
    BY <1>1 DEF vars
  <2>2. Good(timers', cut) /\ icon' \in Icons /\ button' \in Buttons
    BY <2>1 DEF IInv, OtherTypes
  <2>3. OverAtOnce' /\ IconGoesOut'
    BY <2>1 DEF IInv, OverAtOnce, IconGoesOut, Blinking
  <2> QED BY <2>1, <2>2, <2>3, Local
<1>2. CASE Next
  BY <1>2, BlinkStep, IdentifyStep, IdentifyEndStep, TriggerStep, PressStep, ReleaseStep,
     KeepPressedStep, SearchEndStep, SinglePressedStep, FindBindStep, OtherwiseStep,
     ClearFlagStep, PollEndStep, PeriodStep, InitStep, LeaveRequestedStep, LeaveStep,
     SteerStep, FindBindStartStep, StartStep, SteerDoneStep, FindBindDoneStep,
     ParentLostStep, RejoinedStep, RejoinDoneStep, BackoffStep DEF Next
<1> QED
  BY <1>1, <1>2

\* The invariant.
LEMMA Invariance == Spec => []IInv
<1>1. IInv /\ [Next]_vars => IInv'
  BY Keeps DEF Kept
<1> QED
  BY Starts, <1>1, PTL DEF Spec

\* The variables keep their types; no timer but the end of a search runs twice.
THEOREM Typing == Spec => []TypeOK
<1>1. IInv => TypeOK
  <2>1. Uncancelled \subseteq Kinds
    BY DEF Uncancelled, Kinds, Held
  <2> QED BY <2>1 DEF IInv, Good, OtherTypes, Icons, Buttons, TypeOK
<1> QED
  BY Invariance, <1>1, PTL

\* Handles agree with their timers but for those that were cut, of the kinds whose
\* handles nobody cancels.
THEOREM HandlesAgree == Spec => []HandlesLive
<1>1. IInv => HandlesLive
  BY DEF IInv, Good, HandlesLive
<1> QED
  BY Invariance, <1>1, PTL

\* Searches and raised poll rates have an end.
THEOREM NothingForEver == Spec => []TemporaryEnds
<1>1. IInv => TemporaryEnds
  BY DEF IInv
<1> QED
  BY Invariance, <1>1, PTL

\* The icon goes out.
THEOREM Dark == Spec => []IconGoesOut
<1>1. IInv => IconGoesOut
  BY DEF IInv
<1> QED
  BY Invariance, <1>1, PTL

\* While the search is on attempts follow each other, but for the attempts that the
\* stack refuses and for leaving that fails.
THEOREM Searched == Spec => SearchGoesOn
<1>1. IInv /\ [Next]_vars => [SearchStep]_vars
  BY Keeps DEF Kept
<1> QED
  BY Invariance, <1>1, PTL DEF Spec, SearchGoesOn, SearchStep

\* A lost network is sought.
THEOREM LostIsSought == Spec => NetworkSought
<1>1. IInv /\ [Next]_vars => [SoughtStep]_vars
  BY Keeps DEF Kept
<1> QED
  BY Invariance, <1>1, PTL DEF Spec, NetworkSought, SoughtStep
=============================================================================
