--------------------------- MODULE BindViewProofs ---------------------------
(***************************************************************************)
(* Proofs about BindView: the view is only made of a known address, and    *)
(* the module implements what the On/Off control assumes of it.            *)
(***************************************************************************)
EXTENDS BindView, FiniteSetTheorems, TLAPS

(***************************************************************************)
(* The inductive invariant.  ViewHasAddress needs to know that an answer   *)
(* brings an address: a joined device has a network.                       *)
(***************************************************************************)
ViewInv ==
  /\ joined \in BOOLEAN /\ idle \in BOOLEAN /\ one \in BOOLEAN
  /\ timer \in BOOLEAN /\ asked \in BOOLEAN
  /\ home \in Coordinators \cup {None}
  /\ joined => home # None
  /\ ViewHasAddress

\* There is no view and no request at the start.
LEMMA ViewInit == Init => ViewInv
BY DEF Init, ViewInv, ViewHasAddress

\* Every action preserves the invariant.
LEMMA ViewStep == ViewInv /\ [Next]_vars => ViewInv'
<1> SUFFICES ASSUME ViewInv, [Next]_vars PROVE ViewInv'
  OBVIOUS
<1> USE DEF ViewInv, ViewHasAddress
<1>1. CASE app_update_bind_tbl
  BY <1>1 DEF app_update_bind_tbl, TimerStarts, onoff_cmp_addr
<1>2. CASE app_bindTimerCb
  BY <1>2 DEF app_bindTimerCb
<1>3. ASSUME NEW success \in BOOLEAN, app_getIeeeCb(success) PROVE ViewInv'
  BY <1>3 DEF app_getIeeeCb
<1>4. ASSUME NEW t, app_bindOrUnbindIndicate(t) PROVE ViewInv'
  BY <1>4 DEF app_bindOrUnbindIndicate
<1>5. ASSUME NEW n \in Presses, buttonPressed(n) PROVE ViewInv'
  BY <1>5 DEF buttonPressed, view
<1>6. ASSUME NEW e \in Entry, bdb_binding(e) PROVE ViewInv'
  BY <1>6 DEF bdb_binding, view
<1>7. ASSUME NEW outcome \in Outcomes, zb_bdbCommissioningCb(outcome) PROVE ViewInv'
  <2>1. timer' = TRUE \/ timer' = timer
    BY <1>7, Zenon DEF zb_bdbCommissioningCb, TimerStarts
  <2>2. UNCHANGED <<home, joined, known, idle, one, asked>>
    BY <1>7, Zenon DEF zb_bdbCommissioningCb
  <2> QED
    BY <2>1, <2>2
<1>8. ASSUME NEW network \in Coordinators, Join(network) \/ JoinUnnoticed(network)
      PROVE  ViewInv'
  <2>1. timer' = TRUE \/ timer' = timer
    BY <1>8, Zenon DEF Join, JoinUnnoticed, TimerStarts
  <2>2. OnNetwork(network)
    BY <1>8, Zenon DEF Join, JoinUnnoticed
  <2> QED
    BY <2>1, <2>2, AddressesAssumption DEF OnNetwork
<1>13. CASE RejoinFailed \/ app_rejoinBacckoff
  <2>1. timer' = TRUE \/ timer' = timer
    BY <1>13, Zenon DEF RejoinFailed, app_rejoinBacckoff, TimerStarts, view
  <2>2. UNCHANGED <<home, joined, known, idle, one, asked>>
    BY <1>13, Zenon DEF RejoinFailed, app_rejoinBacckoff, view
  <2> QED
    BY <2>1, <2>2
<1>9. CASE ParentLost
  BY <1>9 DEF ParentLost, view
<1>10. CASE app_leaveCnfHandler
  BY <1>10 DEF app_leaveCnfHandler
<1>11. CASE Reboot
  BY <1>11 DEF Reboot
<1>12. CASE UNCHANGED vars
  BY <1>12 DEF vars
<1> QED
  BY <1>1, <1>2, <1>3, <1>4, <1>5, <1>6, <1>7, <1>8, <1>9, <1>10, <1>11, <1>12, <1>13
     DEF Next, Bind, Unbind

\* The invariant holds in every reachable state.
LEMMA ViewAlways == Spec => []ViewInv
BY ViewInit, ViewStep, PTL DEF Spec

\* There is no view before the coordinator's address is known, and while the
\* address is being waited for, the timer that asks for it runs
\* (app_binding.c:71-77, 170-172).
THEOREM ViewsHaveAddresses == Spec => []ViewHasAddress
<1>1. ViewInv => ViewHasAddress
  BY DEF ViewInv
<1> QED
  BY <1>1, ViewAlways, PTL

-----------------------------------------------------------------------------
(***************************************************************************)
(* The refinement.                                                         *)
(***************************************************************************)

\* The device starts as the control assumes it to.
LEMMA EnvironmentInit == Init => Env!Off
BY DEF Init, Env!Off

\* Every step changes the three flags as the control assumes, or not at all.
LEMMA EnvironmentStep ==
  ViewInv /\ ViewInv' /\ [Next]_vars =>
    [Env!Update \/ Env!Join \/ Env!Leave \/ Env!Restart]_(Env!flags)
<1> SUFFICES ASSUME ViewInv, ViewInv', [Next]_vars
             PROVE  [Env!Update \/ Env!Join \/ Env!Leave \/ Env!Restart]_(Env!flags)
  OBVIOUS
<1> DEFINE Kept == joined' = joined /\ idle' = idle /\ one' = one
<1>0. Kept => UNCHANGED Env!flags
  BY DEF Env!flags
<1>1. CASE app_update_bind_tbl
  <2>1. CASE known = None
    BY <1>0, <1>1, <2>1 DEF app_update_bind_tbl, ViewInv, ViewHasAddress
  <2>2. CASE known # None
    BY <1>1, <2>2 DEF app_update_bind_tbl, ViewInv, Env!Update
  <2> QED
    BY <2>1, <2>2
<1>2. CASE app_bindTimerCb
  BY <1>0, <1>2 DEF app_bindTimerCb
<1>3. ASSUME NEW success \in BOOLEAN, app_getIeeeCb(success) PROVE Kept
  BY <1>3 DEF app_getIeeeCb
<1>4. ASSUME NEW t, app_bindOrUnbindIndicate(t) PROVE Kept
  BY <1>4 DEF app_bindOrUnbindIndicate
<1>5. ASSUME NEW n \in Presses, buttonPressed(n) PROVE Kept
  BY <1>5 DEF buttonPressed, view
<1>6. ASSUME NEW e \in Entry, bdb_binding(e) PROVE Kept
  BY <1>6 DEF bdb_binding, view
<1>7. ASSUME NEW outcome \in Outcomes, zb_bdbCommissioningCb(outcome) PROVE Kept
  BY <1>7 DEF zb_bdbCommissioningCb
<1>8. ASSUME NEW network \in Coordinators, Join(network) \/ JoinUnnoticed(network)
      PROVE  Env!Join
  BY <1>8 DEF Join, JoinUnnoticed, OnNetwork, Env!Join
<1>12. CASE RejoinFailed \/ app_rejoinBacckoff
  BY <1>0, <1>12 DEF RejoinFailed, app_rejoinBacckoff, view
<1>9. CASE ParentLost \/ app_leaveCnfHandler
  <2>1. joined' = FALSE /\ idle' = idle /\ one' = one
    BY <1>9 DEF ParentLost, app_leaveCnfHandler, view
  <2>2. CASE joined
    BY <2>1, <2>2 DEF Env!Leave
  <2>3. CASE ~joined
    BY <1>0, <2>1, <2>3 DEF ViewInv
  <2> QED
    BY <2>2, <2>3
<1>10. CASE Reboot
  BY <1>10 DEF Reboot, Env!Restart, Env!Off
<1>11. CASE UNCHANGED vars
  BY <1>0, <1>11 DEF vars
<1> QED
  BY <1>0, <1>1, <1>2, <1>3, <1>4, <1>5, <1>6, <1>7, <1>8, <1>9, <1>10, <1>11, <1>12
     DEF Next, Bind, Unbind

\* BindView implements what the On/Off control assumes of the flags it reads:
\* one_device changes only when the view is computed, and a view is lost only in
\* a restart (app_on_off.c:654-661, app_binding.c:66-90).
THEOREM ImplementsControlEnvironment == Spec => ControlEnvironmentKept
BY EnvironmentInit, EnvironmentStep, ViewAlways, PTL
   DEF Spec, ControlEnvironmentKept, Env!Spec

-----------------------------------------------------------------------------
(***************************************************************************)
(* Types.  The bound on the table needs the table to be finite.            *)
(***************************************************************************)
Typed == TypeOK /\ IsFiniteSet(table) /\ (joined => home # None)

\* What a part of a table has at most.
LEMMA PartOfTable ==
  ASSUME Typed, NEW t, t \subseteq table
  PROVE  t \subseteq Entry /\ IsFiniteSet(t) /\ Cardinality(t) <= TableSize
<1>1. IsFiniteSet(t) /\ Cardinality(t) <= Cardinality(table)
  BY FS_Subset DEF Typed
<1>2. Cardinality(t) \in Nat /\ Cardinality(table) \in Nat /\ TableSize \in Nat
  BY <1>1, FS_CardinalityType, BoundsAssumption DEF Typed
<1> QED
  BY <1>1, <1>2 DEF Typed, TypeOK

\* A table that is not full takes an entry.
LEMMA Taken ==
  ASSUME Typed, NEW e \in Entry, Cardinality(table) < TableSize
  PROVE  /\ table \cup {e} \subseteq Entry /\ IsFiniteSet(table \cup {e})
         /\ Cardinality(table \cup {e}) <= TableSize
<1>1. /\ IsFiniteSet(table \cup {e})
      /\ Cardinality(table \cup {e}) \in {Cardinality(table), Cardinality(table) + 1}
  BY FS_AddElement DEF Typed
<1>2. Cardinality(table) \in Nat /\ TableSize \in Nat
  BY FS_CardinalityType, BoundsAssumption DEF Typed
<1> QED
  BY <1>1, <1>2 DEF Typed, TypeOK

\* The stack's table stays one.
LEMMA BoundTable ==
  ASSUME Typed, NEW e \in Entry
  PROVE  /\ Bound(table, e) \subseteq Entry /\ IsFiniteSet(Bound(table, e))
         /\ Cardinality(Bound(table, e)) <= TableSize
<1>1. CASE Cardinality(table) < TableSize
  BY <1>1, Taken DEF Bound
<1>2. CASE ~(Cardinality(table) < TableSize)
  BY <1>2, PartOfTable DEF Bound
<1> QED
  BY <1>1, <1>2

\* Nothing is bound and nothing is under way at the start.
LEMMA TypedInit == Init => Typed
<1> SUFFICES ASSUME Init PROVE Typed
  OBVIOUS
<1>1. IsFiniteSet({}) /\ Cardinality({}) = 0
  BY FS_EmptySet
<1>2. tasks \in 0..MaxTasks /\ Cardinality(table) <= TableSize
  BY <1>1, BoundsAssumption DEF Init
<1> QED
  BY <1>1, <1>2, Zenon DEF Init, Typed, TypeOK

\* Every action keeps the types.
LEMMA TypedStep == Typed /\ [Next]_vars => Typed'
<1> SUFFICES ASSUME Typed, [Next]_vars PROVE Typed'
  OBVIOUS
<1>0. MaxTasks \in Nat /\ TableSize \in Nat
  BY BoundsAssumption
<1> DEFINE Same(t) == t \subseteq Entry /\ IsFiniteSet(t) /\ Cardinality(t) <= TableSize
<1>a. Same(table) /\ Same({})
  BY PartOfTable
<1>1. CASE app_update_bind_tbl
  <2>1. tasks' \in 0..MaxTasks
    BY <1>0, <1>1 DEF app_update_bind_tbl, Typed, TypeOK
  <2>2. one' \in BOOLEAN /\ timer' \in BOOLEAN
    BY <1>1 DEF app_update_bind_tbl, TimerStarts, onoff_cmp_addr, Typed, TypeOK
  <2>3. idle' \in BOOLEAN /\ silent' \subseteq {"deleted", "added", "joined"}
    BY <1>1 DEF app_update_bind_tbl, TimerStarts, Typed, TypeOK
  <2> QED
    BY <1>1, <2>1, <2>2, <2>3, Zenon DEF app_update_bind_tbl, Typed, TypeOK
<1>2. CASE app_bindTimerCb
  <2>0. tasks' = tasks \/ (tasks < MaxTasks /\ tasks' = tasks + 1)
    BY <1>2, Zenon DEF app_bindTimerCb
  <2>1. tasks' \in 0..MaxTasks
    BY <1>0, <2>0 DEF Typed, TypeOK
  <2>2. asked' \in BOOLEAN /\ timer' \in BOOLEAN
    BY <1>2, Zenon DEF app_bindTimerCb, Typed, TypeOK
  <2> QED
    BY <1>2, <2>1, <2>2, Zenon DEF app_bindTimerCb, Typed, TypeOK
<1>3. ASSUME NEW success \in BOOLEAN, app_getIeeeCb(success) PROVE Typed'
  BY <1>3 DEF app_getIeeeCb, Typed, TypeOK
<1>4. ASSUME NEW t, Same(t), app_bindOrUnbindIndicate(t) PROVE Typed'
  BY <1>0, <1>4 DEF app_bindOrUnbindIndicate, Typed, TypeOK
<1>5. ASSUME NEW e \in Entry, Bind(e) \/ Unbind(e) PROVE Typed'
  <2>1. Same(Bound(table, e)) /\ Same(table \ {e})
    BY BoundTable, PartOfTable
  <2> QED
    BY <1>4, <1>5, <2>1 DEF Bind, Unbind
<1>6. ASSUME NEW n \in Presses, buttonPressed(n) PROVE Typed'
  <2>1. Same(table')
    BY <1>6, PartOfTable DEF buttonPressed
  <2> QED
    BY <1>6, <2>1 DEF buttonPressed, view, Typed, TypeOK
<1>7. ASSUME NEW e \in Entry, bdb_binding(e) PROVE Typed'
  <2>1. Same(table')
    BY <1>7, Taken DEF bdb_binding
  <2> QED
    BY <1>7, <2>1 DEF bdb_binding, view, Typed, TypeOK
<1>8. ASSUME NEW outcome \in Outcomes, zb_bdbCommissioningCb(outcome) PROVE Typed'
  BY <1>8 DEF zb_bdbCommissioningCb, TimerStarts, Typed, TypeOK
<1>9. ASSUME NEW network \in Coordinators, Join(network) \/ JoinUnnoticed(network)
      PROVE  Typed'
  BY <1>9, AddressesAssumption DEF Join, JoinUnnoticed, OnNetwork, TimerStarts, Typed, TypeOK
<1>14. CASE RejoinFailed \/ app_rejoinBacckoff
  BY <1>14 DEF RejoinFailed, app_rejoinBacckoff, TimerStarts, view, Typed, TypeOK
<1>10. CASE ParentLost
  BY <1>10 DEF ParentLost, view, Typed, TypeOK
<1>11. CASE app_leaveCnfHandler
  <2>1. Same(table')
    BY <1>a, <1>11 DEF app_leaveCnfHandler
  <2> QED
    BY <1>11, <2>1 DEF app_leaveCnfHandler, Typed, TypeOK
<1>12. CASE Reboot
  <2>1. Same(table')
    BY <1>a, <1>12 DEF Reboot
  <2>2. tasks' \in 0..MaxTasks
    BY <1>0, <1>12 DEF Reboot
  <2> QED
    BY <1>12, <2>1, <2>2, Zenon DEF Reboot, Typed, TypeOK
<1>13. CASE UNCHANGED vars
  BY <1>13 DEF vars, Typed, TypeOK
<1> QED
  BY <1>1, <1>2, <1>3, <1>5, <1>6, <1>7, <1>8, <1>9, <1>10, <1>11, <1>12, <1>13, <1>14 DEF Next

\* The types hold always.
LEMMA TypedAlways == Spec => []Typed
BY TypedInit, TypedStep, PTL DEF Spec

\* The variables keep their types, and the table never holds more than it can
\* (app_binding.c:29-57 reads APS_BINDING_TABLE_NUM entries).
THEOREM ViewTyping == Spec => []TypeOK
<1>1. Typed => TypeOK
  BY DEF Typed
<1> QED
  BY <1>1, TypedAlways, PTL

-----------------------------------------------------------------------------
(***************************************************************************)
(* Staleness.  The invariant says what is on the way for a view that       *)
(* disagrees: finding & binding only if it has added something, since one  *)
(* that has not may end without a word.  It speaks of lost networks too,   *)
(* which may be joined again with nobody told.                             *)
(***************************************************************************)
OnTheWay == tasks > 0 \/ timer \/ finding = "added" \/ silent # {}
Renewed ==
  ~idle /\ home # None => one = onoff_cmp_addr(table, known) \/ OnTheWay

\* On one network every action keeps it so that staleness is on the way to be noticed.
LEMMA NoticeStep ==
  ASSUME NEW c, Coordinators = {c}, Typed, Typed', ViewHasAddress, Renewed, [Next]_vars
  PROVE  Renewed'
<1> USE DEF Renewed, OnTheWay
<1>0. tasks \in Nat /\ tasks' \in Nat
  BY BoundsAssumption DEF Typed, TypeOK
<1>1. CASE app_update_bind_tbl
  BY <1>1 DEF app_update_bind_tbl, TimerStarts
<1>2. CASE app_bindTimerCb
  <2>0. tasks' = tasks + 1 \/ (timer' = timer /\ tasks' = tasks)
    BY <1>2, Zenon DEF app_bindTimerCb
  <2>1. tasks' > 0 \/ (timer' = timer /\ tasks' = tasks)
    BY <1>0, <2>0
  <2> QED
    BY <1>2, <2>1, Zenon DEF app_bindTimerCb
<1>3. ASSUME NEW success \in BOOLEAN, app_getIeeeCb(success) PROVE Renewed'
  <2>1. idle \/ known' = known
    BY <1>3 DEF app_getIeeeCb, Typed, TypeOK, ViewHasAddress
  <2> QED
    BY <1>3, <2>1 DEF app_getIeeeCb
<1>4. ASSUME NEW t, app_bindOrUnbindIndicate(t) PROVE Renewed'
  BY <1>0, <1>4 DEF app_bindOrUnbindIndicate
<1>5. ASSUME NEW n \in Presses, buttonPressed(n) PROVE Renewed'
  <2>1. CASE Deleted(n) = {}
    <3>1. table' = table /\ silent' = silent
      BY <1>5, <2>1 DEF buttonPressed
    <3>2. finding = "added" => finding' = "added"
      BY <1>5 DEF buttonPressed
    <3> QED
      BY <1>5, <3>1, <3>2 DEF buttonPressed, view
  <2>2. CASE Deleted(n) # {}
    BY <1>5, <2>2 DEF buttonPressed
  <2> QED
    BY <2>1, <2>2
<1>6. ASSUME NEW e \in Entry, bdb_binding(e) PROVE Renewed'
  BY <1>6 DEF bdb_binding
<1>7. ASSUME NEW outcome \in Outcomes, zb_bdbCommissioningCb(outcome) PROVE Renewed'
  <2>1. CASE OnTheWay
    BY <1>7, <2>1 DEF zb_bdbCommissioningCb, TimerStarts
  <2>2. CASE ~OnTheWay
    BY <1>7, <2>2 DEF zb_bdbCommissioningCb, TimerStarts
  <2> QED
    BY <2>1, <2>2
<1>8. ASSUME NEW network \in Coordinators, Join(network) PROVE Renewed'
  BY <1>8 DEF Join, TimerStarts
<1>11. ASSUME NEW network \in Coordinators, JoinUnnoticed(network) PROVE Renewed'
  BY <1>11 DEF JoinUnnoticed, OnNetwork
<1>12. CASE RejoinFailed \/ app_rejoinBacckoff
  BY <1>12 DEF RejoinFailed, app_rejoinBacckoff, TimerStarts, view
<1>9. CASE ParentLost \/ app_leaveCnfHandler \/ Reboot
  BY <1>9 DEF ParentLost, app_leaveCnfHandler, Reboot, view
<1>10. CASE UNCHANGED vars
  BY <1>10 DEF vars
<1> QED
  BY <1>1, <1>2, <1>3, <1>4, <1>5, <1>6, <1>7, <1>8, <1>9, <1>10, <1>11, <1>12
     DEF Next, Bind, Unbind

\* A device of one network has its coordinator's address, if it has any.
LEMMA Noticed ==
  ASSUME NEW c, Coordinators = {c}, Typed, ViewHasAddress, Renewed
  PROVE  StaleIsNoticed
<1> SUFFICES ASSUME Stale PROVE tasks > 0 \/ timer \/ finding # "no" \/ silent # {}
  BY DEF StaleIsNoticed
<1>1. known = home
  BY DEF Stale, Typed, TypeOK, ViewHasAddress
<1>2. onoff_cmp_addr(table, known) = Shared
  BY <1>1 DEF onoff_cmp_addr, Shared
<1>3. home # None
  BY DEF Stale, Typed
<1> QED
  BY <1>2, <1>3 DEF Stale, Renewed, OnTheWay

\* On one network a view that disagrees with the table is about to be computed anew,
\* but for the changes nobody was told of (app_binding.c:139).
THEOREM StalenessNoticed ==
  ASSUME NEW c, Coordinators = {c}
  PROVE  Spec => []StaleIsNoticed
<1>1. Init => Renewed
  BY DEF Init, Renewed
<1>2. Typed /\ Typed' /\ ViewHasAddress /\ Renewed /\ [Next]_vars => Renewed'
  BY NoticeStep
<1>3. Typed /\ ViewHasAddress /\ Renewed => StaleIsNoticed
  BY Noticed
<1> QED
  BY <1>1, <1>2, <1>3, TypedAlways, ViewsHaveAddresses, PTL DEF Spec
=============================================================================
