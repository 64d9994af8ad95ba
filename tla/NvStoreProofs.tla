--------------------------- MODULE NvStoreProofs ---------------------------
(***************************************************************************)
(* Proofs about NvStore: types, that every item is a register whatever is  *)
(* interrupted, that what was stored is found, and that there is room for  *)
(* every item.                                                             *)
(***************************************************************************)
EXTENDS NvStore, TLAPS, FiniteSetTheorems, WellFoundedInduction

\* Entry k of index q counts for item i, if no later one does.
Valid(q, k, i) == q[k].state = "valid" /\ q[k].id = i

\* The valid entries of item i before position n, and the value of the last.
Before(q, i, n) == {k \in DOMAIN q : k < n /\ Valid(q, k, i)}
Value(q, i, n)  == IF Before(q, i, n) = {} THEN None ELSE q[Max(Before(q, i, n))].val

\* An entry that a later one replaces.
Doubled(q) == \E k, l \in DOMAIN q : k < l /\ Valid(q, k, q[l].id) /\ q[l].state = "valid"

\* The value of item i in sector s.
Held(s, i) == Value(flash[s].idx, i, Slots + 1)

\* An entry written in part is the last.
TornLast(q) == \A k \in DOMAIN q : q[k].state = "torn" => k = Len(q)

new == task.sect
old == Other(task.sect)

Moving == {"erase", "dedupe", "copy", "copied", "ready", "retire", "enter"}
Adding == {"append", "validate"}

\* What the steps of a call know whatever the battery does.
CallShape ==
  /\ task.pc = "idle" => task = Idle
  /\ task.id = None <=> task.val = None
  /\ task.id = None => task.pc \in {"idle", "select", "adopt"} /\ ~task.forced
  /\ task.id # None => promised[task.id] = None /\ ~full
  /\ task.forced => weak
  /\ task.pc \in Moving => task.switch
  /\ task.pc \in {"delete", "header"} => ~task.switch
  /\ task.pc = "adopt" => Chosen = new /\ flash[new].flag = "ready"
  /\ task.pc = "format" => Chosen = NoSector
  /\ task.pc \in {"erase", "dedupe"} => task.slot = 1
  /\ task.pc \in {"copy", "copied"} =>
       /\ 1 <= task.slot
       /\ task.slot <= IF task.pc = "copy" THEN task.at ELSE task.at - 1
  /\ task.pc \in Adding => 1 <= task.slot
  /\ task.pc = "validate" => task.slot <= Len(flash[new].idx) /\ task.del < task.slot
  /\ task.pc = "validate" /\ task.switch => task.del = 0
  /\ task.pc = "delete" => task.del \in 1..task.slot - 1 /\ task.slot <= Len(flash[new].idx)
  /\ task.pc = "header" => task.slot = 1

\* The old sector is in use, and the new one is being filled.
Filling(n) ==
  /\ Chosen = old
  /\ flash[old].flag = "valid"
  /\ flash[new].flag = "idle"
  /\ Len(flash[new].idx) = n

\* The first n entries of the new sector are in order.
InOrder(n) == \A k \in 1..n : flash[new].idx[k].state = "valid"

\* They come from entries before position n of the old one.
Origin ==
  LET p == flash[old].idx  q == flash[new].idx
  IN  /\ \A m \in DOMAIN q : /\ q[m].id # task.id
                             /\ \E k \in DOMAIN p : k < task.at /\ Valid(p, k, q[m].id)
      /\ \A m, l \in DOMAIN q : m < l /\ q[m].id = q[l].id => Doubled(p)

\* Every other item has in the new sector, before position m, the value it has in
\* the old one before position n.
Mirrors(m, n) ==
  \A i \in Items \ {task.id} :
     Value(flash[new].idx, i, m) = Value(flash[old].idx, i, n)

\* The entry that has been added.
IsAdded(x) ==
  /\ Len(flash[new].idx) = task.slot
  /\ flash[new].idx[task.slot] = [id |-> task.id, val |-> task.val, state |-> x]

\* The new sector holds the new value of the item, and every other item as before.
Complete ==
  /\ Held(new, task.id) = task.val
  /\ Mirrors(Slots + 1, Slots + 1)

\* Copying has begun, whether it can go on or not.
Copying ==
  task.pc \in {"copy", "copied"} /\ (~weak \/ task.slot > 1 \/ task.pc = "copied") =>
    /\ Filling(IF task.pc = "copy" THEN task.slot - 1 ELSE task.slot)
    /\ Origin

\* With a good battery.
Erasing == task.pc = "erase" => Chosen = old /\ flash[old].flag = "valid"
Sorting == task.pc = "dedupe" => Filling(0)
Copies  == task.pc = "copy" => InOrder(task.slot - 1) /\ Mirrors(Slots + 1, task.at)
CopyMade ==
  task.pc = "copied" =>
    LET x == flash[old].idx[task.at - 1]
    IN  /\ InOrder(task.slot - 1)
        /\ task.at - 1 \in DOMAIN flash[old].idx
        /\ x.state = "valid"
        /\ flash[new].idx[task.slot] = [id |-> x.id, val |-> x.val, state |-> "operation"]
        /\ Mirrors(Slots + 1, task.at - 1)
MoveAdds ==
  task.switch =>
    /\ task.pc = "append" =>
         /\ task.slot <= Slots
         /\ Filling(task.slot - 1)
         /\ InOrder(task.slot - 1)
         /\ \A k \in DOMAIN flash[new].idx : flash[new].idx[k].id # task.id
    /\ task.pc = "validate" => Filling(task.slot) /\ IsAdded("operation")
    /\ task.pc \in Adding => Mirrors(Slots + 1, Slots + 1)
Moved ==
  /\ task.pc = "ready" => /\ Chosen = old /\ flash[old].flag = "valid"
                          /\ flash[new].flag = "idle"
                          /\ Complete
  /\ task.pc = "retire" => /\ flash[new].flag = "ready"
                           /\ flash[old].flag = "valid"
                           /\ Complete
  /\ task.pc = "enter" => /\ flash[new].flag = "ready"
                          /\ Chosen = new
                          /\ Held(new, task.id) = task.val

\* The sector of the new entry is in use, or has just been formatted.
InPlace == \/ Chosen = new
           \/ /\ Chosen = NoSector /\ new = 0 /\ task.slot = 1
              /\ flash[new].flag = "idle"
Adds ==
  ~task.switch =>
    /\ task.pc \in Adding => InPlace
    /\ task.pc = "append" =>
         /\ task.slot <= Slots
         /\ Len(flash[new].idx) = task.slot - 1
         /\ task.slot > 1 => flash[new].idx[task.slot - 1].state # "torn"
    /\ task.pc = "validate" => /\ IsAdded("operation")
                               /\ task.del # 0 => Valid(flash[new].idx, task.del, task.id)
    /\ task.pc = "delete" => /\ IsAdded("valid")
                             /\ Chosen = new
                             /\ Valid(flash[new].idx, task.del, task.id)
    /\ task.pc = "header" => IsAdded("valid") /\ InPlace

GoodBattery ==
  /\ Erasing /\ Sorting /\ Copies /\ CopyMade
  /\ MoveAdds /\ Moved /\ Adds

IInv ==
  /\ TypeOK
  /\ CallShape
  /\ \A s \in {0, 1} : TornLast(flash[s].idx)
  /\ Copying
  /\ ~weak => GoodBattery
  /\ StoredIsFound
  /\ RoomForAll

-----------------------------------------------------------------------------
(***************************************************************************)
(* Indexes.                                                                *)
(***************************************************************************)

\* A set of numbers up to n that is not empty has a smallest one.
LEMMA MinOf ==
  ASSUME NEW S \in SUBSET Nat, S # {}
  PROVE  Min(S) \in S /\ \A k \in S : Min(S) <= k
<1>1. PICK m \in S : \A k \in S : ~(<<k, m>> \in OpToRel(<, Nat))
  BY NatLessThanWellFounded, WFMin
<1>2. ASSUME NEW k \in S PROVE m <= k
  <2>1. ~(<<k, m>> \in OpToRel(<, Nat))
    BY <1>1
  <2>2. ~(k < m)
    BY <2>1, Zenon DEF OpToRel
  <2> QED BY <2>2
<1> QED BY <1>2 DEF Min

\* ... and a largest one.
LEMMA MaxOf ==
  ASSUME NEW n \in Nat, NEW S \in SUBSET (0..n), S # {}
  PROVE  Max(S) \in S /\ \A k \in S : k <= Max(S)
<1> DEFINE T == {n - k : k \in S}
<1>1. T \in SUBSET Nat /\ T # {}
  <2>1. \A k \in S : n - k \in Nat
    BY SMT
  <2> QED BY <2>1, Zenon
<1>2. PICK t \in T : \A k \in T : t <= k
  BY <1>1, MinOf
<1>3. PICK m \in S : t = n - m
  OBVIOUS
<1>4. \A k \in S : k <= m
  <2> SUFFICES ASSUME NEW k \in S PROVE k <= m
    OBVIOUS
  <2>1. n - k \in T
    OBVIOUS
  <2>2. t <= n - k
    BY <2>1, <1>2
  <2>3. k \in 0..n /\ m \in 0..n
    OBVIOUS
  <2> QED BY <2>2, <2>3, <1>3
<1> QED BY <1>4 DEF Max

\* No valid entry of item i stands before position n: its value is None.
LEMMA ValueNone ==
  ASSUME NEW q, NEW i, NEW n,
         \A k \in DOMAIN q : k < n => ~Valid(q, k, i)
  PROVE  Value(q, i, n) = None
BY DEF Value, Before

\* The value is that of the last valid entry.
LEMMA ValueLast ==
  ASSUME NEW q \in Seq(Entry), NEW i, NEW n \in Nat, NEW k \in DOMAIN q, k < n,
         Valid(q, k, i),
         \A l \in DOMAIN q : k < l /\ l < n => ~Valid(q, l, i)
  PROVE  Value(q, i, n) = q[k].val
<1>1. k \in Before(q, i, n) /\ Before(q, i, n) \in SUBSET (0..n)
  BY DEF Before
<1>2. /\ Max(Before(q, i, n)) \in Before(q, i, n)
      /\ \A l \in Before(q, i, n) : l <= Max(Before(q, i, n))
  BY <1>1, MaxOf
<1>3. Max(Before(q, i, n)) = k
  <2> DEFINE m == Max(Before(q, i, n))
  <2>1. m \in DOMAIN q /\ m < n /\ Valid(q, m, i) /\ k <= m
    BY <1>1, <1>2 DEF Before
  <2>2. ~(k < m)
    BY <2>1
  <2>3. k \in Int /\ m \in Int
    BY <2>1
  <2> QED BY <2>1, <2>2, <2>3
<1> QED BY <1>1, <1>3 DEF Value

\* One of the two is the case.
LEMMA ValueCases ==
  ASSUME NEW q \in Seq(Entry), NEW i, NEW n \in Nat
  PROVE  \/ /\ \A k \in DOMAIN q : k < n => ~Valid(q, k, i)
            /\ Value(q, i, n) = None
         \/ \E k \in DOMAIN q :
              /\ k < n /\ Valid(q, k, i)
              /\ \A l \in DOMAIN q : k < l /\ l < n => ~Valid(q, l, i)
              /\ Value(q, i, n) = q[k].val
<1>1. CASE Before(q, i, n) = {}
  BY <1>1 DEF Before, Value
<1>2. CASE Before(q, i, n) # {}
  <2> DEFINE k == Max(Before(q, i, n))
  <2>1. Before(q, i, n) \in SUBSET (0..n)
    BY DEF Before
  <2>2. k \in Before(q, i, n) /\ \A l \in Before(q, i, n) : l <= k
    BY <2>1, <1>2, MaxOf
  <2>3. k \in DOMAIN q /\ k < n /\ Valid(q, k, i)
    BY <2>2 DEF Before
  <2>4. \A l \in DOMAIN q : k < l /\ l < n => ~Valid(q, l, i)
    <3> SUFFICES ASSUME NEW l \in DOMAIN q, k < l, l < n, Valid(q, l, i) PROVE FALSE
      OBVIOUS
    <3>1. l \in Before(q, i, n)
      BY DEF Before
    <3>2. l <= k
      BY <2>2, <3>1
    <3>3. k \in Int /\ l \in Int
      BY <2>3
    <3> QED BY <3>2, <3>3
  <2>5. Value(q, i, n) = q[k].val
    BY <1>2 DEF Value
  <2> QED BY <2>3, <2>4, <2>5
<1> QED BY <1>1, <1>2

\* An item's value is one of the data or None.
LEMMA ValueType ==
  ASSUME NEW q \in Seq(Entry), NEW i, NEW n \in Nat
  PROVE  Value(q, i, n) \in Data \cup {None}
<1>1. \A k \in DOMAIN q : q[k].val \in Data
  <2>1. \A k \in DOMAIN q : q[k] \in Entry
    OBVIOUS
  <2> QED BY <2>1 DEF Entry
<1> QED BY <1>1, ValueCases

\* An entry that is not valid has no effect ...
LEMMA ValueAppend ==
  ASSUME NEW q \in Seq(Entry), NEW e \in Entry, NEW i, NEW n \in Nat, e.state # "valid"
  PROVE  Value(Append(q, e), i, n) = Value(q, i, n)
<1> DEFINE r == Append(q, e)
<1>1. /\ r \in Seq(Entry) /\ Len(r) = Len(q) + 1 /\ r[Len(q) + 1] = e
      /\ \A k \in DOMAIN q : k \in DOMAIN r /\ r[k] = q[k]
  OBVIOUS
<1>2. \A k \in DOMAIN r : k \in DOMAIN q \/ k = Len(q) + 1
  OBVIOUS
<1> HIDE DEF r
<1>3. \A k \in DOMAIN r : Valid(r, k, i) <=> k \in DOMAIN q /\ Valid(q, k, i)
  BY <1>1, <1>2 DEF Valid
<1>4. CASE \A k \in DOMAIN q : k < n => ~Valid(q, k, i)
  <2>1. \A k \in DOMAIN r : k < n => ~Valid(r, k, i)
    BY <1>3, <1>4
  <2>2. Value(r, i, n) = None /\ Value(q, i, n) = None
    BY <2>1, <1>4, ValueNone
  <2> QED BY <2>2 DEF r
<1>5. ASSUME NEW k \in DOMAIN q, k < n, Valid(q, k, i),
             \A l \in DOMAIN q : k < l /\ l < n => ~Valid(q, l, i),
             Value(q, i, n) = q[k].val
      PROVE  Value(r, i, n) = q[k].val
  <2>1. k \in DOMAIN r /\ r[k] = q[k] /\ Valid(r, k, i)
    BY <1>1, <1>5 DEF Valid
  <2>2. \A l \in DOMAIN r : k < l /\ l < n => ~Valid(r, l, i)
    BY <1>3, <1>5
  <2> QED BY <2>1, <2>2, <1>5, <1>1, ValueLast
<1> QED BY <1>4, <1>5, ValueCases DEF r

\* ... so that a new one takes effect when it becomes valid.
LEMMA ValueAdded ==
  ASSUME NEW q \in Seq(Entry), NEW i, NEW n \in Nat, Len(q) >= 1, Len(q) < n,
         q[Len(q)].state = "valid"
  PROVE  Value(q, i, n) = IF i = q[Len(q)].id THEN q[Len(q)].val
                          ELSE Value(q, i, Len(q))
<1>1. Len(q) \in DOMAIN q /\ \A k \in DOMAIN q : k <= Len(q) /\ k \in Nat
  OBVIOUS
<1>2. CASE i = q[Len(q)].id
  <2>1. Valid(q, Len(q), i)
    BY <1>2 DEF Valid
  <2> QED BY <2>1, <1>1, <1>2, ValueLast
<1>3. CASE i # q[Len(q)].id
  <2>1. ~Valid(q, Len(q), i)
    BY <1>3 DEF Valid
  <2>2. CASE \A k \in DOMAIN q : k < Len(q) => ~Valid(q, k, i)
    <3>1. \A k \in DOMAIN q : k < n => ~Valid(q, k, i)
      BY <1>1, <2>1, <2>2
    <3> QED BY <3>1, <2>2, <1>3, ValueNone
  <2>3. ASSUME NEW k \in DOMAIN q, k < Len(q), Valid(q, k, i),
               \A l \in DOMAIN q : k < l /\ l < Len(q) => ~Valid(q, l, i),
               Value(q, i, Len(q)) = q[k].val
        PROVE  Value(q, i, n) = q[k].val
    <3>1. \A l \in DOMAIN q : k < l /\ l < n => ~Valid(q, l, i)
      BY <1>1, <2>1, <2>3
    <3> QED BY <3>1, <1>1, <2>3, ValueLast
  <2> QED BY <2>2, <2>3, <1>1, <1>3, ValueCases
<1> QED BY <1>2, <1>3

\* Two indexes with the same valid entries of an item give it the same value.
LEMMA ValueAlike ==
  ASSUME NEW q \in Seq(Entry), NEW r \in Seq(Entry), NEW i, NEW m \in Nat, NEW n \in Nat,
         \A k \in DOMAIN q : k < m /\ Valid(q, k, i)
                               => k \in DOMAIN r /\ k < n /\ Valid(r, k, i) /\ r[k].val = q[k].val,
         \A k \in DOMAIN r : k < n /\ Valid(r, k, i)
                               => k \in DOMAIN q /\ k < m /\ Valid(q, k, i)
  PROVE  Value(q, i, m) = Value(r, i, n)
<1>1. CASE \A k \in DOMAIN q : k < m => ~Valid(q, k, i)
  <2>1. \A k \in DOMAIN r : k < n => ~Valid(r, k, i)
    BY <1>1
  <2>2. Value(r, i, n) = None /\ Value(q, i, m) = None
    BY <2>1, <1>1, ValueNone
  <2> QED BY <2>2
<1>2. ASSUME NEW k \in DOMAIN q, k < m, Valid(q, k, i),
             \A l \in DOMAIN q : k < l /\ l < m => ~Valid(q, l, i),
             Value(q, i, m) = q[k].val
      PROVE  Value(r, i, n) = q[k].val
  <2>1. k \in DOMAIN r /\ k < n /\ Valid(r, k, i) /\ r[k].val = q[k].val
    BY <1>2
  <2>2. \A l \in DOMAIN r : k < l /\ l < n => ~Valid(r, l, i)
    BY <1>2
  <2> QED BY <2>1, <2>2, ValueLast
<1> QED BY <1>1, <1>2, ValueCases

\* Two indexes have the same entries before position n.
SameBefore(q, r, n) ==
  /\ \A j \in DOMAIN q : j < n => j \in DOMAIN r /\ r[j] = q[j]
  /\ \A j \in DOMAIN r : j < n => j \in DOMAIN q

\* Then every item has the same value there.
LEMMA ValueBefore ==
  ASSUME NEW q \in Seq(Entry), NEW r \in Seq(Entry), NEW i, NEW n \in Nat, SameBefore(q, r, n)
  PROVE  Value(q, i, n) = Value(r, i, n)
<1>1. \A j \in DOMAIN q : j < n /\ Valid(q, j, i)
                        => j \in DOMAIN r /\ j < n /\ Valid(r, j, i) /\ r[j].val = q[j].val
  BY DEF SameBefore, Valid
<1>2. \A j \in DOMAIN r : j < n /\ Valid(r, j, i)
                        => j \in DOMAIN q /\ j < n /\ Valid(q, j, i)
  BY DEF SameBefore, Valid
<1> QED BY <1>1, <1>2, ValueAlike

\* Only valid entries of the item count between two positions.
LEMMA ValueBound ==
  ASSUME NEW q \in Seq(Entry), NEW i, NEW m \in Nat, NEW n \in Nat, m <= n,
         \A k \in DOMAIN q : m <= k /\ k < n => ~Valid(q, k, i)
  PROVE  Value(q, i, m) = Value(q, i, n)
<1>1. \A k \in DOMAIN q : k \in Nat
  OBVIOUS
<1>2. \A k \in DOMAIN q : k < m => k < n
  BY <1>1
<1>3. \A k \in DOMAIN q : k < n /\ Valid(q, k, i) => k < m
  BY <1>1
<1> QED BY <1>2, <1>3, ValueAlike

\* An entry that a later one replaces can be deleted.
LEMMA ValueDelete ==
  ASSUME NEW q \in Seq(Entry), NEW r \in Seq(Entry), NEW i, NEW n \in Nat,
         NEW k \in DOMAIN q, NEW l \in DOMAIN q, k < l, l < n,
         Valid(q, k, q[l].id), q[l].state = "valid",
         DOMAIN r = DOMAIN q, r[k].state # "valid",
         \A j \in DOMAIN q : j # k => r[j] = q[j]
  PROVE  Value(r, i, n) = Value(q, i, n)
<1>1. \A j \in DOMAIN r : Valid(r, j, i) => j # k /\ r[j] = q[j] /\ Valid(q, j, i)
  BY DEF Valid
<1>2. \A j \in DOMAIN q : j # k /\ Valid(q, j, i) => r[j] = q[j] /\ Valid(r, j, i)
  BY DEF Valid
<1>3. CASE \A j \in DOMAIN q : j < n => ~Valid(q, j, i)
  <2>1. \A j \in DOMAIN r : j < n => ~Valid(r, j, i)
    BY <1>1, <1>3
  <2>2. Value(r, i, n) = None /\ Value(q, i, n) = None
    BY <2>1, <1>3, ValueNone
  <2> QED BY <2>2
<1>4. ASSUME NEW j \in DOMAIN q, j < n, Valid(q, j, i),
             \A h \in DOMAIN q : j < h /\ h < n => ~Valid(q, h, i),
             Value(q, i, n) = q[j].val
      PROVE  Value(r, i, n) = q[j].val
  <2>1. j # k
    BY <1>4 DEF Valid
  <2>2. r[j] = q[j] /\ Valid(r, j, i)
    BY <2>1, <1>2, <1>4
  <2>3. \A h \in DOMAIN r : j < h /\ h < n => ~Valid(r, h, i)
    BY <1>1, <1>4
  <2> QED BY <2>2, <2>3, <1>4, ValueLast
<1> QED BY <1>3, <1>4, ValueCases

\* A valid entry is the value of its item up to the next one.
LEMMA ValueHere ==
  ASSUME NEW q \in Seq(Entry), NEW k \in DOMAIN q, q[k].state = "valid", NEW i
  PROVE  Value(q, i, k + 1) = IF i = q[k].id THEN q[k].val ELSE Value(q, i, k)
<1>1. k \in Nat /\ \A j \in DOMAIN q : j \in Nat
  OBVIOUS
<1>2. CASE i = q[k].id
  <2>1. Valid(q, k, i)
    BY <1>2 DEF Valid
  <2>2. \A l \in DOMAIN q : ~(k < l /\ l < k + 1)
    BY <1>1
  <2> QED BY <2>1, <2>2, <1>1, <1>2, ValueLast
<1>3. CASE i # q[k].id
  <2>1. \A j \in DOMAIN q : k <= j /\ j < k + 1 => j = k
    BY <1>1
  <2>2. ~Valid(q, k, i)
    BY <1>3 DEF Valid
  <2>3. Value(q, i, k) = Value(q, i, k + 1)
    BY <2>1, <2>2, <1>1, ValueBound
  <2> QED BY <2>3, <1>3
<1> QED BY <1>2, <1>3

-----------------------------------------------------------------------------
(***************************************************************************)
(* The flash.                                                              *)
(***************************************************************************)

FlashOK == /\ flash \in [{0, 1} -> Sector]
           /\ \A s \in {0, 1} : Len(flash[s].idx) <= Slots

\* The constants.
LEMMA Constants == Slots \in Nat \ {0} /\ None \notin Items /\ None \notin Data
                   /\ None \notin [id : Items, val : Data]
<1>1. Cardinality(Items) \in Nat
  BY FS_CardinalityType, NvAssumption
<1> QED BY <1>1, NvAssumption

\* A sector is a flag and an index.
LEMMA SectorIs ==
  ASSUME FlashOK, NEW s \in {0, 1}
  PROVE  /\ flash[s] \in Sector
         /\ flash[s].flag \in {"idle", "torn", "ready", "valid", "invalid"}
         /\ flash[s].idx \in Seq(Entry)
         /\ Len(flash[s].idx) \in 0..Slots
         /\ DOMAIN flash[s].idx = 1..Len(flash[s].idx)
         /\ \A k \in DOMAIN flash[s].idx : k \in 1..Slots /\ flash[s].idx[k] \in Entry
<1>1. flash[s] \in Sector
  BY DEF FlashOK
<1>2. flash[s].idx \in Seq(Entry) /\ Len(flash[s].idx) <= Slots
  BY <1>1 DEF FlashOK, Sector
<1>3. flash[s].flag \in {"idle", "torn", "ready", "valid", "invalid"}
  BY <1>1 DEF Sector
<1> HIDE DEF FlashOK
<1>4. Slots \in Nat
  BY Constants
<1> QED BY <1>1, <1>2, <1>3, <1>4

\* The other sector.
LEMMA OtherIs == ASSUME NEW s \in {0, 1}
                 PROVE  Other(s) \in {0, 1} /\ Other(s) # s /\ Other(Other(s)) = s
                        /\ \A t \in {0, 1} : t = s \/ t = Other(s)
BY DEF Other

\* The sector in use.
LEMMA ChosenIs == /\ Chosen \in {0, 1, NoSector} /\ NoSector \notin {0, 1}
                  /\ Chosen # NoSector => Usable(Chosen)
                  /\ Chosen = NoSector => ~Usable(0) /\ ~Usable(1)
BY DEF Chosen, NoSector

\* The newest valid entry of an item, and what an item holds.
LEMMA NewestIs ==
  ASSUME FlashOK, NEW s \in {0, 1}, NEW i
  PROVE  /\ Newest(s, i) \in 0..Len(flash[s].idx)
         /\ Newest(s, i) = 0 => \A k \in DOMAIN flash[s].idx : ~Valid(flash[s].idx, k, i)
         /\ Newest(s, i) # 0 => /\ Valid(flash[s].idx, Newest(s, i), i)
                                /\ \A l \in DOMAIN flash[s].idx :
                                     Newest(s, i) < l => ~Valid(flash[s].idx, l, i)
         /\ Held(s, i) = IF Newest(s, i) = 0 THEN None ELSE flash[s].idx[Newest(s, i)].val
<1> DEFINE q == flash[s].idx
<1>1. /\ q \in Seq(Entry) /\ Len(q) \in 0..Slots /\ Len(q) \in Nat /\ DOMAIN q = 1..Len(q) /\ Slots \in Nat
  BY SectorIs, Constants
<1>2. ValidAt(s, i) = {k \in DOMAIN q : Valid(q, k, i)}
  BY Zenon DEF ValidAt, Valid
<1>3. ValidAt(s, i) \in SUBSET (0..Len(q)) /\ ValidAt(s, i) \subseteq DOMAIN q
  BY <1>1, <1>2
<1> HIDE DEF q
<1>4. CASE ValidAt(s, i) = {}
  <2>1. Newest(s, i) = 0 /\ \A k \in DOMAIN q : ~Valid(q, k, i)
    BY <1>2, <1>4 DEF Newest
  <2>2. Value(q, i, Slots + 1) = None
    BY <2>1, ValueNone
  <2> QED BY <2>1, <2>2, <1>1 DEF q, Held
<1>5. CASE ValidAt(s, i) # {}
  <2> DEFINE k == Max(ValidAt(s, i))
  <2>1. k \in ValidAt(s, i) /\ \A l \in ValidAt(s, i) : l <= k
    BY <1>1, <1>3, <1>5, MaxOf
  <2>2. Newest(s, i) = k
    BY <1>5 DEF Newest
  <2> HIDE DEF k
  <2>3. k \in DOMAIN q /\ Valid(q, k, i) /\ k \in 1..Len(q) /\ k < Slots + 1
    BY <2>1, <1>1, <1>2
  <2>4. \A l \in DOMAIN q : k < l => ~Valid(q, l, i)
    <3> SUFFICES ASSUME NEW l \in DOMAIN q, k < l, Valid(q, l, i) PROVE FALSE
      OBVIOUS
    <3>1. l <= k
      BY <2>1, <1>2
    <3> QED BY <3>1, <2>3, <1>1
  <2>5. Value(q, i, Slots + 1) = q[k].val
    BY <2>3, <2>4, <1>1, ValueLast
  <2>6. k # 0 /\ k \in 0..Len(q)
    BY <2>3, <1>1
  <2> QED BY <2>2, <2>3, <2>4, <2>5, <2>6 DEF q, Held
<1> QED BY <1>4, <1>5

\* What is read is what the sector in use holds.
LEMMA LookupIs ==
  ASSUME FlashOK, NEW i
  PROVE  Lookup(i) = IF Chosen = NoSector THEN None ELSE Held(Chosen, i)
<1>1. CASE Chosen = NoSector
  BY <1>1 DEF Lookup
<1>2. CASE Chosen # NoSector
  <2>1. Chosen \in {0, 1}
    BY <1>2, ChosenIs
  <2>2. Held(Chosen, i) = IF Newest(Chosen, i) = 0 THEN None
                          ELSE flash[Chosen].idx[Newest(Chosen, i)].val
    BY <2>1, NewestIs
  <2> QED BY <2>2, <1>2 DEF Lookup
<1> QED BY <1>1, <1>2

\* The duplicates are the entries that a later one replaces.
LEMMA DuplicatesIs ==
  ASSUME FlashOK, NEW s \in {0, 1}
  PROVE  LET q == flash[s].idx
         IN  /\ Duplicates(s) # {} <=> Doubled(q)
             /\ Duplicates(s) # {} =>
                  /\ Max(Duplicates(s)) \in DOMAIN q
                  /\ \E l \in DOMAIN q : /\ Max(Duplicates(s)) < l /\ q[l].state = "valid"
                                         /\ Valid(q, Max(Duplicates(s)), q[l].id)
<1> DEFINE q == flash[s].idx
<1>1. /\ q \in Seq(Entry) /\ Len(q) \in 0..Slots /\ Len(q) \in Nat /\ DOMAIN q = 1..Len(q) /\ Slots \in Nat
  BY SectorIs, Constants
<1>2. Duplicates(s) = {k \in DOMAIN q : q[k].state = "valid" /\ k < Newest(s, q[k].id)}
  BY DEF Duplicates
<1> HIDE DEF q
<1>3. ASSUME NEW k \in Duplicates(s)
      PROVE  /\ k \in DOMAIN q
             /\ \E l \in DOMAIN q : k < l /\ q[l].state = "valid" /\ Valid(q, k, q[l].id)
  <2> DEFINE l == Newest(s, q[k].id)
  <2>1. k \in DOMAIN q /\ q[k].state = "valid" /\ k < l
    BY <1>2
  <2>2. l \in 0..Len(q) /\ (l # 0 => Valid(q, l, q[k].id))
    BY NewestIs DEF q
  <2> HIDE DEF l
  <2>3. l \in DOMAIN q /\ l # 0
    BY <2>1, <2>2, <1>1
  <2>4. Valid(q, k, q[l].id) /\ q[l].state = "valid"
    BY <2>1, <2>2, <2>3 DEF Valid
  <2> QED BY <2>1, <2>3, <2>4
<1>4. ASSUME Doubled(q) PROVE Duplicates(s) # {}
  <2>1. PICK k \in DOMAIN q, l \in DOMAIN q :
               k < l /\ Valid(q, k, q[l].id) /\ q[l].state = "valid"
    BY <1>4 DEF Doubled
  <2> DEFINE n == Newest(s, q[k].id)
  <2>2. Valid(q, l, q[k].id) /\ Valid(q, k, q[k].id) /\ q[k].state = "valid"
    BY <2>1 DEF Valid
  <2>3. /\ n \in 0..Len(q)
        /\ n = 0 => \A j \in DOMAIN q : ~Valid(q, j, q[k].id)
        /\ n # 0 => \A j \in DOMAIN q : n < j => ~Valid(q, j, q[k].id)
    BY NewestIs DEF q
  <2> HIDE DEF n
  <2>4. n # 0 /\ ~(n < l)
    BY <2>2, <2>3
  <2>5. k < n
    BY <2>1, <2>3, <2>4, <1>1
  <2> QED BY <1>2, <2>2, <2>5 DEF n
<1>5. Duplicates(s) # {} => Max(Duplicates(s)) \in Duplicates(s)
  <2>1. Duplicates(s) \in SUBSET (0..Len(q))
    BY <1>1, <1>2
  <2> QED BY <2>1, <1>1, MaxOf
<1>6. Duplicates(s) # {} => Doubled(q)
  BY <1>3 DEF Doubled
<1>7. Duplicates(s) # {} =>
        /\ Max(Duplicates(s)) \in DOMAIN q
        /\ \E l \in DOMAIN q : /\ Max(Duplicates(s)) < l /\ q[l].state = "valid"
                               /\ Valid(q, Max(Duplicates(s)), q[l].id)
  BY <1>3, <1>5
<1>8. Duplicates(s) # {} <=> Doubled(q)
  BY <1>4, <1>6
<1> QED BY <1>7, <1>8 DEF q

\* A flag is written.
LEMMA SetFlagIs ==
  ASSUME FlashOK, NEW s \in {0, 1}, NEW f \in {"idle", "torn", "ready", "valid", "invalid"},
         SetFlag(s, f)
  PROVE  /\ FlashOK'
         /\ flash'[s].flag = f /\ flash'[s].idx = flash[s].idx
         /\ flash'[Other(s)] = flash[Other(s)]
<1>1. flash' = [flash EXCEPT ![s] = [flag |-> f, idx |-> flash[s].idx]]
  <2>1. flash[s] = [flag |-> flash[s].flag, idx |-> flash[s].idx]
    BY SectorIs DEF Sector
  <2>2. [flash[s] EXCEPT !.flag = f] = [flag |-> f, idx |-> flash[s].idx]
    BY <2>1
  <2> QED BY <2>2, Zenon DEF SetFlag
<1>2. [flag |-> f, idx |-> flash[s].idx] \in Sector
  BY SectorIs DEF Sector
<1>3. /\ flash' \in [{0, 1} -> Sector] /\ flash'[s] = [flag |-> f, idx |-> flash[s].idx]
      /\ \A t \in {0, 1} : t # s => flash'[t] = flash[t]
  BY <1>1, <1>2 DEF FlashOK
<1> QED BY <1>3, OtherIs DEF FlashOK

\* The state of an entry is written.
LEMMA SetStateIs ==
  ASSUME FlashOK, NEW s \in {0, 1}, NEW k \in DOMAIN flash[s].idx,
         NEW x \in {"torn", "operation", "valid", "invalid"}, SetState(s, k, x)
  PROVE  LET q == flash[s].idx  r == flash'[s].idx
         IN  /\ FlashOK'
             /\ flash'[s].flag = flash[s].flag
             /\ flash'[Other(s)] = flash[Other(s)]
             /\ Len(r) = Len(q) /\ DOMAIN r = DOMAIN q
             /\ r[k] = [id |-> q[k].id, val |-> q[k].val, state |-> x]
             /\ \A j \in DOMAIN q : j # k => r[j] = q[j]
<1> DEFINE q == flash[s].idx
           e == [id |-> q[k].id, val |-> q[k].val, state |-> x]
           r == [q EXCEPT ![k] = e]
<1>1. flash[s] = [flag |-> flash[s].flag, idx |-> q]
  BY SectorIs DEF Sector
<1>2. q[k] = [id |-> q[k].id, val |-> q[k].val, state |-> q[k].state]
      /\ q[k].id \in Items /\ q[k].val \in Data
  BY SectorIs DEF Entry
<1>3. [q[k] EXCEPT !.state = x] = e
  BY <1>2
<1>4. [flash[s] EXCEPT !.idx[k].state = x] = [flash[s] EXCEPT !.idx = [q EXCEPT ![k].state = x]]
  BY Zenon
<1>5. [q EXCEPT ![k].state = x] = r
  BY <1>3, Zenon
<1>6. [flash[s] EXCEPT !.idx = r] = [flag |-> flash[s].flag, idx |-> r]
  BY <1>1
<1>7. flash' = [flash EXCEPT ![s] = [flag |-> flash[s].flag, idx |-> r]]
  BY <1>4, <1>5, <1>6, Zenon DEF SetState
<1>8. e \in Entry
  BY <1>2 DEF Entry
<1>9. /\ r \in Seq(Entry) /\ Len(r) = Len(q) /\ DOMAIN r = DOMAIN q /\ r[k] = e
      /\ \A j \in DOMAIN q : j # k => r[j] = q[j]
  <2>1. q \in Seq(Entry)
    BY SectorIs
  <2> HIDE DEF q, e
  <2> QED BY <2>1, <1>8 DEF q
<1>10. [flag |-> flash[s].flag, idx |-> r] \in Sector
  BY SectorIs, <1>9 DEF Sector
<1>11. /\ flash' \in [{0, 1} -> Sector] /\ flash'[s] = [flag |-> flash[s].flag, idx |-> r]
       /\ \A t \in {0, 1} : t # s => flash'[t] = flash[t]
  <2> HIDE DEF r
  <2> QED BY <1>7, <1>10 DEF FlashOK
<1>12. flash'[s].flag = flash[s].flag /\ flash'[s].idx = r
  BY <1>11
<1> HIDE DEF r
<1>13. FlashOK'
  BY <1>9, <1>11, <1>12 DEF FlashOK
<1> QED BY <1>9, <1>11, <1>12, <1>13, OtherIs

\* An entry is added.
LEMMA AppendedIs ==
  ASSUME FlashOK, new \in {0, 1}, Len(flash[new].idx) < Slots,
         NEW i \in Items, NEW v \in Data, NEW x \in {"torn", "operation", "valid", "invalid"},
         Appended(i, v, x)
  PROVE  LET q == flash[new].idx  r == flash'[new].idx
         IN  /\ FlashOK'
             /\ flash'[new].flag = flash[new].flag
             /\ flash'[old] = flash[old]
             /\ r = Append(q, [id |-> i, val |-> v, state |-> x])
             /\ Len(r) = Len(q) + 1 /\ DOMAIN r = DOMAIN q \cup {Len(q) + 1}
             /\ r[Len(q) + 1] = [id |-> i, val |-> v, state |-> x]
             /\ \A j \in DOMAIN q : r[j] = q[j]
<1> DEFINE s == new
           q == flash[s].idx
           e == [id |-> i, val |-> v, state |-> x]
           r == Append(q, e)
<1> USE DEF new
<1>1. flash[s] = [flag |-> flash[s].flag, idx |-> q]
  BY SectorIs DEF Sector
<1>2. [flash[s] EXCEPT !.idx = r] = [flag |-> flash[s].flag, idx |-> r]
  <2> HIDE DEF r
  <2> QED BY <1>1
<1>3. flash' = [flash EXCEPT ![s] = [flag |-> flash[s].flag, idx |-> r]]
  BY <1>2, Zenon DEF Appended
<1>4. e \in Entry
  BY DEF Entry
<1>5. /\ r \in Seq(Entry) /\ Len(r) = Len(q) + 1 /\ DOMAIN r = DOMAIN q \cup {Len(q) + 1}
      /\ r[Len(q) + 1] = e
      /\ \A j \in DOMAIN q : r[j] = q[j]
  <2>1. q \in Seq(Entry)
    BY SectorIs
  <2> HIDE DEF q, e
  <2>2. r \in Seq(Entry) /\ Len(r) = Len(q) + 1 /\ r[Len(q) + 1] = e
    BY <2>1, <1>4
  <2>3. \A j \in DOMAIN q : r[j] = q[j]
    BY <2>1, <1>4
  <2>4. DOMAIN r = DOMAIN q \cup {Len(q) + 1}
    <3>1. DOMAIN q = 1..Len(q) /\ DOMAIN r = 1..(Len(q) + 1) /\ Len(q) \in Nat
      BY <2>1, <2>2
    <3> QED BY <3>1
  <2> QED BY <2>2, <2>3, <2>4
<1>6. [flag |-> flash[s].flag, idx |-> r] \in Sector
  BY SectorIs, <1>5 DEF Sector
<1> HIDE DEF r
<1>7. /\ flash' \in [{0, 1} -> Sector] /\ flash'[s] = [flag |-> flash[s].flag, idx |-> r]
      /\ \A t \in {0, 1} : t # s => flash'[t] = flash[t]
  BY <1>3, <1>6 DEF FlashOK
<1>8. Len(r) <= Slots
  BY <1>5, SectorIs, Constants
<1>9. FlashOK'
  BY <1>7, <1>8 DEF FlashOK
<1>10. flash'[new].flag = flash[new].flag /\ flash'[new].idx = r /\ flash'[old] = flash[old]
  BY <1>7, OtherIs DEF old
<1> QED BY <1>5, <1>9, <1>10 DEF r

\* A sector is erased.
LEMMA BlankIs ==
  ASSUME FlashOK, NEW s \in {0, 1}, flash' = [flash EXCEPT ![s] = Blank]
  PROVE  /\ FlashOK'
         /\ flash'[s].flag = "idle" /\ flash'[s].idx = <<>>
         /\ flash'[Other(s)] = flash[Other(s)]
<1>1. Blank \in Sector /\ Blank.flag = "idle" /\ Blank.idx = <<>>
  BY DEF Blank, Sector
<1>2. /\ flash' \in [{0, 1} -> Sector] /\ flash'[s] = Blank
      /\ \A t \in {0, 1} : t # s => flash'[t] = flash[t]
  BY <1>1 DEF FlashOK
<1>3. Len(Blank.idx) = 0 /\ 0 <= Slots
  BY <1>1, Constants
<1> QED BY <1>1, <1>2, <1>3, OtherIs DEF FlashOK

\* What is read from a flash, now and after a step.
Reading ==
  FlashOK =>
    /\ \A s \in {0, 1} :
         /\ flash[s].flag \in {"idle", "torn", "ready", "valid", "invalid"}
         /\ flash[s].idx \in Seq(Entry)
         /\ Len(flash[s].idx) \in 0..Slots
         /\ DOMAIN flash[s].idx = 1..Len(flash[s].idx)
         /\ Duplicates(s) # {} <=> Doubled(flash[s].idx)
    /\ \A i \in Items : Lookup(i) = IF Chosen = NoSector THEN None ELSE Held(Chosen, i)
    /\ \A i \in Items : Lookup(i) \in Data \cup {None}

\* It is so now ...
LEMMA Reads == Reading
<1> SUFFICES ASSUME FlashOK
    PROVE  /\ \A s \in {0, 1} :
                /\ flash[s].flag \in {"idle", "torn", "ready", "valid", "invalid"}
                /\ flash[s].idx \in Seq(Entry)
                /\ Len(flash[s].idx) \in 0..Slots
                /\ DOMAIN flash[s].idx = 1..Len(flash[s].idx)
                /\ Duplicates(s) # {} <=> Doubled(flash[s].idx)
           /\ \A i \in Items : Lookup(i) = IF Chosen = NoSector THEN None ELSE Held(Chosen, i)
           /\ \A i \in Items : Lookup(i) \in Data \cup {None}
  BY Zenon DEF Reading
<1>1. \A s \in {0, 1}, i \in Items : Held(s, i) \in Data \cup {None}
  <2>1. Slots + 1 \in Nat
    BY Constants
  <2> QED BY <2>1, SectorIs, ValueType DEF Held
<1>2. \A i \in Items : Lookup(i) = IF Chosen = NoSector THEN None ELSE Held(Chosen, i)
  BY LookupIs
<1>3. \A i \in Items : Lookup(i) \in Data \cup {None}
  BY <1>1, <1>2, ChosenIs
<1>4. \A s \in {0, 1} : Duplicates(s) # {} <=> Doubled(flash[s].idx)
  BY DuplicatesIs
<1> QED BY <1>2, <1>3, <1>4, SectorIs

\* ... and after a step.
LEMMA ReadsNext == Reading'
BY Reads, PTL

-----------------------------------------------------------------------------
(***************************************************************************)
(* Steps.                                                                  *)
(***************************************************************************)

TaskOK == task \in [pc : Steps, id : Items \cup {None}, val : Data \cup {None},
                    forced : BOOLEAN, switch : BOOLEAN, sect : {0, 1},
                    at : 0..Slots + 1, slot : 0..Slots + 1, del : 0..Slots]

OthersOK == /\ weak \in BOOLEAN /\ full \in BOOLEAN
            /\ promised \in [Items -> Data \cup {None}]
            /\ writes \in 0..MaxWrites /\ failures \in 0..MaxFailures

TornLasts == \A s \in {0, 1} : TornLast(flash[s].idx)

\* The parts of the type invariant.
LEMMA TypeParts == TypeOK <=> FlashOK /\ TaskOK /\ OthersOK
BY DEF TypeOK, FlashOK, TaskOK, OthersOK

\* The same after a step.
LEMMA TypePartsNext == TypeOK' <=> FlashOK' /\ TaskOK' /\ OthersOK'
BY DEF TypeOK, FlashOK, TaskOK, OthersOK

\* What the items hold after a step: what they held, or the new value of one.
Kept == \A i \in Items : Lookup(i)' = Lookup(i)
Took == /\ task.id # None
        /\ \A i \in Items : Lookup(i)' = IF i = task.id THEN task.val ELSE Lookup(i)

SameCall == task'.id = task.id /\ task'.val = task.val
Begins   == /\ task.id = None /\ Kept
            /\ task'.id \in Items /\ task'.val \in Data

\* A step of the register, or none.
Moves == /\ Kept \/ Took
         /\ SameCall \/ task'.id = None \/ Begins

\* The step takes the register from one of its states to another.
LEMMA MovesRegister ==
  ASSUME TaskOK, CallShape, Moves
  PROVE  [Register!Next]_<<[i \in Items |-> Lookup(i)],
                           IF task.id = None THEN None ELSE [id |-> task.id, val |-> task.val]>>
<1> DEFINE st == [i \in Items |-> Lookup(i)]
           nst == [i \in Items |-> Lookup(i)']
           wr == IF task.id = None THEN None ELSE [id |-> task.id, val |-> task.val]
           nwr == IF task'.id = None THEN None ELSE [id |-> task'.id, val |-> task'.val]
<1>1. Kept => nst = st
  BY DEF Kept
<1>2. Took => nst = [st EXCEPT ![task.id] = task.val]
  BY DEF Took
<1>3. SameCall => nwr = wr
  BY DEF SameCall
<1>4. task.id # None => wr \in [id : Items, val : Data] /\ wr.id = task.id /\ wr.val = task.val
                        /\ wr # None
  <2> SUFFICES ASSUME task.id # None
               PROVE  [id |-> task.id, val |-> task.val] \in [id : Items, val : Data]
    BY Constants
  <2>1. task.id \in Items \cup {None} /\ task.val \in Data \cup {None}
    BY DEF TaskOK
  <2>2. task.id \in Items /\ task.val \in Data
    BY <2>1 DEF CallShape
  <2> QED BY <2>2
<1>5. Begins => nwr \in [id : Items, val : Data]
  BY Constants DEF Begins
<1>6. CASE Begins
  <2>1. wr = None /\ nst = st /\ nwr \in [id : Items, val : Data]
    BY <1>1, <1>5, <1>6 DEF Begins
  <2> HIDE DEF wr, nwr, st, nst
  <2>2. wr = None /\ nwr \in [id : Items, val : Data] /\ nst = st
    BY <2>1
  <2> USE DEF wr, nwr, st, nst
  <2> QED BY <2>2, Zenon DEF Register!Next, Register!Begin
<1>7. CASE Kept /\ SameCall
  <2>1. nst = st /\ nwr = wr
    BY <1>1, <1>3, <1>7
  <2> QED BY <2>1, Zenon
<1>8. CASE Took /\ SameCall
  <2>1. wr # None /\ nwr = wr /\ nst = [st EXCEPT ![wr.id] = wr.val]
    BY <1>2, <1>3, <1>4, <1>8 DEF Took
  <2> QED BY <2>1, Zenon DEF Register!Next, Register!Commit, Register!Effect
<1>9. CASE Kept /\ task'.id = None
  <2>1. nst = st /\ nwr = None
    BY <1>1, <1>9
  <2>2. CASE task.id = None
    <3>1. nwr = wr
      BY <2>2, <1>9
    <3> QED BY <2>1, <3>1, Zenon
  <2>3. CASE task.id # None
    <3>1. wr # None /\ nst \in {st, [st EXCEPT ![wr.id] = wr.val]}
      BY <2>1, <2>3, <1>4
    <3> QED BY <2>1, <3>1, Zenon DEF Register!Next, Register!End, Register!Effect
  <2> QED BY <2>2, <2>3
<1>10. CASE Took /\ task'.id = None
  <2>1. wr # None /\ nst = [st EXCEPT ![wr.id] = wr.val] /\ nwr = None
    BY <1>2, <1>4, <1>10 DEF Took
  <2>2. nst \in {st, [st EXCEPT ![wr.id] = wr.val]}
    BY <2>1, Zenon
  <2> QED BY <2>1, <2>2, Zenon DEF Register!Next, Register!End, Register!Effect
<1> QED BY <1>6, <1>7, <1>8, <1>9, <1>10 DEF Moves

\* The fields of the task.
LEMMA TaskIs ==
  ASSUME TaskOK
  PROVE  /\ task.pc \in Steps /\ task.id \in Items \cup {None} /\ task.val \in Data \cup {None}
         /\ task.forced \in BOOLEAN /\ task.switch \in BOOLEAN /\ task.sect \in {0, 1}
         /\ task.at \in 0..Slots + 1 /\ task.slot \in 0..Slots + 1 /\ task.del \in 0..Slots
         /\ task = [pc |-> task.pc, id |-> task.id, val |-> task.val,
                    forced |-> task.forced, switch |-> task.switch, sect |-> task.sect,
                    at |-> task.at, slot |-> task.slot, del |-> task.del]
BY DEF TaskOK

\* The call goes on at another step.
LEMMA GotoIs ==
  ASSUME TaskOK, NEW pc \in Steps, Goto(pc)
  PROVE  /\ TaskOK' /\ task'.pc = pc
         /\ task'.id = task.id /\ task'.val = task.val /\ task'.forced = task.forced
         /\ task'.switch = task.switch /\ task'.sect = task.sect /\ task'.at = task.at
         /\ task'.slot = task.slot /\ task'.del = task.del
<1>1. task' = [pc |-> pc, id |-> task.id, val |-> task.val,
               forced |-> task.forced, switch |-> task.switch, sect |-> task.sect,
               at |-> task.at, slot |-> task.slot, del |-> task.del]
  BY TaskIs DEF Goto
<1>2. TaskOK'
  BY <1>1, TaskIs DEF TaskOK
<1> QED BY <1>1, <1>2

\* No call is under way.
LEMMA IdleIs ==
  ASSUME task' = Idle
  PROVE  /\ TaskOK' /\ task'.pc = "idle" /\ task'.id = None /\ task'.val = None
         /\ task'.forced = FALSE /\ task'.switch = FALSE
<1>1. FALSE \in BOOLEAN /\ "idle" \in Steps /\ 0 \in 0..Slots + 1 /\ 0 \in 0..Slots
  BY Constants DEF Steps
<1>2. Idle = [pc |-> "idle", id |-> None, val |-> None, forced |-> FALSE, switch |-> FALSE,
              sect |-> 0, at |-> 0, slot |-> 0, del |-> 0]
  BY DEF Idle
<1>3. TaskOK'
  BY <1>1, <1>2 DEF TaskOK
<1> QED BY <1>2, <1>3

\* What the steps of a call leave to be shown.
LEMMA Assemble ==
  ASSUME IInv, Moves, FlashOK', TaskOK', OthersOK', TornLasts', RoomForAll',
         CallShape', Copying', ~weak' => GoodBattery',
         \/ promised' = promised
         \/ \E i \in Items : promised' = [promised EXCEPT ![i] = None] /\ Kept
         \/ \E i \in Items : /\ i = task.id
                             /\ promised' = [promised EXCEPT ![i] = task.val]
                             /\ Lookup(i)' = task.val
  PROVE  IInv'
<1>1. TypeOK'
  BY TypeParts, TypePartsNext
<1>2. StoredIsFound'
  <2> SUFFICES ASSUME NEW i \in Items, promised'[i] # None
               PROVE  Lookup(i)' = promised'[i]
    BY DEF StoredIsFound
  <2>1. OthersOK /\ (promised[i] # None => Lookup(i) = promised[i])
    BY TypeParts DEF IInv, StoredIsFound
  <2>2. promised \in [Items -> Data \cup {None}]
    BY <2>1 DEF OthersOK
  <2>3. task.id # None => promised[task.id] = None
    BY DEF IInv, CallShape
  <2>4. CASE promised' = promised
    <3>1. i # task.id \/ task.id = None
      BY <2>3, <2>4
    <3>2. Lookup(i)' = Lookup(i)
      BY <3>1 DEF Moves, Kept, Took
    <3> QED BY <2>1, <2>4, <3>2
  <2>5. ASSUME NEW j \in Items, promised' = [promised EXCEPT ![j] = None], Kept
        PROVE  Lookup(i)' = promised'[i]
    <3>1. i # j /\ promised'[i] = promised[i]
      BY <2>2, <2>5
    <3> QED BY <2>1, <2>5, <3>1 DEF Kept
  <2>6. ASSUME NEW j \in Items, j = task.id, promised' = [promised EXCEPT ![j] = task.val],
               Lookup(j)' = task.val
        PROVE  Lookup(i)' = promised'[i]
    <3>1. CASE i = j
      BY <2>2, <2>6, <3>1
    <3>2. CASE i # j
      <4>1. promised'[i] = promised[i] /\ Lookup(i)' = Lookup(i)
        BY <2>2, <2>6, <3>2 DEF Moves, Kept, Took
      <4> QED BY <2>1, <4>1
    <3> QED BY <3>1, <3>2
  <2> QED BY <2>4, <2>5, <2>6
<1> QED BY <1>1, <1>2 DEF IInv, TornLasts

\* The call ends.
LEMMA Ends ==
  ASSUME IInv, Kept \/ Took, task' = Idle,
         FlashOK', OthersOK', TornLasts', RoomForAll',
         \/ promised' = promised
         \/ \E i \in Items : /\ i = task.id
                             /\ promised' = [promised EXCEPT ![i] = task.val]
                             /\ Lookup(i)' = task.val
  PROVE  IInv' /\ Moves
<1>1. /\ TaskOK' /\ task'.pc = "idle" /\ task'.id = None /\ task'.val = None
      /\ task'.forced = FALSE /\ task'.switch = FALSE
  BY IdleIs
<1>2. CallShape'
  BY <1>1 DEF CallShape, Moving, Adding
<1>3. Copying'
  BY <1>1 DEF Copying
<1>4. GoodBattery'
  BY <1>1 DEF GoodBattery, Erasing, Sorting, Copies, CopyMade, MoveAdds, Moved, Adds, Adding
<1>5. Moves
  BY <1>1 DEF Moves
<1> QED BY <1>1, <1>2, <1>3, <1>4, <1>5, Assemble

\* The flash is as it was.
LEMMA SameFlash ==
  ASSUME flash' = flash, FlashOK, TornLasts
  PROVE  /\ FlashOK' /\ TornLasts' /\ Kept
         /\ Chosen' = Chosen
         /\ \A s \in {0, 1} : \A i : Held(s, i)' = Held(s, i) /\ Newest(s, i)' = Newest(s, i)
         /\ \A s \in {0, 1} : Duplicates(s)' = Duplicates(s)
<1>1. FlashOK' /\ TornLasts'
  BY DEF FlashOK, TornLasts
<1>2. Chosen' = Chosen
  BY DEF Chosen, Usable
<1>3. \A s \in {0, 1} : \A i : Held(s, i)' = Held(s, i) /\ Newest(s, i)' = Newest(s, i)
  BY DEF Held, Newest, ValidAt
<1>4. \A s \in {0, 1} : Duplicates(s)' = Duplicates(s)
  BY DEF Duplicates, Newest, ValidAt
<1>5. Kept
  BY DEF Kept, Lookup, Chosen, Usable, Newest, ValidAt
<1> QED BY <1>1, <1>2, <1>3, <1>4, <1>5

\* What a step needs of the invariant.
LEMMA Parts ==
  ASSUME IInv
  PROVE  /\ FlashOK /\ TaskOK /\ OthersOK /\ TornLasts /\ CallShape
         /\ Copying /\ (~weak => GoodBattery) /\ StoredIsFound /\ RoomForAll
BY TypeParts DEF IInv, TornLasts

\* Steps of a call leave the rest alone.
LEMMA Others ==
  ASSUME IInv, promised' = promised, Same
  PROVE  OthersOK'
BY Parts DEF OthersOK, Same

\* Within a write nothing is said about the room.
LEMMA RoomInWrite ==
  ASSUME IInv, task.id # None, full' = full
  PROVE  RoomForAll'
BY Parts DEF RoomForAll, CallShape

\* The place of a new entry.
LEMMA PlaceIs ==
  ASSUME TaskOK, FlashOK', NEW s \in {0, 1}, task.id # None, Place(s)
  PROVE  /\ TaskOK'
         /\ SameCall /\ task'.forced = task.forced
         /\ \/ /\ task'.pc = "erase" /\ task'.switch = TRUE
               /\ task'.sect = Other(s) /\ task'.slot = 1
               /\ \/ task.forced
                  \/ Len(flash'[s].idx) = Slots
                  \/ Len(flash'[s].idx) > 0
            \/ /\ task'.pc = "append" /\ task'.switch = FALSE
               /\ task'.sect = s /\ task'.slot = Len(flash'[s].idx) + 1
               /\ task'.slot <= Slots
               /\ Len(flash'[s].idx) > 0
                    => flash'[s].idx[Len(flash'[s].idx)].state # "torn"
<1> DEFINE used == Len(flash'[s].idx)
<1>1. used \in 0..Slots /\ Slots \in Nat \ {0}
  BY ReadsNext, Constants DEF Reading
<1>2. {"erase", "append"} \subseteq Steps /\ TRUE \in BOOLEAN /\ FALSE \in BOOLEAN
  BY DEF Steps
<1>3. CASE task.forced \/ used = Slots \/ (used > 0 /\ flash'[s].idx[used].state = "torn")
  <2>1. task' = [task EXCEPT !.pc = "erase", !.switch = TRUE, !.sect = Other(s), !.slot = 1]
    BY <1>3, Zenon DEF Place, Room
  <2>2. task' = [pc |-> "erase", id |-> task.id, val |-> task.val,
                 forced |-> task.forced, switch |-> TRUE, sect |-> Other(s),
                 at |-> task.at, slot |-> 1, del |-> task.del]
    BY <2>1, TaskIs
  <2>3. TaskOK'
    BY <2>2, <1>1, <1>2, OtherIs, TaskIs DEF TaskOK
  <2> QED BY <2>2, <2>3, <1>3 DEF SameCall
<1>4. CASE ~(task.forced \/ used = Slots \/ (used > 0 /\ flash'[s].idx[used].state = "torn"))
  <2>1. task' = [task EXCEPT !.pc = "append", !.switch = FALSE, !.sect = s, !.slot = used + 1]
    BY <1>4, Zenon DEF Place, Room
  <2>2. task' = [pc |-> "append", id |-> task.id, val |-> task.val,
                 forced |-> task.forced, switch |-> FALSE, sect |-> s,
                 at |-> task.at, slot |-> used + 1, del |-> task.del]
    BY <2>1, TaskIs
  <2>3. used + 1 \in 0..Slots + 1 /\ used + 1 <= Slots
    BY <1>1, <1>4
  <2>4. TaskOK'
    BY <2>2, <2>3, <1>2, TaskIs DEF TaskOK
  <2>5. used > 0 => flash'[s].idx[used].state # "torn"
    BY <1>4
  <2> QED BY <2>2, <2>3, <2>4, <2>5 DEF SameCall
<1> QED BY <1>3, <1>4

\* A place has been chosen in the sector in use or in one that was just formatted.
LEMMA Placed ==
  ASSUME IInv, task.id # None, NEW s \in {0, 1}, Place(s),
         FlashOK', TornLasts', Kept, promised' = promised, Same,
         ~weak => \/ Chosen' = s /\ flash'[s].flag = "valid"
                  \/ /\ s = 0 /\ Chosen' = NoSector
                     /\ flash'[s].flag = "idle" /\ flash'[s].idx = <<>>
  PROVE  IInv' /\ Moves
<1>1. /\ TaskOK' /\ SameCall /\ task'.forced = task.forced
      /\ \/ /\ task'.pc = "erase" /\ task'.switch = TRUE
            /\ task'.sect = Other(s) /\ task'.slot = 1
            /\ \/ task.forced
               \/ Len(flash'[s].idx) = Slots
               \/ Len(flash'[s].idx) > 0
         \/ /\ task'.pc = "append" /\ task'.switch = FALSE
            /\ task'.sect = s /\ task'.slot = Len(flash'[s].idx) + 1
            /\ task'.slot <= Slots
            /\ Len(flash'[s].idx) > 0
                 => flash'[s].idx[Len(flash'[s].idx)].state # "torn"
  BY Parts, PlaceIs
<1>2. OthersOK' /\ RoomForAll' /\ weak' = weak /\ full' = full
  BY Others, RoomInWrite DEF Same
<1>3. Len(flash'[s].idx) \in Nat /\ Slots \in Nat \ {0}
  BY ReadsNext, Constants DEF Reading
<1>4. CallShape'
  <2>1. /\ task.val # None /\ promised[task.id] = None /\ ~full
        /\ task.forced => weak
    BY Parts DEF CallShape
  <2>2. 1 <= Len(flash'[s].idx) + 1
    BY <1>3
  <2> QED BY <1>1, <1>2, <2>1, <2>2 DEF CallShape, Moving, Adding, SameCall
<1>5. Copying'
  BY <1>1 DEF Copying
<1>6. ~weak => GoodBattery'
  <2> SUFFICES ASSUME ~weak PROVE GoodBattery'
    OBVIOUS
  <2>1. ~task.forced
    BY Parts DEF CallShape
  <2>2. CASE task'.pc = "erase"
    <3>1. Chosen' = s /\ flash'[s].flag = "valid"
      BY <1>1, <1>3, <2>1, <2>2
    <3>2. old' = s
      BY <1>1, <2>2, OtherIs DEF old
    <3> QED BY <3>1, <3>2, <1>1, <2>2
            DEF GoodBattery, Erasing, Sorting, Copies, CopyMade, MoveAdds, Moved, Adds, Adding
  <2>3. CASE task'.pc = "append"
    <3>1. new' = s /\ InPlace'
      BY <1>1, <1>3, <2>3 DEF new, InPlace
    <3>2. /\ task'.slot <= Slots
          /\ Len(flash'[s].idx) = task'.slot - 1
          /\ task'.slot > 1 => flash'[s].idx[task'.slot - 1].state # "torn"
      BY <1>1, <1>3, <2>3
    <3> QED BY <3>1, <3>2, <1>1, <2>3
            DEF GoodBattery, Erasing, Sorting, Copies, CopyMade, MoveAdds, Moved, Adds, Adding
  <2> QED BY <1>1, <2>2, <2>3
<1>7. Moves
  BY <1>1 DEF Moves
<1> QED BY <1>1, <1>2, <1>4, <1>5, <1>6, <1>7, Assemble

\* The items hold what they held if the sector in use does.
LEMMA KeptIf ==
  ASSUME FlashOK, FlashOK', Chosen' = Chosen,
         \A s \in {0, 1}, i \in Items : s = Chosen => Held(s, i)' = Held(s, i)
  PROVE  Kept
<1> SUFFICES ASSUME NEW i \in Items PROVE Lookup(i)' = Lookup(i)
  BY DEF Kept
<1>1. Lookup(i) = IF Chosen = NoSector THEN None ELSE Held(Chosen, i)
  BY Reads DEF Reading
<1>2. Lookup(i)' = IF Chosen' = NoSector' THEN None ELSE Held(Chosen, i)'
  BY ReadsNext DEF Reading
<1>3. CASE Chosen = NoSector
  BY <1>1, <1>2, <1>3 DEF NoSector
<1>4. ASSUME NEW s \in {0, 1}, s = Chosen PROVE Lookup(i)' = Lookup(i)
  <2>1. Held(s, i)' = Held(s, i) /\ Chosen' = s /\ Chosen # NoSector
    BY <1>4, ChosenIs
  <2>2. Lookup(i) = Held(s, i)
    BY <1>1, <1>4, <2>1
  <2>3. Lookup(i)' = Held(s, i)'
    BY <1>2, <2>1, Zenon DEF NoSector
  <2> QED BY <2>1, <2>2, <2>3
<1> QED BY <1>3, <1>4, ChosenIs

\* A sector that is in use after the step is read.
LEMMA ReadNext ==
  ASSUME FlashOK', NEW s \in {0, 1}, Chosen' = s, NEW i \in Items
  PROVE  Lookup(i)' = Held(s, i)'
<1>1. Chosen' # NoSector'
  BY DEF NoSector
<1>2. Lookup(i)' = IF Chosen' = NoSector' THEN None ELSE Held(Chosen, i)'
  BY ReadsNext DEF Reading
<1> QED BY <1>1, <1>2, Zenon

\* A flag is written: the indexes are as they were.
LEMMA FlagOnly ==
  ASSUME FlashOK, TornLasts, NEW s \in {0, 1},
         NEW f \in {"idle", "torn", "ready", "valid", "invalid"}, SetFlag(s, f)
  PROVE  /\ FlashOK' /\ TornLasts'
         /\ \A t \in {0, 1} : flash'[t].idx = flash[t].idx
         /\ flash'[s].flag = f
         /\ \A t \in {0, 1} : t # s => flash'[t].flag = flash[t].flag
         /\ \A t \in {0, 1} : \A i : Held(t, i)' = Held(t, i)
         /\ \A t \in {0, 1} : Doubled(flash[t].idx)' <=> Doubled(flash[t].idx)
         /\ Chosen' = Chosen => Kept
<1>1. /\ FlashOK' /\ flash'[s].flag = f
      /\ \A t \in {0, 1} : flash'[t].idx = flash[t].idx
      /\ \A t \in {0, 1} : t # s => flash'[t].flag = flash[t].flag
  BY SetFlagIs, OtherIs
<1>2. TornLasts' /\ \A t \in {0, 1} : \A i : Held(t, i)' = Held(t, i)
  BY <1>1 DEF TornLasts, Held
<1>3. \A t \in {0, 1} : Doubled(flash[t].idx)' <=> Doubled(flash[t].idx)
  BY <1>1
<1>4. Chosen' = Chosen => Kept
  BY <1>1, <1>2, KeptIf
<1> QED BY <1>1, <1>2, <1>3, <1>4

\* Room: the sector in use and its duplicates are what they were.
LEMMA RoomAsBefore ==
  ASSUME IInv, FlashOK', full' = full, Chosen' = Chosen,
         \A t \in {0, 1} : Doubled(flash[t].idx)' <=> Doubled(flash[t].idx)
  PROVE  RoomForAll'
<1> SUFFICES ASSUME full PROVE Chosen' # NoSector /\ Duplicates(Chosen)' # {}
  BY DEF RoomForAll, NoSector
<1>1. Chosen # NoSector /\ Duplicates(Chosen) # {} /\ FlashOK
  BY Parts DEF RoomForAll
<1>2. PICK s \in {0, 1} : s = Chosen
  BY <1>1, ChosenIs
<1>3. Duplicates(s) # {} => Doubled(flash[s].idx)
  BY <1>1, Reads DEF Reading
<1>4. (Duplicates(s) # {})' <=> Doubled(flash[s].idx)'
  BY ReadsNext DEF Reading
<1>5. (Duplicates(s) # {})' /\ Chosen' = s
  BY <1>1, <1>2, <1>3, <1>4
<1> QED BY <1>5, <1>1, <1>2

\* A write begins.
LEMMA WriteStep ==
  ASSUME IInv, NEW i \in Items, NEW v \in Data, Write(i, v)
  PROVE  IInv' /\ Moves
<1>1. /\ At("idle") /\ task = Idle /\ writes < MaxWrites /\ writes' = writes + 1
      /\ task' = [Idle EXCEPT !.pc = "select", !.id = i, !.val = v]
      /\ full' = FALSE /\ promised' = [promised EXCEPT ![i] = None]
      /\ flash' = flash /\ weak' = weak /\ failures' = failures
  BY Parts DEF Write, CallShape, At
<1>2. task' = [pc |-> "select", id |-> i, val |-> v, forced |-> FALSE, switch |-> FALSE,
               sect |-> 0, at |-> 0, slot |-> 0, del |-> 0]
  BY <1>1 DEF Idle
<1>3. TaskOK'
  <2>1. FALSE \in BOOLEAN /\ "select" \in Steps /\ 0 \in 0..Slots + 1 /\ 0 \in 0..Slots
    BY Constants DEF Steps
  <2> QED BY <2>1, <1>2 DEF TaskOK
<1>4. OthersOK'
  <2>1. FALSE \in BOOLEAN /\ None \in Data \cup {None} /\ OthersOK
    BY Parts
  <2>2. promised' \in [Items -> Data \cup {None}]
    BY <1>1, <2>1 DEF OthersOK
  <2>3. writes' \in 0..MaxWrites
    BY <1>1, <2>1, NvAssumption DEF OthersOK
  <2> QED BY <1>1, <2>1, <2>2, <2>3 DEF OthersOK
<1>5. FlashOK' /\ TornLasts' /\ Kept
  BY <1>1, Parts, SameFlash
<1>6. i # None /\ v # None /\ promised'[i] = None
  BY <1>1, Constants, Parts DEF OthersOK
<1>7. CallShape'
  <2>1. /\ task'.pc = "select" /\ task'.id = i /\ task'.val = v /\ task'.forced = FALSE
    BY <1>2
  <2>2. promised'[task'.id] = None /\ full' = FALSE
    BY <1>1, <1>6, <2>1
  <2> QED BY <2>1, <2>2, <1>6 DEF CallShape, Moving, Adding
<1>8. Copying' /\ GoodBattery'
  BY <1>2 DEF Copying, GoodBattery, Erasing, Sorting, Copies, CopyMade, MoveAdds, Moved, Adds,
              Adding
<1>9. RoomForAll'
  BY <1>1 DEF RoomForAll
<1>10. Moves
  <2>1. task.id = None
    BY <1>1 DEF Idle
  <2> QED BY <1>2, <1>5, <2>1 DEF Moves, Begins
<1> QED BY <1>1, <1>3, <1>4, <1>5, <1>7, <1>8, <1>9, <1>10, Assemble

\* A value is read.
LEMMA ReadStep ==
  ASSUME IInv, Read
  PROVE  IInv' /\ Moves
<1>1. /\ task = Idle /\ Goto("select") /\ flash' = flash /\ promised' = promised /\ Same
  BY Parts DEF Read, CallShape, At
<1>2. "select" \in Steps
  BY DEF Steps
<1>3. /\ TaskOK' /\ task'.pc = "select" /\ task'.id = task.id /\ task'.val = task.val
      /\ task'.forced = task.forced /\ task'.switch = task.switch
  BY <1>1, <1>2, Parts, GotoIs
<1>4. OthersOK' /\ FlashOK' /\ TornLasts' /\ Kept /\ Chosen' = Chosen
  BY <1>1, Parts, Others, SameFlash
<1>5. RoomForAll'
  BY <1>1, <1>4, RoomAsBefore DEF Same
<1>6. task.id = None /\ task.val = None /\ task.forced = FALSE /\ task.switch = FALSE
  BY <1>1 DEF Idle
<1>7. CallShape'
  BY <1>3, <1>6 DEF CallShape, Moving, Adding
<1>8. Copying' /\ GoodBattery'
  BY <1>3, <1>6
     DEF Copying, GoodBattery, Erasing, Sorting, Copies, CopyMade, MoveAdds, Moved, Adds, Adding
<1>9. Moves
  BY <1>3, <1>4 DEF Moves, SameCall
<1> QED BY <1>1, <1>3, <1>4, <1>5, <1>7, <1>8, <1>9, Assemble

\* The sector is looked for.
LEMMA SelectStep ==
  ASSUME IInv, Select
  PROVE  IInv' /\ Moves
<1>1. task.pc = "select" /\ promised' = promised /\ Same /\ weak' = weak /\ full' = full
  BY DEF Select, At, Same
<1>2. OthersOK' /\ FlashOK /\ TaskOK /\ TornLasts /\ CallShape
  BY <1>1, Parts, Others
<1>3. CASE Chosen = NoSector
  <2>1. flash' = flash /\ IF task.id = None THEN task' = Idle ELSE Goto("format")
    BY <1>3, Zenon DEF Select
  <2>2. FlashOK' /\ TornLasts' /\ Kept /\ Chosen' = Chosen
    BY <2>1, <1>2, SameFlash
  <2>3. RoomForAll'
    BY <2>1, <2>2, <1>1, RoomAsBefore
  <2>4. CASE task.id = None
    BY <2>1, <2>2, <2>3, <2>4, <1>1, <1>2, Ends
  <2>5. CASE task.id # None
    <3>1. "format" \in Steps
      BY DEF Steps
    <3>2. /\ TaskOK' /\ task'.pc = "format" /\ task'.id = task.id /\ task'.val = task.val
          /\ task'.forced = task.forced /\ task'.switch = task.switch
      BY <2>1, <2>5, <3>1, <1>2, GotoIs
    <3>3. CallShape'
      <4>1. Chosen' = NoSector'
        BY <1>3, <2>2 DEF NoSector
      <4>2. /\ task.val # None /\ promised[task.id] = None /\ ~full /\ (task.forced => weak)
        BY <1>2, <2>5 DEF CallShape
      <4> QED BY <4>1, <4>2, <3>2, <1>1, <2>5 DEF CallShape, Moving, Adding
    <3>4. Copying' /\ GoodBattery'
      BY <3>2
         DEF Copying, GoodBattery, Erasing, Sorting, Copies, CopyMade, MoveAdds, Moved, Adds,
             Adding
    <3>5. Moves
      BY <3>2, <2>2 DEF Moves, SameCall
    <3> QED BY <3>2, <3>3, <3>4, <3>5, <2>2, <2>3, <1>1, <1>2, Assemble
  <2> QED BY <2>4, <2>5
<1>4. ASSUME NEW s \in {0, 1}, s = Chosen, flash[s].flag = "valid" \/ weak,
             flash' = flash, Place(Chosen)
      PROVE  IInv' /\ Moves
  <2>1. FlashOK' /\ TornLasts' /\ Kept /\ Chosen' = Chosen
    BY <1>4, <1>2, SameFlash
  <2>2. CASE task.id = None
    <3>1. task' = Idle
      BY <1>4, <2>2, Zenon DEF Place
    <3>2. RoomForAll'
      BY <2>1, <1>1, <1>4, RoomAsBefore
    <3> QED BY <3>1, <3>2, <2>1, <1>1, <1>2, Ends
  <2>3. CASE task.id # None
    <3>1. Place(s)
      BY <1>4
    <3>2. ~weak => Chosen' = s /\ flash'[s].flag = "valid"
      BY <1>4, <2>1
    <3> QED BY <3>1, <3>2, <2>1, <2>3, <1>1, Placed
  <2> QED BY <2>2, <2>3
<1>5. ASSUME NEW s \in {0, 1}, s = Chosen, flash[s].flag # "valid", ~weak
      PROVE  IInv' /\ Moves
  <2>0. Chosen # NoSector /\ flash[Chosen].flag # "valid"
    BY <1>5, ChosenIs
  <2>1. /\ SetFlag(Other(s), "invalid")
        /\ task' = [task EXCEPT !.pc = "adopt", !.sect = s]
    BY <1>5, <2>0, Zenon DEF Select
  <2>2. task' = [pc |-> "adopt", id |-> task.id, val |-> task.val, forced |-> task.forced,
                 switch |-> task.switch, sect |-> s, at |-> task.at, slot |-> task.slot,
                 del |-> task.del]
    BY <2>1, <1>2, TaskIs
  <2>3. TaskOK'
    <3>1. "adopt" \in Steps
      BY DEF Steps
    <3> QED BY <3>1, <2>2, <1>2, TaskIs DEF TaskOK
  <2>4. Usable(s) /\ flash[s].flag = "ready"
    <3>1. Usable(s)
      BY <1>5, ChosenIs
    <3> QED BY <3>1, <1>5 DEF Usable
  <2>5. /\ FlashOK' /\ TornLasts' /\ (Chosen' = Chosen => Kept)
        /\ flash'[Other(s)].flag = "invalid" /\ flash'[s].flag = flash[s].flag
        /\ \A t \in {0, 1} : Doubled(flash[t].idx)' <=> Doubled(flash[t].idx)
    BY <2>1, <1>2, OtherIs, FlagOnly
  <2>6. Chosen' = s
    <3>1. CASE s = 0
      BY <3>1, <2>4, <2>5 DEF Chosen, Usable
    <3>2. CASE s = 1
      BY <3>2, <2>4, <2>5 DEF Chosen, Usable, Other
    <3> QED BY <3>1, <3>2
  <2>7. RoomForAll'
    BY <2>5, <2>6, <1>1, <1>5, RoomAsBefore
  <2>8. CallShape'
    <3>1. /\ task'.pc = "adopt" /\ task'.id = task.id /\ task'.val = task.val
          /\ task'.forced = task.forced /\ new' = s
      BY <2>2 DEF new
    <3>2. flash'[s].flag = "ready" /\ Chosen' = s
      BY <2>4, <2>5, <2>6
    <3>3. /\ task.id = None <=> task.val = None
          /\ task.id = None => ~task.forced
          /\ task.id # None => promised[task.id] = None /\ ~full
          /\ task.forced => weak
      BY <1>1, <1>2 DEF CallShape
    <3> QED BY <3>1, <3>2, <3>3, <1>1 DEF CallShape, Moving, Adding
  <2>9. Copying' /\ GoodBattery'
    <3>1. task'.pc = "adopt"
      BY <2>2
    <3> QED BY <3>1
       DEF Copying, GoodBattery, Erasing, Sorting, Copies, CopyMade, MoveAdds, Moved, Adds,
           Adding
  <2>10. Moves
    BY <2>2, <2>5, <2>6, <1>5 DEF Moves, SameCall
  <2> QED BY <2>3, <2>5, <2>7, <2>8, <2>9, <2>10, <1>1, <1>2, Assemble
<1>6. ASSUME NEW s \in {0, 1}, s = Chosen PROVE IInv' /\ Moves
  <2>0. Chosen # NoSector
    BY <1>6, ChosenIs
  <2>1. CASE flash[s].flag = "valid"
    <3>1. flash' = flash /\ Place(Chosen)
      BY <1>6, <2>0, <2>1, Zenon DEF Select
    <3> QED BY <3>1, <2>1, <1>4, <1>6
  <2>2. CASE flash[s].flag # "valid" /\ weak
    <3>1. flash' = flash /\ Place(Chosen)
      BY <1>6, <2>0, <2>2, Zenon DEF Select
    <3> QED BY <3>1, <2>2, <1>4, <1>6
  <2>3. CASE flash[s].flag # "valid" /\ ~weak
    BY <2>3, <1>5, <1>6
  <2> QED BY <2>1, <2>2, <2>3
<1> QED BY <1>3, <1>6, ChosenIs

\* The sector is adopted.
LEMMA AdoptStep ==
  ASSUME IInv, Adopt
  PROVE  IInv' /\ Moves
<1> DEFINE s == task.sect
<1>1. /\ task.pc = "adopt" /\ promised' = promised /\ Same /\ weak' = weak /\ full' = full
      /\ Place(s)
      /\ IF weak THEN flash' = flash ELSE SetFlag(s, "valid")
  BY Zenon DEF Adopt, At, Same, Written
<1>2. OthersOK' /\ FlashOK /\ TaskOK /\ TornLasts /\ CallShape /\ s \in {0, 1}
  BY <1>1, Parts, Others, TaskIs
<1>3. Chosen = s /\ flash[s].flag = "ready"
  BY <1>1, <1>2 DEF CallShape, new
<1> HIDE DEF s
<1>4. /\ FlashOK' /\ TornLasts' /\ Kept /\ Chosen' = s
      /\ \A t \in {0, 1} : Doubled(flash[t].idx)' <=> Doubled(flash[t].idx)
      /\ ~weak => flash'[s].flag = "valid"
  <2>1. CASE weak
    <3>1. flash' = flash
      BY <1>1, <2>1
    <3>2. FlashOK' /\ TornLasts' /\ Kept /\ Chosen' = Chosen
      BY <3>1, <1>2, SameFlash
    <3> QED BY <3>1, <3>2, <2>1, <1>3
  <2>2. CASE ~weak
    <3>1. SetFlag(s, "valid")
      BY <1>1, <2>2
    <3>2. /\ FlashOK' /\ TornLasts' /\ (Chosen' = Chosen => Kept)
          /\ flash'[s].flag = "valid"
          /\ \A t \in {0, 1} : t # s => flash'[t].flag = flash[t].flag
          /\ \A t \in {0, 1} : Doubled(flash[t].idx)' <=> Doubled(flash[t].idx)
      BY <3>1, <1>2, FlagOnly
    <3>3. Chosen' = s
      BY <3>2, <1>2, <1>3 DEF Chosen, Usable, NoSector
    <3> QED BY <3>2, <3>3, <1>3
  <2> QED BY <2>1, <2>2
<1>5. CASE task.id = None
  <2>1. task' = Idle
    BY <1>1, <1>5, Zenon DEF Place
  <2>2. RoomForAll'
    BY <1>1, <1>3, <1>4, RoomAsBefore
  <2> QED BY <2>1, <2>2, <1>1, <1>2, <1>4, Ends
<1>6. CASE task.id # None
  BY <1>1, <1>2, <1>4, <1>6, Placed
<1> QED BY <1>5, <1>6

\* Sector 0 is formatted.
LEMMA FormatStep ==
  ASSUME IInv, Format
  PROVE  IInv' /\ Moves
<1>1. /\ task.pc = "format" /\ promised' = promised /\ Same /\ weak' = weak
      /\ Place(0)
      /\ IF weak THEN flash' = flash ELSE flash' = [flash EXCEPT ![0] = Blank]
  BY Zenon DEF Format, At, Same, Written
<1>2. FlashOK /\ TornLasts /\ CallShape /\ Chosen = NoSector /\ task.id # None
  BY <1>1, Parts DEF CallShape
<1>3. CASE weak
  BY <1>1, <1>2, <1>3, SameFlash, Placed
<1>4. CASE ~weak
  <2>1. FlashOK' /\ flash'[0].flag = "idle" /\ flash'[0].idx = <<>> /\ flash'[1] = flash[1]
    BY <1>1, <1>2, <1>4, BlankIs DEF Other
  <2>2. TornLasts'
    BY <2>1, <1>2 DEF TornLasts, TornLast
  <2>3. ~Usable(0) /\ ~Usable(1)
    BY <1>2, ChosenIs
  <2>4. Chosen' = NoSector
    BY <2>1, <2>3 DEF Chosen, Usable, NoSector
  <2>5. Kept
    BY <2>1, <2>4, <1>2, ChosenIs, KeptIf
  <2> QED BY <2>1, <2>2, <2>4, <2>5, <1>1, <1>2, Placed
<1> QED BY <1>3, <1>4

\* The battery gets low within a write.
LEMMA BrokenOffStep ==
  ASSUME IInv, BrokenOff
  PROVE  IInv' /\ Moves
<1>1. /\ task.pc \in {"copied", "validate"} /\ task' = Idle /\ weak' = TRUE
      /\ failures < MaxFailures /\ failures' = failures + 1
      /\ flash' = flash /\ full' = full /\ promised' = promised /\ writes' = writes
  BY DEF BrokenOff
<1>2. FlashOK /\ TornLasts /\ OthersOK /\ task.id # None
  BY <1>1, Parts DEF CallShape
<1>3. OthersOK'
  BY <1>1, <1>2, NvAssumption DEF OthersOK
<1>4. FlashOK' /\ TornLasts' /\ Kept /\ RoomForAll'
  BY <1>1, <1>2, SameFlash, RoomInWrite
<1> QED BY <1>1, <1>3, <1>4, Ends

\* The battery gets low between two steps.
LEMMA BatteryLowStep ==
  ASSUME IInv, BatteryLow
  PROVE  IInv' /\ Moves
<1>1. /\ weak' = TRUE /\ failures < MaxFailures /\ failures' = failures + 1
      /\ flash' = flash /\ task' = task /\ full' = full /\ promised' = promised
      /\ writes' = writes
  BY DEF BatteryLow, Fails
<1>2. FlashOK /\ TornLasts /\ OthersOK /\ CallShape /\ Copying /\ TaskOK
  BY Parts
<1>3. OthersOK'
  BY <1>1, <1>2, NvAssumption DEF OthersOK
<1>4. FlashOK' /\ TornLasts' /\ Kept /\ Chosen' = Chosen
  BY <1>1, <1>2, SameFlash
<1>5. RoomForAll'
  BY <1>1, <1>4, RoomAsBefore
<1>6. CallShape'
  BY <1>1, <1>2, <1>4 DEF CallShape, NoSector, new
<1>7. Copying'
  <2>1. /\ \A n : Filling(n)' = Filling(n)
        /\ Origin' = Origin
    BY <1>1, <1>4 DEF Filling, Origin, new, old, Doubled, Valid
  <2> QED BY <2>1, <1>1, <1>2 DEF Copying
<1>8. Moves /\ TaskOK'
  BY <1>1, <1>2, <1>4 DEF Moves, SameCall, TaskOK
<1> QED BY <1>1, <1>3, <1>4, <1>5, <1>6, <1>7, <1>8, Assemble

\* ... and recovers between two calls.
LEMMA BatteryRecoversStep ==
  ASSUME IInv, BatteryRecovers
  PROVE  IInv' /\ Moves
<1>1. /\ weak' = FALSE /\ task.pc = "idle" /\ failures' = failures
      /\ flash' = flash /\ task' = task /\ full' = full /\ promised' = promised
      /\ writes' = writes
  BY DEF BatteryRecovers, At
<1>2. FlashOK /\ TornLasts /\ OthersOK /\ task = Idle
  BY <1>1, Parts DEF CallShape
<1>3. OthersOK'
  BY <1>1, <1>2 DEF OthersOK
<1>4. FlashOK' /\ TornLasts' /\ Kept /\ Chosen' = Chosen
  BY <1>1, <1>2, SameFlash
<1>5. RoomForAll'
  BY <1>1, <1>4, RoomAsBefore
<1>6. task' = Idle
  BY <1>1, <1>2
<1> QED BY <1>1, <1>3, <1>4, <1>5, <1>6, Ends

\* An entry is added to the new sector: it does not count yet.
LEMMA EntryAdded ==
  ASSUME FlashOK, TaskOK, TornLasts, Fits, Len(flash[new].idx) < Slots,
         NEW i \in Items, NEW v \in Data, NEW x \in {"torn", "operation"}, Appended(i, v, x)
  PROVE  LET q == flash[new].idx  r == flash'[new].idx
         IN  /\ FlashOK' /\ TornLasts' /\ Kept /\ Chosen' = Chosen
             /\ flash'[old] = flash[old]
             /\ \A s \in {0, 1} : flash'[s].flag = flash[s].flag
             /\ \A s \in {0, 1}, j \in Items : Held(s, j)' = Held(s, j)
             /\ \A j \in Items : Value(r, j, Slots + 1) = Value(q, j, Slots + 1)
             /\ Len(r) = Len(q) + 1 /\ Len(q) = task.slot - 1 /\ ~weak
             /\ DOMAIN r = DOMAIN q \cup {task.slot}
             /\ r[task.slot] = [id |-> i, val |-> v, state |-> x]
             /\ \A j \in DOMAIN q : r[j] = q[j]
<1> DEFINE q == flash[new].idx
           r == flash'[new].idx
           e == [id |-> i, val |-> v, state |-> x]
<1>1. new \in {0, 1} /\ task.slot \in Nat /\ Slots \in Nat
  BY TaskIs, Constants DEF new
<1>2. /\ FlashOK' /\ flash'[new].flag = flash[new].flag /\ flash'[old] = flash[old]
      /\ r = Append(q, e)
      /\ Len(r) = Len(q) + 1 /\ DOMAIN r = DOMAIN q \cup {Len(q) + 1}
      /\ r[Len(q) + 1] = e
      /\ \A j \in DOMAIN q : r[j] = q[j]
  BY <1>1, AppendedIs
<1>3. ~weak /\ Len(q) = task.slot - 1
      /\ (task.slot > 1 => q[task.slot - 1].state # "torn")
  BY Zenon DEF Fits, new
<1>4. q \in Seq(Entry) /\ Len(q) + 1 = task.slot /\ DOMAIN q = 1..Len(q) /\ Len(q) \in Nat
  BY <1>1, <1>3, SectorIs
<1>5. \A s \in {0, 1} : s = new \/ s = old
  BY <1>1, OtherIs DEF old, new
<1>6. \A s \in {0, 1} : flash'[s].flag = flash[s].flag
  BY <1>2, <1>5
<1>7. Chosen' = Chosen
  BY <1>6 DEF Chosen, Usable, NoSector
<1>8. e \in Entry /\ e.state # "valid"
  BY DEF Entry
<1>9. \A j \in Items : Value(r, j, Slots + 1) = Value(q, j, Slots + 1)
  <2>1. Slots + 1 \in Nat
    BY <1>1
  <2> HIDE DEF q, e, r
  <2> QED BY <2>1, <1>2, <1>4, <1>8, ValueAppend
<1>10. \A s \in {0, 1}, j \in Items : Held(s, j)' = Held(s, j)
  BY <1>2, <1>5, <1>9 DEF Held
<1>11. \A j \in DOMAIN q : q[j].state # "torn"
  <2> SUFFICES ASSUME NEW j \in DOMAIN q, q[j].state = "torn" PROVE FALSE
    OBVIOUS
  <2>1. j = Len(q)
    BY <1>1 DEF TornLasts, TornLast
  <2> QED BY <2>1, <1>3, <1>4
<1>12. TornLast(r)
  BY <1>2, <1>11 DEF TornLast
<1>13. TornLasts'
  BY <1>2, <1>5, <1>12 DEF TornLasts
<1>14. Kept
  BY <1>2, <1>7, <1>10, KeptIf
<1> QED BY <1>2, <1>3, <1>4, <1>6, <1>7, <1>9, <1>10, <1>13, <1>14

\* The last entry becomes valid.
LEMMA ValueMarked ==
  ASSUME NEW q \in Seq(Entry), NEW r \in Seq(Entry), NEW i, NEW n \in Nat,
         Len(q) >= 1, Len(q) < n, Len(r) = Len(q),
         q[Len(q)].state # "valid", r[Len(q)].state = "valid",
         \A j \in DOMAIN q : j # Len(q) => r[j] = q[j]
  PROVE  Value(r, i, n) = IF i = r[Len(q)].id THEN r[Len(q)].val ELSE Value(q, i, n)
<1> DEFINE k == Len(q)
<1>1. k \in Nat /\ DOMAIN q = 1..k /\ DOMAIN r = 1..k
  OBVIOUS
<1>2. Value(r, i, n) = IF i = r[k].id THEN r[k].val ELSE Value(r, i, k)
  BY ValueAdded
<1>3. Value(r, i, k) = Value(q, i, k)
  <2>1. \A j \in DOMAIN q : j < k => j \in DOMAIN r /\ r[j] = q[j]
    BY <1>1
  <2>2. \A j \in DOMAIN r : j < k => j \in DOMAIN q /\ r[j] = q[j]
    BY <1>1
  <2>3. k \in Nat /\ SameBefore(q, r, k)
    BY <1>1, <2>1, <2>2 DEF SameBefore
  <2> HIDE DEF k
  <2> QED BY <2>3, ValueBefore
<1>4. Value(q, i, k) = Value(q, i, n)
  <2>1. \A j \in DOMAIN q : k <= j /\ j < n => j = k
    BY <1>1
  <2>2. \A j \in DOMAIN q : k <= j /\ j < n => ~Valid(q, j, i)
    BY <2>1 DEF Valid
  <2>3. k <= n /\ k \in Nat
    BY <1>1
  <2> HIDE DEF k
  <2> QED BY <2>2, <2>3, ValueBound
<1> QED BY <1>2, <1>3, <1>4

\* The last entry of the sector that is written becomes valid.
LEMMA Marked ==
  ASSUME FlashOK, TaskOK, TornLasts, task.slot >= 1, Len(flash[new].idx) = task.slot,
         flash[new].idx[task.slot].state = "operation", SetState(new, task.slot, "valid")
  PROVE  LET q == flash[new].idx  r == flash'[new].idx  k == task.slot
         IN  /\ FlashOK' /\ TornLasts' /\ Chosen' = Chosen
             /\ flash'[old] = flash[old]
             /\ \A s \in {0, 1} : flash'[s].flag = flash[s].flag
             /\ Len(r) = k /\ DOMAIN r = DOMAIN q
             /\ r[k] = [id |-> q[k].id, val |-> q[k].val, state |-> "valid"]
             /\ \A j \in DOMAIN q : j # k => r[j] = q[j]
             /\ \A j \in DOMAIN q : r[j].id = q[j].id
             /\ \A i \in Items : Value(r, i, Slots + 1)
                                   = IF i = q[k].id THEN q[k].val ELSE Value(q, i, Slots + 1)
<1> DEFINE q == flash[new].idx
           r == flash'[new].idx
           k == task.slot
<1>1. new \in {0, 1} /\ old \in {0, 1} /\ new # old /\ Slots \in Nat
      /\ \A s \in {0, 1} : s = new \/ s = old
  BY TaskIs, OtherIs, Constants DEF new, old
<1>2. q \in Seq(Entry) /\ DOMAIN q = 1..k /\ k \in 1..Slots /\ k \in Nat /\ k < Slots + 1
  BY <1>1, SectorIs
<1>3. k \in DOMAIN flash[new].idx /\ "valid" \in {"torn", "operation", "valid", "invalid"}
  BY <1>2
<1>4. /\ FlashOK' /\ flash'[new].flag = flash[new].flag /\ flash'[old] = flash[old]
      /\ Len(r) = Len(q) /\ DOMAIN r = DOMAIN q
      /\ r[k] = [id |-> q[k].id, val |-> q[k].val, state |-> "valid"]
      /\ \A j \in DOMAIN q : j # k => r[j] = q[j]
  <2>1. new = task.sect /\ old = Other(new)
    BY DEF new, old
  <2>2. /\ FlashOK' /\ flash'[new].flag = flash[new].flag /\ flash'[Other(new)] = flash[Other(new)]
        /\ Len(r) = Len(q) /\ DOMAIN r = DOMAIN q
        /\ r[k] = [id |-> q[k].id, val |-> q[k].val, state |-> "valid"]
        /\ \A j \in DOMAIN q : j # k => r[j] = q[j]
    BY <1>1, <1>3, SetStateIs, Zenon
  <2> QED BY <2>1, <2>2
<1>5. \A s \in {0, 1} : flash'[s].flag = flash[s].flag
  BY <1>1, <1>4
<1>6. Chosen' = Chosen
  BY <1>5 DEF Chosen, Usable, NoSector
<1>7. \A j \in DOMAIN q : r[j].id = q[j].id
  BY <1>4
<1>8. TornLast(r)
  <2> SUFFICES ASSUME NEW j \in DOMAIN r, r[j].state = "torn" PROVE j = Len(r)
    BY DEF TornLast
  <2>1. j # k /\ q[j].state = "torn"
    BY <1>4
  <2> QED BY <2>1, <1>1, <1>4 DEF TornLasts, TornLast
<1>9. TornLasts'
  BY <1>1, <1>4, <1>8 DEF TornLasts
<1>10. r \in Seq(Entry)
  BY <1>1, <1>4, ReadsNext DEF Reading
<1>11. \A i \in Items : Value(r, i, Slots + 1)
                          = IF i = q[k].id THEN q[k].val ELSE Value(q, i, Slots + 1)
  <2>1. q[k].state # "valid" /\ r[k].state = "valid" /\ r[k].id = q[k].id /\ r[k].val = q[k].val
    BY <1>4
  <2>2. Slots + 1 \in Nat /\ Len(q) = k /\ Len(q) >= 1 /\ Len(q) < Slots + 1
    BY <1>1, <1>2
  <2> HIDE DEF q, r, k
  <2>3. \A j \in DOMAIN q : j # Len(q) => r[j] = q[j]
    BY <1>4, <2>2
  <2>4. q[Len(q)].state # "valid" /\ r[Len(q)].state = "valid" /\ Len(r) = Len(q)
    BY <1>4, <2>1, <2>2
  <2>5. q \in Seq(Entry) /\ Slots + 1 \in Nat
    BY <1>2, <2>2
  <2>6. \A i \in Items : Value(r, i, Slots + 1)
                           = IF i = r[Len(q)].id THEN r[Len(q)].val ELSE Value(q, i, Slots + 1)
    BY <2>2, <2>3, <2>4, <2>5, <1>10, ValueMarked
  <2> QED BY <2>1, <2>2, <2>6
<1> QED BY <1>2, <1>4, <1>5, <1>6, <1>7, <1>9, <1>11

\* The sector in use, from the flags.
LEMMA ChosenNext ==
  ASSUME NEW s \in {0, 1}, flash'[s].flag \in {"ready", "valid"},
         s = 1 => flash'[0].flag \notin {"ready", "valid"}
  PROVE  Chosen' = s
BY DEF Chosen, Usable

\* The flags, from the sector in use.
LEMMA ChosenNow ==
  ASSUME NEW s \in {0, 1}, Chosen = s
  PROVE  /\ flash[s].flag \in {"ready", "valid"}
         /\ s = 1 => flash[0].flag \notin {"ready", "valid"}
BY DEF Chosen, Usable, NoSector

\* The two sectors of a task.
LEMMA SectorsIs ==
  ASSUME TaskOK
  PROVE  /\ new \in {0, 1} /\ old \in {0, 1} /\ new # old /\ old = Other(new) /\ new = Other(old)
         /\ new = task.sect /\ old = Other(task.sect) /\ new = Other(Other(task.sect))
         /\ \A s \in {0, 1} : s = new \/ s = old
BY TaskIs, OtherIs DEF new, old

\* The other sector is erased.
LEMMA EraseStep ==
  ASSUME IInv, Erase
  PROVE  IInv' /\ Moves
<1>1. /\ task.pc = "erase" /\ promised' = promised /\ Same /\ weak' = weak /\ full' = full
      /\ Goto("dedupe")
      /\ IF weak THEN flash' = flash ELSE flash' = [flash EXCEPT ![task.sect] = Blank]
  BY Zenon DEF Erase, At, Same, Written
<1>2. FlashOK /\ TaskOK /\ TornLasts /\ CallShape /\ OthersOK'
  BY <1>1, Parts, Others
<1>3. /\ task.id # None /\ task.val # None /\ promised[task.id] = None /\ ~full
      /\ (task.forced => weak) /\ task.switch /\ task.slot = 1
  BY <1>1, <1>2 DEF CallShape, Moving
<1>4. "dedupe" \in Steps
  BY DEF Steps
<1>5. /\ TaskOK' /\ task'.pc = "dedupe"
      /\ task'.id = task.id /\ task'.val = task.val /\ task'.forced = task.forced
      /\ task'.switch = task.switch /\ task'.sect = task.sect /\ task'.slot = task.slot
  BY <1>1, <1>2, <1>4, GotoIs
<1>6. CallShape'
  BY <1>1, <1>3, <1>5 DEF CallShape, Moving, Adding
<1>7. Copying' /\ RoomForAll'
  BY <1>1, <1>3, <1>5, RoomInWrite DEF Copying
<1>8. CASE weak
  <2>1. FlashOK' /\ TornLasts' /\ Kept
    BY <1>1, <1>2, <1>8, SameFlash
  <2>2. Moves
    BY <2>1, <1>5 DEF Moves, SameCall
  <2> QED BY <2>1, <2>2, <1>1, <1>2, <1>5, <1>6, <1>7, <1>8, Assemble
<1>9. CASE ~weak
  <2>1. Chosen = old /\ flash[old].flag = "valid"
    BY <1>1, <1>9, Parts DEF GoodBattery, Erasing
  <2>2. /\ FlashOK' /\ flash'[new].flag = "idle" /\ flash'[new].idx = <<>>
        /\ flash'[old] = flash[old]
    BY <1>1, <1>2, <1>9, SectorsIs, BlankIs
  <2>3. Chosen' = old
    BY <2>1, <2>2, <1>2, SectorsIs, ChosenNext
  <2>4. TornLasts'
    BY <2>2, <1>2, SectorsIs DEF TornLasts, TornLast
  <2>5. Kept
    BY <2>1, <2>2, <2>3, <1>2, SectorsIs, KeptIf DEF Held
  <2>6. Moves
    BY <2>5, <1>5 DEF Moves, SameCall
  <2>7. old' = old /\ new' = new
    BY <1>5 DEF old, new
  <2>8. Filling(0)'
    BY <2>1, <2>2, <2>3, <2>7 DEF Filling
  <2>9. GoodBattery'
    BY <2>8, <1>5, <1>3
       DEF GoodBattery, Erasing, Sorting, Copies, CopyMade, MoveAdds, Moved, Adds, Adding
  <2> QED BY <2>2, <2>4, <2>6, <2>9, <1>1, <1>2, <1>5, <1>6, <1>7, Assemble
<1> QED BY <1>8, <1>9

\* A duplicate is deleted, or copying begins.
LEMMA DedupeStep ==
  ASSUME IInv, Dedupe
  PROVE  IInv' /\ Moves
<1>1. /\ task.pc = "dedupe" /\ promised' = promised /\ Same /\ weak' = weak /\ full' = full
      /\ \/ /\ Duplicates(old) # {} /\ ~weak /\ task' = task
            /\ SetState(old, Max(Duplicates(old)), "invalid")
         \/ /\ task' = [task EXCEPT !.pc = "copy", !.at = 1]
            /\ flash' = flash
  BY Zenon DEF Dedupe, At, Same, old
<1>2. FlashOK /\ TaskOK /\ TornLasts /\ CallShape /\ OthersOK'
  BY <1>1, Parts, Others
<1>3. /\ task.id # None /\ task.val # None /\ promised[task.id] = None /\ ~full
      /\ (task.forced => weak) /\ task.switch /\ task.slot = 1
  BY <1>1, <1>2 DEF CallShape, Moving
<1>4. RoomForAll'
  BY <1>1, <1>3, RoomInWrite
<1>5. ~weak => Filling(0)
  BY <1>1, Parts DEF GoodBattery, Sorting
<1>6. CASE /\ Duplicates(old) # {} /\ ~weak /\ task' = task
           /\ SetState(old, Max(Duplicates(old)), "invalid")
  <2> DEFINE k == Max(Duplicates(old))
             q == flash[old].idx
             r == flash'[old].idx
  <2>1. old \in {0, 1} /\ new \in {0, 1} /\ new = Other(old) /\ new # old
        /\ \A s \in {0, 1} : s = new \/ s = old
    BY <1>2, SectorsIs
  <2>2. k \in DOMAIN q
    BY <1>2, <1>6, <2>1, DuplicatesIs
  <2>3. PICK l \in DOMAIN q : k < l /\ q[l].state = "valid" /\ Valid(q, k, q[l].id)
    BY <1>2, <1>6, <2>1, DuplicatesIs
  <2>4. "invalid" \in {"torn", "operation", "valid", "invalid"}
    OBVIOUS
  <2>5. /\ FlashOK' /\ flash'[old].flag = flash[old].flag
        /\ flash'[new] = flash[new]
        /\ Len(r) = Len(q) /\ DOMAIN r = DOMAIN q
        /\ r[k].state = "invalid"
        /\ \A j \in DOMAIN q : j # k => r[j] = q[j]
    <3>1. k \in DOMAIN flash[old].idx /\ SetState(old, k, "invalid")
      BY <1>6, <2>2
    <3> HIDE DEF k
    <3>2. /\ FlashOK' /\ flash'[old].flag = flash[old].flag
          /\ flash'[Other(old)] = flash[Other(old)]
          /\ Len(r) = Len(q) /\ DOMAIN r = DOMAIN q
          /\ r[k] = [id |-> q[k].id, val |-> q[k].val, state |-> "invalid"]
          /\ \A j \in DOMAIN q : j # k => r[j] = q[j]
      <4>1. FlashOK /\ old \in {0, 1}
        BY <1>2, <2>1
      <4> QED BY <2>4, <3>1, <4>1, SetStateIs
    <3> QED BY <2>1, <3>2
  <2>6. q \in Seq(Entry) /\ r \in Seq(Entry) /\ Slots + 1 \in Nat /\ l < Slots + 1
    BY <2>1, <2>3, <2>5, <1>2, SectorIs, ReadsNext, Constants DEF Reading
  <2>7. \A i \in Items : Value(r, i, Slots + 1) = Value(q, i, Slots + 1)
    <3>1. r[k].state # "valid"
      BY <2>5
    <3> HIDE DEF k, q, r
    <3> QED BY <3>1, <2>2, <2>3, <2>5, <2>6, ValueDelete
  <2>8. \A s \in {0, 1}, i \in Items : Held(s, i)' = Held(s, i)
    BY <2>1, <2>5, <2>7 DEF Held
  <2>9. Chosen' = Chosen
    BY <2>1, <2>5 DEF Chosen, Usable, NoSector
  <2>10. Kept
    BY <2>5, <2>8, <2>9, <1>2, KeptIf
  <2>11. TornLast(r)
    <3> SUFFICES ASSUME NEW j \in DOMAIN r, r[j].state = "torn" PROVE j = Len(r)
      BY DEF TornLast
    <3>1. j # k /\ q[j].state = "torn"
      BY <2>5
    <3> QED BY <3>1, <1>2, <2>1, <2>5 DEF TornLasts, TornLast
  <2>12. TornLasts'
    BY <1>2, <2>1, <2>5, <2>11 DEF TornLasts
  <2> HIDE DEF k, q, r
  <2>13. TaskOK' /\ SameCall /\ new' = new /\ old' = old
    BY <1>2, <1>6 DEF TaskOK, SameCall, new, old
  <2>14. CallShape'
    BY <1>1, <1>3, <1>6 DEF CallShape, Moving, Adding
  <2>15. Filling(0)'
    BY <1>5, <1>6, <2>5, <2>9, <2>13 DEF Filling
  <2>16. GoodBattery' /\ Copying'
    BY <2>15, <1>1, <1>3, <1>6
       DEF GoodBattery, Erasing, Sorting, Copies, CopyMade, MoveAdds, Moved, Adds, Adding,
           Copying
  <2>17. Moves
    BY <2>10, <2>13 DEF Moves
  <2> QED BY <2>5, <2>12, <2>13, <2>14, <2>16, <2>17, <1>1, <1>2, <1>4, Assemble
<1>7. CASE task' = [task EXCEPT !.pc = "copy", !.at = 1] /\ flash' = flash
  <2>1. task' = [pc |-> "copy", id |-> task.id, val |-> task.val, forced |-> task.forced,
                 switch |-> task.switch, sect |-> task.sect, at |-> 1, slot |-> task.slot,
                 del |-> task.del]
    BY <1>2, <1>7, TaskIs
  <2>2. TaskOK'
    <3>1. "copy" \in Steps /\ 1 \in 0..Slots + 1
      BY Constants DEF Steps
    <3> QED BY <3>1, <2>1, <1>2, TaskIs DEF TaskOK
  <2>3. /\ task'.pc = "copy" /\ task'.id = task.id /\ task'.val = task.val
        /\ task'.forced = task.forced /\ task'.switch = task.switch /\ task'.at = 1
        /\ task'.slot = 1 /\ new' = new /\ old' = old
    BY <2>1, <1>3 DEF new, old
  <2>4. CallShape'
    BY <1>1, <1>3, <2>3 DEF CallShape, Moving, Adding
  <2>5. FlashOK' /\ TornLasts' /\ Kept /\ Chosen' = Chosen
    BY <1>2, <1>7, SameFlash
  <2>6. ~weak => Filling(0)'
    BY <1>5, <1>7, <2>3, <2>5 DEF Filling
  <2>7. ~weak => flash'[new].idx = <<>>
    <3>1. flash[new].idx \in Seq(Entry)
      BY <1>2, SectorsIs, SectorIs
    <3> QED BY <3>1, <1>5, <1>7 DEF Filling
  <2>8. Copying'
    <3> SUFFICES ASSUME ~weak PROVE Filling(0)' /\ Origin'
      BY <2>3, <1>1 DEF Copying
    <3>1. DOMAIN flash'[new'].idx = {}
      BY <2>3, <2>7
    <3> QED BY <3>1, <2>6 DEF Origin
  <2>9. ~weak => GoodBattery'
    <3> SUFFICES ASSUME ~weak PROVE GoodBattery'
      OBVIOUS
    <3>1. InOrder(0)'
      BY DEF InOrder
    <3>2. ASSUME NEW i PROVE Value(flash'[new].idx, i, Slots + 1) = None
      <4>1. \A k \in DOMAIN flash'[new].idx : FALSE
        BY <2>7
      <4> QED BY <4>1, ValueNone
    <3>3. ASSUME NEW i PROVE Value(flash'[old].idx, i, 1) = None
      <4>1. \A k \in DOMAIN flash'[old].idx : ~(k < 1)
        BY <2>5, <1>2, SectorsIs, ReadsNext DEF Reading
      <4> QED BY <4>1, ValueNone
    <3>4. Mirrors(Slots + 1, 1)'
      BY <3>2, <3>3, <2>3 DEF Mirrors
    <3>5. Copies'
      BY <3>1, <3>4, <2>3 DEF Copies
    <3> QED BY <3>5, <2>3, <1>3
        DEF GoodBattery, Erasing, Sorting, CopyMade, MoveAdds, Moved, Adds, Adding
  <2>10. Moves
    BY <2>3, <2>5 DEF Moves, SameCall
  <2> QED BY <2>2, <2>4, <2>5, <2>8, <2>9, <2>10, <1>1, <1>2, <1>4, Assemble
<1> QED BY <1>1, <1>6, <1>7

\* Valid entries stand before the one written in part, if there is one.
LEMMA ToCopyIs ==
  ASSUME FlashOK, TaskOK, TornLasts, flash[old].flag = "valid"
  PROVE  /\ ToCopy = {k \in DOMAIN flash[old].idx :
                        /\ k >= task.at
                        /\ flash[old].idx[k].state = "valid"
                        /\ flash[old].idx[k].id # task.id}
         /\ ToCopy # {} => /\ Min(ToCopy) \in ToCopy
                           /\ \A k \in ToCopy : Min(ToCopy) <= k
<1> DEFINE p == flash[old].idx
           S == {k \in DOMAIN p : k >= task.at /\ p[k].state = "valid" /\ p[k].id # task.id}
<1>1. old \in {0, 1} /\ old = Other(task.sect)
  BY SectorsIs
<1>2. DOMAIN p = 1..Len(p) /\ Len(p) \in Nat
  BY <1>1, SectorIs, Constants
<1>3. ToCopy = {k \in Readable(old) : /\ k >= task.at
                                      /\ p[k].state = "valid"
                                      /\ p[k].id # task.id}
  BY <1>1 DEF ToCopy
<1>4. ASSUME NEW k \in DOMAIN p, p[k].state = "valid" PROVE k \in Readable(old)
  <2> SUFFICES ASSUME NEW l \in 1..k PROVE p[l].state # "torn"
    BY DEF Readable
  <2>1. l \in DOMAIN p /\ k <= Len(p)
    BY <1>2
  <2>2. p[l].state = "torn" => l = Len(p)
    BY <1>1, <2>1 DEF TornLasts, TornLast
  <2>3. l = Len(p) => l = k
    BY <1>2, <2>1
  <2> QED BY <2>2, <2>3, <1>4
<1>5. ToCopy = S
  <2>1. Readable(old) \subseteq DOMAIN p
    BY DEF Readable
  <2> QED BY <1>3, <1>4, <2>1
<1>6. S \in SUBSET Nat
  BY <1>2
<1> QED BY <1>5, <1>6, MinOf

\* With a good battery entries fit into the new sector as it is filled.
LEMMA CopyFits ==
  ASSUME FlashOK, TaskOK, ~weak, Filling(task.slot - 1), InOrder(task.slot - 1)
  PROVE  Fits
<1>1. task.slot > 1 => flash[new].idx[task.slot - 1].state # "torn"
  <2> SUFFICES ASSUME task.slot > 1 PROVE flash[new].idx[task.slot - 1].state = "valid"
    OBVIOUS
  <2>1. task.slot - 1 \in 1..task.slot - 1
    BY TaskIs
  <2> QED BY <2>1 DEF InOrder
<1> QED BY <1>1 DEF Fits, Filling, new

\* An entry is copied, or cannot be: then the new one is tried.
LEMMA CopyStep ==
  ASSUME IInv, Copy
  PROVE  IInv' /\ Moves
<1> DEFINE p == flash[old].idx
           q == flash[new].idx
<1>0. /\ task.pc = "copy" /\ promised' = promised /\ Same /\ weak' = weak /\ full' = full
      /\ ToCopy # {}
  BY DEF Copy, At, Same
<1>2. FlashOK /\ TaskOK /\ TornLasts /\ CallShape /\ OthersOK'
  BY <1>0, Parts, Others
<1>3. /\ task.id # None /\ task.val # None /\ promised[task.id] = None /\ ~full
      /\ (task.forced => weak) /\ task.switch
      /\ 1 <= task.slot /\ task.slot <= task.at
  BY <1>0, <1>2 DEF CallShape, Moving
<1>4. RoomForAll'
  BY <1>0, <1>3, RoomInWrite
<1>5. flash[old].flag = "valid"
  BY <1>0, <1>2, SectorsIs DEF ToCopy
<1>6. PICK k \in DOMAIN p :
        /\ k = Min(ToCopy)
        /\ k >= task.at /\ p[k].state = "valid" /\ p[k].id # task.id
        /\ \A j \in DOMAIN p : /\ j >= task.at /\ p[j].state = "valid" /\ p[j].id # task.id
                               => k <= j
  BY <1>0, <1>2, <1>5, ToCopyIs
<1> DEFINE x == p[k]
<1>1. /\ task.pc = "copy" /\ promised' = promised /\ Same /\ weak' = weak /\ full' = full
      /\ IF Fits THEN /\ Appended(x.id, x.val, "operation")
                      /\ task' = [task EXCEPT !.pc = "copied", !.at = k + 1]
                 ELSE /\ task' = [task EXCEPT !.pc = "append", !.slot = task.slot + 1]
                      /\ flash' = flash
  BY <1>6, Zenon DEF Copy, At, Same, old
<1>7. /\ new \in {0, 1} /\ old \in {0, 1} /\ new # old
      /\ \A s \in {0, 1} : s = new \/ s = old
  BY <1>2, SectorsIs
<1>8. /\ p \in Seq(Entry) /\ q \in Seq(Entry) /\ k \in 1..Slots /\ x \in Entry
      /\ DOMAIN p = 1..Len(p) /\ DOMAIN q = 1..Len(q)
      /\ Slots \in Nat /\ task.slot \in Nat /\ task.at \in Nat /\ k \in Nat
  BY <1>2, <1>6, <1>7, SectorIs, TaskIs, Constants
<1>9. x.id \in Items /\ x.val \in Data
  BY <1>8 DEF Entry
<1>10. task.slot <= Slots
  BY <1>3, <1>6, <1>8
<1>11. CASE Fits
  <2>1. ~weak
    BY <1>11 DEF Fits
  <2>2. Filling(task.slot - 1) /\ Origin
    BY <1>1, <2>1, Parts DEF Copying
  <2>3. InOrder(task.slot - 1) /\ Mirrors(Slots + 1, task.at)
    BY <1>1, <2>1, Parts DEF GoodBattery, Copies
  <2> DEFINE r == flash'[new].idx
  <2>4. Len(q) < Slots
    BY <2>2, <1>8, <1>10 DEF Filling
  <2>5. /\ FlashOK' /\ TornLasts' /\ Kept /\ Chosen' = Chosen
        /\ flash'[old] = flash[old]
        /\ \A s \in {0, 1} : flash'[s].flag = flash[s].flag
        /\ \A j \in Items : Value(r, j, Slots + 1) = Value(q, j, Slots + 1)
        /\ Len(r) = Len(q) + 1 /\ Len(q) = task.slot - 1
        /\ DOMAIN r = DOMAIN q \cup {task.slot}
        /\ r[task.slot] = [id |-> x.id, val |-> x.val, state |-> "operation"]
        /\ \A j \in DOMAIN q : r[j] = q[j]
    BY <1>1, <1>2, <1>9, <1>11, <2>4, EntryAdded
  <2>6. task' = [pc |-> "copied", id |-> task.id, val |-> task.val, forced |-> task.forced,
                 switch |-> task.switch, sect |-> task.sect, at |-> k + 1,
                 slot |-> task.slot, del |-> task.del]
    BY <1>1, <1>2, <1>11, TaskIs
  <2>7. TaskOK'
    <3>1. "copied" \in Steps /\ k + 1 \in 0..Slots + 1
      BY <1>8 DEF Steps
    <3> QED BY <3>1, <2>6, <1>2, TaskIs DEF TaskOK
  <2>8. /\ task'.pc = "copied" /\ task'.id = task.id /\ task'.val = task.val
        /\ task'.forced = task.forced /\ task'.switch = task.switch /\ task'.at = k + 1
        /\ task'.slot = task.slot /\ new' = new /\ old' = old
    BY <2>6 DEF new, old
  <2>9. CallShape'
    <3>1. task.slot <= (k + 1) - 1
      BY <1>3, <1>6, <1>8
    <3> QED BY <3>1, <1>1, <1>3, <2>8 DEF CallShape, Moving, Adding
  <2>10. Filling(task.slot)'
    <3>1. Len(r) = task.slot
      BY <2>5, <1>8
    <3> QED BY <3>1, <1>7, <2>2, <2>5, <2>8 DEF Filling
  <2> HIDE DEF r
  <2>11. ASSUME NEW m \in DOMAIN r
         PROVE  /\ r[m].id # task.id
                /\ \E j \in DOMAIN p : j < k + 1 /\ Valid(p, j, r[m].id)
    <3>1. CASE m \in DOMAIN q
      <4>1. /\ q[m].id # task.id
            /\ \E j \in DOMAIN p : j < task.at /\ Valid(p, j, q[m].id)
        BY <3>1, <2>2 DEF Origin
      <4>2. PICK j \in DOMAIN p : j < task.at /\ Valid(p, j, q[m].id)
        BY <4>1
      <4>3. j < k + 1
        BY <4>2, <1>6, <1>8
      <4> QED BY <4>1, <4>2, <4>3, <2>5, <3>1
    <3>2. CASE m = task.slot
      <4>1. r[m].id = x.id /\ Valid(p, k, r[m].id)
        BY <3>2, <2>5, <1>6 DEF Valid
      <4> QED BY <4>1, <1>6, <1>8
    <3> QED BY <3>1, <3>2, <2>5
  <2>12. ASSUME NEW m \in DOMAIN r, NEW l \in DOMAIN r, m < l, r[m].id = r[l].id
         PROVE  Doubled(p)
    <3>0. m \in DOMAIN q
      BY <2>12, <2>5, <1>8
    <3>1. CASE l \in DOMAIN q
      BY <3>0, <3>1, <2>12, <2>5, <2>2 DEF Origin
    <3>2. CASE l = task.slot
      <4>1. PICK j \in DOMAIN p : j < task.at /\ Valid(p, j, q[m].id)
        BY <3>0, <2>2 DEF Origin
      <4>2. q[m].id = x.id
        BY <3>0, <3>2, <2>5, <2>12
      <4>3. j < k
        BY <4>1, <1>6, <1>8
      <4> QED BY <4>1, <4>2, <4>3, <1>6 DEF Doubled
    <3> QED BY <3>1, <3>2, <2>5
  <2>13. Origin'
    BY <2>11, <2>12, <2>5, <2>8 DEF Origin, r
  <2>14. Copying'
    BY <2>8, <2>10, <2>13 DEF Copying
  <2>15. InOrder(task.slot - 1)'
    <3>1. \A j \in 1..task.slot - 1 : j \in DOMAIN q
      BY <2>5, <1>8
    <3> QED BY <3>1, <2>3, <2>5, <2>8 DEF InOrder, r
  <2>16. ASSUME NEW i \in Items \ {task.id}
         PROVE  Value(r, i, Slots + 1) = Value(p, i, k)
    <3>1. Value(r, i, Slots + 1) = Value(q, i, Slots + 1)
      BY <2>5
    <3>2. Value(q, i, Slots + 1) = Value(p, i, task.at)
      BY <2>3 DEF Mirrors
    <3>3. \A j \in DOMAIN p : task.at <= j /\ j < k => ~Valid(p, j, i)
      <4> SUFFICES ASSUME NEW j \in DOMAIN p, task.at <= j, j < k, Valid(p, j, i) PROVE FALSE
        OBVIOUS
      <4>1. p[j].state = "valid" /\ p[j].id # task.id
        BY DEF Valid
      <4>2. k <= j
        BY <4>1, <1>6, <1>8
      <4> QED BY <4>2, <1>8
    <3>4. Value(p, i, task.at) = Value(p, i, k)
      <4>1. task.at <= k
        BY <1>6, <1>8
      <4> HIDE DEF p
      <4> QED BY <4>1, <3>3, <1>8, ValueBound
    <3> QED BY <3>1, <3>2, <3>4
  <2>17. Mirrors(Slots + 1, k)'
    BY <2>16, <2>5, <2>8 DEF Mirrors, r
  <2>18. CopyMade'
    <3>1. (k + 1) - 1 = k
      BY <1>8
    <3>2. flash'[new'].idx[task'.slot]
            = [id |-> x.id, val |-> x.val, state |-> "operation"]
      BY <2>5, <2>8 DEF r
    <3>3. flash'[old'].idx = p
      BY <2>5, <2>8
    <3> QED BY <3>1, <3>2, <3>3, <2>8, <2>15, <2>17, <1>6 DEF CopyMade
  <2>19. GoodBattery'
    BY <2>8, <2>18, <1>3
       DEF GoodBattery, Erasing, Sorting, Copies, MoveAdds, Moved, Adds, Adding
  <2>20. Moves
    BY <2>5, <2>8 DEF Moves, SameCall
  <2> QED BY <2>5, <2>7, <2>9, <2>14, <2>19, <2>20, <1>1, <1>2, <1>4, Assemble
<1>12. CASE ~Fits
  <2>1. weak
    <3> SUFFICES ASSUME ~weak PROVE FALSE
      OBVIOUS
    <3>1. Filling(task.slot - 1)
      BY <1>1, Parts DEF Copying
    <3>2. InOrder(task.slot - 1)
      BY <1>1, Parts DEF GoodBattery, Copies
    <3> QED BY <3>1, <3>2, <1>2, <1>12, CopyFits
  <2>2. task' = [pc |-> "append", id |-> task.id, val |-> task.val, forced |-> task.forced,
                 switch |-> task.switch, sect |-> task.sect, at |-> task.at,
                 slot |-> task.slot + 1, del |-> task.del]
    BY <1>1, <1>2, <1>12, TaskIs
  <2>3. TaskOK'
    <3>1. "append" \in Steps /\ task.slot + 1 \in 0..Slots + 1
      BY <1>8, <1>10 DEF Steps
    <3> QED BY <3>1, <2>2, <1>2, TaskIs DEF TaskOK
  <2>4. /\ task'.pc = "append" /\ task'.id = task.id /\ task'.val = task.val
        /\ task'.forced = task.forced /\ task'.switch = task.switch
        /\ task'.slot = task.slot + 1
    BY <2>2
  <2>5. CallShape'
    <3>1. 1 <= task.slot + 1
      BY <1>8
    <3> QED BY <3>1, <1>1, <1>3, <2>4 DEF CallShape, Moving, Adding
  <2>6. FlashOK' /\ TornLasts' /\ Kept
    BY <1>1, <1>2, <1>12, SameFlash
  <2>7. Copying' /\ Moves
    BY <2>4, <2>6 DEF Copying, Moves, SameCall
  <2> QED BY <2>1, <2>3, <2>5, <2>6, <2>7, <1>1, <1>2, <1>4, Assemble
<1> QED BY <1>11, <1>12

\* The copy counts.
LEMMA CopiedStep ==
  ASSUME IInv, Copied
  PROVE  IInv' /\ Moves
<1> DEFINE p == flash[old].idx
           q == flash[new].idx
           r == flash'[new].idx
           n == task.slot
<1>1. /\ task.pc = "copied" /\ promised' = promised /\ Same /\ weak' = weak /\ full' = full
      /\ task' = [task EXCEPT !.pc = "copy", !.slot = n + 1]
      /\ IF weak THEN flash' = flash ELSE SetState(new, n, "valid")
  <2>1. task' = [task EXCEPT !.pc = "copy", !.slot = @ + 1]
    BY DEF Copied
  <2> QED BY <2>1, Zenon DEF Copied, At, Same, Written, new
<1>2. FlashOK /\ TaskOK /\ TornLasts /\ CallShape /\ OthersOK'
  BY <1>1, Parts, Others
<1>3. /\ task.id # None /\ task.val # None /\ promised[task.id] = None /\ ~full
      /\ (task.forced => weak) /\ task.switch
      /\ 1 <= n /\ n <= task.at - 1
  BY <1>1, <1>2 DEF CallShape, Moving
<1>4. RoomForAll'
  BY <1>1, <1>3, RoomInWrite
<1>5. Filling(n) /\ Origin
  BY <1>1, Parts DEF Copying
<1>6. /\ new \in {0, 1} /\ old \in {0, 1} /\ new # old
      /\ \A s \in {0, 1} : s = new \/ s = old
  BY <1>2, SectorsIs
<1>7. /\ p \in Seq(Entry) /\ q \in Seq(Entry) /\ DOMAIN p = 1..Len(p) /\ DOMAIN q = 1..Len(q)
      /\ Slots \in Nat /\ n \in Nat /\ task.at \in Nat /\ task.at <= Slots + 1
  BY <1>2, <1>6, SectorIs, TaskIs, Constants
<1>8. task' = [pc |-> "copy", id |-> task.id, val |-> task.val, forced |-> task.forced,
               switch |-> task.switch, sect |-> task.sect, at |-> task.at,
               slot |-> n + 1, del |-> task.del]
  BY <1>1, <1>2, TaskIs
<1>9. TaskOK'
  <2>1. "copy" \in Steps /\ n + 1 \in 0..Slots + 1
    BY <1>3, <1>7 DEF Steps
  <2> QED BY <2>1, <1>8, <1>2, TaskIs DEF TaskOK
<1>10. /\ task'.pc = "copy" /\ task'.id = task.id /\ task'.val = task.val
       /\ task'.forced = task.forced /\ task'.switch = task.switch /\ task'.at = task.at
       /\ task'.slot = n + 1 /\ new' = new /\ old' = old
  BY <1>8 DEF new, old
<1>11. CallShape'
  <2>1. 1 <= n + 1 /\ n + 1 <= task.at
    BY <1>3, <1>7
  <2> QED BY <2>1, <1>1, <1>3, <1>10 DEF CallShape, Moving, Adding
<1>12. (n + 1) - 1 = n
  BY <1>7
<1>13. CASE weak
  <2>1. FlashOK' /\ TornLasts' /\ Kept /\ Chosen' = Chosen
    BY <1>1, <1>2, <1>13, SameFlash
  <2>2. flash' = flash
    BY <1>1, <1>13
  <2>3. /\ Chosen' = old' /\ flash'[old'].flag = "valid" /\ flash'[new'].flag = "idle"
        /\ Len(flash'[new'].idx) = task'.slot - 1
    BY <1>5, <1>10, <1>12, <2>1, <2>2 DEF Filling
  <2>4. Copying'
    <3>1. Origin'
      BY <1>5, <1>10, <2>2 DEF Origin
    <3> QED BY <2>3, <3>1, <1>10 DEF Copying, Filling
  <2>5. Moves
    BY <2>1, <1>10 DEF Moves, SameCall
  <2> QED BY <2>1, <2>4, <2>5, <1>1, <1>2, <1>4, <1>9, <1>11, <1>13, Assemble
<1>14. CASE ~weak
  <2>1. /\ InOrder(n - 1)
        /\ task.at - 1 \in DOMAIN p
        /\ p[task.at - 1].state = "valid"
        /\ q[n] = [id |-> p[task.at - 1].id, val |-> p[task.at - 1].val, state |-> "operation"]
        /\ Mirrors(Slots + 1, task.at - 1)
    BY <1>1, <1>14, Parts DEF GoodBattery, CopyMade
  <2>2. Len(q) = n /\ q[n].state = "operation" /\ n >= 1 /\ SetState(new, n, "valid")
    BY <1>1, <1>3, <1>5, <1>7, <1>14, <2>1 DEF Filling
  <2>3. /\ FlashOK' /\ TornLasts' /\ Chosen' = Chosen
        /\ flash'[old] = flash[old]
        /\ \A s \in {0, 1} : flash'[s].flag = flash[s].flag
        /\ Len(r) = n /\ DOMAIN r = DOMAIN q
        /\ r[n] = [id |-> q[n].id, val |-> q[n].val, state |-> "valid"]
        /\ \A j \in DOMAIN q : j # n => r[j] = q[j]
        /\ \A j \in DOMAIN q : r[j].id = q[j].id
        /\ \A i \in Items : Value(r, i, Slots + 1)
                              = IF i = q[n].id THEN q[n].val ELSE Value(q, i, Slots + 1)
    BY <1>2, <2>2, Marked
  <2>4. /\ Chosen' = old /\ flash'[old].flag = "valid" /\ flash'[new].flag = "idle"
        /\ Len(r) = n
    BY <1>5, <1>6, <2>3 DEF Filling
  <2>5. Kept
    <3>1. \A s \in {0, 1}, i \in Items : s = Chosen => Held(s, i)' = Held(s, i)
      BY <1>5, <2>3 DEF Held, Filling
    <3> QED BY <3>1, <1>2, <2>3, KeptIf
  <2> HIDE DEF r
  <2>6. Origin'
    <3>1. /\ \A m \in DOMAIN r : /\ r[m].id # task.id
                                 /\ \E k \in DOMAIN p : k < task.at /\ Valid(p, k, r[m].id)
          /\ \A m, l \in DOMAIN r : m < l /\ r[m].id = r[l].id => Doubled(p)
      BY <1>5, <2>3 DEF Origin
    <3>2. flash'[new'].idx = r /\ flash'[old'].idx = p
      BY <1>10, <2>3 DEF r
    <3> QED BY <3>1, <3>2, <1>10 DEF Origin
  <2>7. Copying'
    <3>1. Chosen' = old' /\ flash'[old'].flag = "valid" /\ flash'[new'].flag = "idle"
          /\ Len(flash'[new'].idx) = task'.slot - 1
      BY <2>3, <2>4, <1>10, <1>12 DEF Filling, r
    <3> QED BY <3>1, <2>6, <1>10 DEF Copying, Filling
  <2>8. \A j \in 1..n : r[j].state = "valid"
    <3> SUFFICES ASSUME NEW j \in 1..n, j # n PROVE r[j].state = "valid"
      BY <2>3
    <3>1. j \in 1..n - 1 /\ j \in DOMAIN q
      BY <1>7, <2>2
    <3> QED BY <3>1, <2>1, <2>3 DEF InOrder
  <2>9. ASSUME NEW i \in Items \ {task.id}
        PROVE  Value(r, i, Slots + 1) = Value(p, i, task.at)
    <3> DEFINE k == task.at - 1
    <3>1. Value(q, i, Slots + 1) = Value(p, i, k)
      BY <2>1 DEF Mirrors
    <3>2. k + 1 = task.at /\ k \in DOMAIN p /\ p[k].state = "valid"
      BY <1>7, <2>1
    <3> HIDE DEF k
    <3>3. Value(p, i, k + 1) = IF i = p[k].id THEN p[k].val ELSE Value(p, i, k)
      BY <3>2, <1>7, ValueHere
    <3>4. q[n].id = p[k].id /\ q[n].val = p[k].val
      BY <2>1 DEF k
    <3>5. Value(r, i, Slots + 1)
            = IF i = q[n].id THEN q[n].val ELSE Value(q, i, Slots + 1)
      BY <2>3
    <3> QED BY <3>1, <3>2, <3>3, <3>4, <3>5
  <2>10. Copies'
    <3>1. flash'[new'].idx = r /\ flash'[old'].idx = p
      BY <1>10, <2>3 DEF r
    <3>2. \A j \in 1..task'.slot - 1 : flash'[new'].idx[j].state = "valid"
      BY <3>1, <2>8, <1>10, <1>12
    <3>3. \A i \in Items \ {task'.id} :
             Value(flash'[new'].idx, i, Slots + 1) = Value(flash'[old'].idx, i, task'.at)
      BY <3>1, <2>9, <1>10
    <3> QED BY <3>2, <3>3 DEF Copies, InOrder, Mirrors
  <2>11. GoodBattery'
    BY <2>10, <1>10, <1>3
       DEF GoodBattery, Erasing, Sorting, CopyMade, MoveAdds, Moved, Adds, Adding
  <2>12. Moves
    BY <2>5, <1>10 DEF Moves, SameCall
  <2> QED BY <2>3, <2>7, <2>11, <2>12, <1>1, <1>2, <1>4, <1>9, <1>11, Assemble
<1> QED BY <1>13, <1>14

\* A sector that is full of entries of fewer items holds one of them twice.
LEMMA PigeonHole ==
  ASSUME NEW q \in Seq(Entry), Len(q) = Slots
  PROVE  \E m, l \in DOMAIN q : m < l /\ q[m].id = q[l].id
<1> DEFINE f == [m \in 1..Slots |-> q[m].id]
<1>1. Slots \in Nat \ {0} /\ DOMAIN q = 1..Slots
  BY Constants
<1>2. IsFiniteSet(1..Slots) /\ Cardinality(1..Slots) = Slots
  BY <1>1, FS_Interval
<1>3. IsFiniteSet(Items) /\ Cardinality(Items) < Cardinality(1..Slots)
  BY <1>2, NvAssumption, FS_CardinalityType
<1>4. f \in [1..Slots -> Items]
  <2>1. \A m \in 1..Slots : q[m] \in Entry
    BY <1>1
  <2> QED BY <2>1 DEF Entry
<1>5. PICK m, l \in 1..Slots : m # l /\ f[m] = f[l]
  <2> HIDE DEF f
  <2> QED BY <1>2, <1>3, <1>4, FS_PigeonHole
<1>6. q[m].id = q[l].id /\ m \in DOMAIN q /\ l \in DOMAIN q /\ (m < l \/ l < m)
  BY <1>1, <1>5
<1> QED BY <1>6

\* Copying ends; the new entry follows if there is room.
LEMMA CopyEndsStep ==
  ASSUME IInv, CopyEnds
  PROVE  IInv' /\ Moves
<1>1. /\ task.pc = "copy" /\ promised' = promised /\ weak' = weak /\ flash' = flash
      /\ writes' = writes /\ failures' = failures /\ ToCopy = {}
      /\ IF task.slot > Slots THEN full' = TRUE /\ task' = Idle
                              ELSE full' = full /\ Goto("append")
  BY DEF CopyEnds, At
<1>2. FlashOK /\ TaskOK /\ TornLasts /\ CallShape /\ OthersOK
  BY Parts
<1>3. /\ task.id # None /\ task.val # None /\ promised[task.id] = None /\ ~full
      /\ (task.forced => weak) /\ task.switch /\ 1 <= task.slot
  BY <1>1, <1>2 DEF CallShape, Moving
<1>4. FlashOK' /\ TornLasts' /\ Kept /\ Chosen' = Chosen
      /\ \A s \in {0, 1} : Duplicates(s)' = Duplicates(s)
  BY <1>1, <1>2, SameFlash
<1>5. OthersOK'
  <2>1. full' \in BOOLEAN
    BY <1>1, <1>2 DEF OthersOK
  <2> QED BY <2>1, <1>1, <1>2 DEF OthersOK
<1>6. new \in {0, 1} /\ old \in {0, 1} /\ Slots \in Nat \ {0} /\ task.slot \in 0..Slots + 1
      /\ task.at \in 0..Slots + 1
  BY <1>2, SectorsIs, Constants, TaskIs
<1>7. CASE task.slot > Slots
  <2>1. Filling(task.slot - 1) /\ Origin
    <3>1. task.slot > 1
      BY <1>6, <1>7
    <3> QED BY <3>1, <1>1, Parts DEF Copying
  <2>2. Len(flash[new].idx) = Slots /\ flash[new].idx \in Seq(Entry)
    BY <1>2, <1>6, <1>7, <2>1, SectorIs DEF Filling
  <2>3. Doubled(flash[old].idx)
    <3>1. PICK m, l \in DOMAIN flash[new].idx :
                 m < l /\ flash[new].idx[m].id = flash[new].idx[l].id
      BY <2>2, PigeonHole
    <3> QED BY <3>1, <2>1 DEF Origin
  <2>4. PICK s \in {0, 1} : s = old
    BY <1>6
  <2>5. Chosen' = s /\ Duplicates(s)' # {}
    BY <1>2, <1>4, <2>1, <2>3, <2>4, DuplicatesIs DEF Filling
  <2>6. RoomForAll'
    <3>1. Duplicates(Chosen)' # {} /\ Chosen' # NoSector'
      BY <2>5 DEF NoSector
    <3> QED BY <3>1 DEF RoomForAll
  <2> QED BY <1>1, <1>4, <1>5, <1>7, <2>6, Ends
<1>8. CASE ~(task.slot > Slots)
  <2>1. full' = full /\ Goto("append") /\ "append" \in Steps
    BY <1>1, <1>8 DEF Steps
  <2>2. /\ TaskOK' /\ task'.pc = "append" /\ task'.id = task.id /\ task'.val = task.val
        /\ task'.forced = task.forced /\ task'.switch = task.switch
        /\ task'.slot = task.slot /\ new' = new /\ old' = old
    BY <1>2, <2>1, GotoIs DEF new, old
  <2>3. RoomForAll'
    BY <1>3, <2>1, RoomInWrite
  <2>4. CallShape'
    BY <1>1, <1>3, <2>1, <2>2 DEF CallShape, Moving, Adding
  <2>5. Copying' /\ Moves
    BY <1>4, <2>2 DEF Copying, Moves, SameCall
  <2>6. ~weak => GoodBattery'
    <3> SUFFICES ASSUME ~weak PROVE GoodBattery'
      OBVIOUS
    <3>1. Filling(task.slot - 1) /\ Origin
      BY <1>1, Parts DEF Copying
    <3>2. InOrder(task.slot - 1) /\ Mirrors(Slots + 1, task.at)
      BY <1>1, Parts DEF GoodBattery, Copies
    <3>3. ASSUME NEW i \in Items \ {task.id}
          PROVE  Value(flash[old].idx, i, task.at) = Value(flash[old].idx, i, Slots + 1)
      <4> DEFINE p == flash[old].idx
      <4>1. \A k \in DOMAIN p : k >= task.at /\ p[k].state = "valid" => p[k].id = task.id
        BY <1>1, <1>2, <3>1, ToCopyIs DEF Filling
      <4>2. \A k \in DOMAIN p : task.at <= k /\ k < Slots + 1 => ~Valid(p, k, i)
        <5>1. \A k \in DOMAIN p : task.at <= k => k >= task.at
          BY <1>2, <1>6, SectorIs
        <5> QED BY <4>1, <5>1 DEF Valid
      <4>3. task.at \in Nat /\ Slots + 1 \in Nat /\ task.at <= Slots + 1 /\ p \in Seq(Entry)
        BY <1>2, <1>6, SectorIs
      <4> HIDE DEF p
      <4>4. Value(p, i, task.at) = Value(p, i, Slots + 1)
        BY <4>2, <4>3, ValueBound
      <4> QED BY <4>4 DEF p
    <3>4. Mirrors(Slots + 1, Slots + 1)
      BY <3>2, <3>3 DEF Mirrors
    <3>5. /\ Filling(task.slot - 1)' /\ InOrder(task.slot - 1)'
          /\ Mirrors(Slots + 1, Slots + 1)'
      BY <1>1, <1>4, <2>2, <3>1, <3>2, <3>4 DEF Filling, InOrder, Mirrors
    <3>6. \A k \in DOMAIN flash'[new'].idx : flash'[new'].idx[k].id # task'.id
      BY <1>1, <2>2, <3>1 DEF Origin
    <3>7. task'.slot <= Slots
      BY <1>6, <1>8, <2>2
    <3>8. MoveAdds'
      BY <3>5, <3>6, <3>7, <2>2 DEF MoveAdds
    <3> QED BY <3>8, <2>2, <1>3
        DEF GoodBattery, Erasing, Sorting, Copies, CopyMade, Moved, Adds, Adding
  <2> QED BY <1>1, <1>4, <1>5, <2>2, <2>3, <2>4, <2>5, <2>6, Assemble
<1> QED BY <1>7, <1>8

\* The new entry is added, or the call is repeated.
LEMMA AppendNewStep ==
  ASSUME IInv, AppendNew
  PROVE  IInv' /\ Moves
<1> DEFINE q == flash[new].idx
           r == flash'[new].idx
           n == task.slot
<1>1. /\ task.pc = "append" /\ promised' = promised /\ Same /\ weak' = weak /\ full' = full
      /\ IF Fits
         THEN /\ Appended(task.id, task.val, "operation")
              /\ task' = [task EXCEPT !.pc = "validate", !.del = Newest(new, task.id)]
         ELSE /\ task' = IF task.forced THEN Idle
                         ELSE [Idle EXCEPT !.pc = "select", !.id = task.id, !.val = task.val,
                                           !.forced = TRUE]
              /\ flash' = flash
  BY Zenon DEF AppendNew, At, Same, new
<1>2. FlashOK /\ TaskOK /\ TornLasts /\ CallShape /\ OthersOK'
  BY <1>1, Parts, Others
<1>3. /\ task.id # None /\ task.val # None /\ promised[task.id] = None /\ ~full
      /\ (task.forced => weak) /\ 1 <= n
  BY <1>1, <1>2 DEF CallShape, Adding
<1>4. RoomForAll'
  BY <1>1, <1>3, RoomInWrite
<1>5. /\ new \in {0, 1} /\ old \in {0, 1} /\ new # old
      /\ \A s \in {0, 1} : s = new \/ s = old
  BY <1>2, SectorsIs
<1>6. /\ q \in Seq(Entry) /\ DOMAIN q = 1..Len(q) /\ Len(q) \in 0..Slots
      /\ Slots \in Nat /\ n \in Nat /\ task.id \in Items /\ task.val \in Data
      /\ task.switch \in BOOLEAN
  BY <1>2, <1>3, <1>5, SectorIs, TaskIs, Constants
<1>7. /\ ~weak => n <= Slots /\ Len(q) = n - 1
      /\ ~weak /\ n > 1 => q[n - 1].state # "torn"
  <2> SUFFICES ASSUME ~weak PROVE /\ n <= Slots /\ Len(q) = n - 1
                                  /\ n > 1 => q[n - 1].state # "torn"
    OBVIOUS
  <2>1. CASE task.switch
    <3>1. n <= Slots /\ Filling(n - 1) /\ InOrder(n - 1)
      BY <1>1, <2>1, Parts DEF GoodBattery, MoveAdds
    <3>2. n > 1 => q[n - 1].state = "valid"
      <4>1. n > 1 => n - 1 \in 1..n - 1
        BY <1>6
      <4> QED BY <3>1, <4>1 DEF InOrder
    <3> QED BY <3>1, <3>2 DEF Filling
  <2>2. CASE ~task.switch
    BY <1>1, <2>2, Parts DEF GoodBattery, Adds
  <2> QED BY <2>1, <2>2
<1>8. CASE Fits
  <2>1. ~weak
    BY <1>8 DEF Fits
  <2>2. n <= Slots /\ Len(q) < Slots
    BY <1>6, <1>7, <2>1
  <2>3. /\ FlashOK' /\ TornLasts' /\ Kept /\ Chosen' = Chosen
        /\ flash'[old] = flash[old]
        /\ \A s \in {0, 1} : flash'[s].flag = flash[s].flag
        /\ \A j \in Items : Value(r, j, Slots + 1) = Value(q, j, Slots + 1)
        /\ Len(r) = Len(q) + 1 /\ Len(q) = n - 1
        /\ DOMAIN r = DOMAIN q \cup {n}
        /\ r[n] = [id |-> task.id, val |-> task.val, state |-> "operation"]
        /\ \A j \in DOMAIN q : r[j] = q[j]
    BY <1>1, <1>2, <1>6, <1>8, <2>2, EntryAdded
  <2>4. PICK d \in 0..Len(q) :
          /\ d = Newest(new, task.id)
          /\ d # 0 => Valid(q, d, task.id)
    BY <1>2, <1>5, NewestIs
  <2>5. task' = [pc |-> "validate", id |-> task.id, val |-> task.val, forced |-> task.forced,
                 switch |-> task.switch, sect |-> task.sect, at |-> task.at,
                 slot |-> n, del |-> d]
    BY <1>1, <1>2, <1>8, <2>4, TaskIs
  <2>6. d < n /\ Len(r) = n /\ d \in 0..Slots
    BY <1>6, <2>2, <2>3, <2>4
  <2>7. TaskOK'
    <3>1. "validate" \in Steps
      BY DEF Steps
    <3> QED BY <3>1, <2>5, <2>6, <1>2, TaskIs DEF TaskOK
  <2>8. /\ task'.pc = "validate" /\ task'.id = task.id /\ task'.val = task.val
        /\ task'.forced = task.forced /\ task'.switch = task.switch
        /\ task'.slot = n /\ task'.del = d /\ new' = new /\ old' = old
    BY <2>5 DEF new, old
  <2>9. flash'[new'].idx = r /\ flash'[old'].idx = flash[old].idx
    BY <2>3, <2>8
  <2>10. task.switch => d = 0
    <3> SUFFICES ASSUME task.switch, d # 0 PROVE FALSE
      OBVIOUS
    <3>1. \A k \in DOMAIN q : q[k].id # task.id
      BY <1>1, <2>1, Parts DEF GoodBattery, MoveAdds
    <3>2. d \in DOMAIN q
      BY <1>6, <2>4
    <3> QED BY <3>1, <3>2, <2>4 DEF Valid
  <2>11. CallShape'
    <3>1. task'.slot <= Len(flash'[new'].idx) /\ task'.del < task'.slot
      BY <2>6, <2>8, <2>9, <1>6
    <3> HIDE DEF r, q, n
    <3> QED BY <3>1, <1>1, <1>3, <2>8, <2>10 DEF CallShape, Moving, Adding, n
  <2>12. Copying' /\ Moves
    BY <2>3, <2>8 DEF Copying, Moves, SameCall
  <2>13. IsAdded("operation")'
    BY <2>3, <2>6, <2>8, <2>9 DEF IsAdded
  <2>14. MoveAdds'
    <3> SUFFICES ASSUME task.switch
                 PROVE  Filling(task.slot)' /\ Mirrors(Slots + 1, Slots + 1)'
      BY <2>8, <2>13 DEF MoveAdds
    <3>1. Filling(n - 1) /\ Mirrors(Slots + 1, Slots + 1)
      BY <1>1, <2>1, Parts DEF GoodBattery, MoveAdds, Adding
    <3>2. Filling(task.slot)'
      BY <3>1, <1>5, <2>3, <2>6, <2>8, <2>9 DEF Filling
    <3>3. Mirrors(Slots + 1, Slots + 1)'
      BY <3>1, <2>3, <2>8, <2>9 DEF Mirrors
    <3> QED BY <3>2, <3>3
  <2>15. Adds'
    <3> SUFFICES ASSUME ~task.switch
                 PROVE  /\ InPlace'
                        /\ d # 0 => Valid(flash[new].idx, task.del, task.id)'
      BY <2>8, <2>13 DEF Adds, Adding
    <3>1. InPlace
      BY <1>1, <2>1, Parts DEF GoodBattery, Adds, Adding
    <3>2. InPlace'
      BY <3>1, <1>5, <2>3, <2>8 DEF InPlace, NoSector
    <3>3. d # 0 => Valid(r, d, task.id)
      <4>1. d # 0 => d \in DOMAIN q
        BY <1>6, <2>4
      <4> QED BY <4>1, <2>3, <2>4 DEF Valid
    <3> QED BY <3>2, <3>3, <2>8, <2>9
  <2>16. GoodBattery'
    BY <2>14, <2>15, <2>8
       DEF GoodBattery, Erasing, Sorting, Copies, CopyMade, Moved
  <2> QED BY <2>3, <2>7, <2>11, <2>12, <2>16, <1>1, <1>2, <1>4, Assemble
<1>9. CASE ~Fits
  <2>1. weak
    BY <1>7, <1>9 DEF Fits, new
  <2>2. FlashOK' /\ TornLasts' /\ Kept
    BY <1>1, <1>2, <1>9, SameFlash
  <2>3. CASE task.forced
    <3>1. task' = Idle
      BY <1>1, <1>9, <2>3
    <3> QED BY <3>1, <2>2, <1>1, <1>2, <1>4, Ends
  <2>4. CASE ~task.forced
    <3>1. task' = [Idle EXCEPT !.pc = "select", !.id = task.id, !.val = task.val, !.forced = TRUE]
      BY <1>1, <1>9, <2>4
    <3>2. task' = [pc |-> "select", id |-> task.id, val |-> task.val, forced |-> TRUE,
                   switch |-> FALSE, sect |-> 0, at |-> 0, slot |-> 0, del |-> 0]
      BY <3>1 DEF Idle
    <3>3. TaskOK'
      <4>1. "select" \in Steps /\ TRUE \in BOOLEAN /\ FALSE \in BOOLEAN
            /\ 0 \in 0..Slots + 1 /\ 0 \in 0..Slots
        BY <1>6 DEF Steps
      <4> QED BY <4>1, <3>2, <1>6 DEF TaskOK
    <3>4. /\ task'.pc = "select" /\ task'.id = task.id /\ task'.val = task.val
      BY <3>2
    <3>5. CallShape'
      BY <3>4, <2>1, <1>1, <1>3 DEF CallShape, Moving, Adding
    <3>6. Copying' /\ Moves
      BY <3>4, <2>2 DEF Copying, Moves, SameCall
    <3> QED BY <3>3, <3>5, <3>6, <2>1, <2>2, <1>1, <1>2, <1>4, Assemble
  <2> QED BY <2>3, <2>4
<1> QED BY <1>8, <1>9

\* What is written last is what an item holds.
LEMMA AddedHolds ==
  ASSUME FlashOK, TaskOK, IsAdded("valid"), task.slot >= 1
  PROVE  \A i \in Items : i = task.id => Value(flash[new].idx, i, Slots + 1) = task.val
<1> DEFINE q == flash[new].idx
<1>1. q \in Seq(Entry) /\ Len(q) = task.slot /\ Slots + 1 \in Nat /\ Len(q) < Slots + 1
      /\ Len(q) >= 1
  BY SectorsIs, SectorIs, Constants DEF IsAdded
<1>2. q[Len(q)].state = "valid" /\ q[Len(q)].id = task.id /\ q[Len(q)].val = task.val
  BY <1>1 DEF IsAdded
<1> HIDE DEF q
<1> SUFFICES ASSUME NEW i \in Items, i = task.id PROVE Value(q, i, Slots + 1) = task.val
  BY DEF q
<1>3. Value(q, i, Slots + 1) = IF i = q[Len(q)].id THEN q[Len(q)].val ELSE Value(q, i, Len(q))
  BY <1>1, <1>2, ValueAdded
<1> QED BY <1>2, <1>3

\* The new entry counts, or its predecessor is to be deleted first.
LEMMA ValidateStep ==
  ASSUME IInv, Validate
  PROVE  IInv' /\ Moves
<1> DEFINE q == flash[new].idx
           r == flash'[new].idx
           n == task.slot
<1>1. /\ task.pc = "validate" /\ Same /\ weak' = weak /\ full' = full
      /\ IF weak THEN flash' = flash ELSE SetState(new, n, "valid")
      /\ IF task.del # 0 THEN Goto("delete") /\ promised' = promised
         ELSE IF task.switch THEN Goto("ready") /\ promised' = promised
         ELSE IF n = 1 THEN Goto("header") /\ promised' = promised
         ELSE /\ task' = Idle
              /\ promised' = IF ~weak THEN [promised EXCEPT ![task.id] = task.val] ELSE promised
  BY Zenon DEF Validate, At, Same, Written, new, Finish, Handover, Return
<1>2. FlashOK /\ TaskOK /\ TornLasts /\ CallShape /\ OthersOK
  BY Parts
<1>3. /\ task.id # None /\ task.val # None /\ promised[task.id] = None /\ ~full
      /\ (task.forced => weak) /\ 1 <= n /\ n <= Len(q) /\ task.del < n
      /\ (task.switch => task.del = 0)
  BY <1>1, <1>2 DEF CallShape, Adding
<1>4. RoomForAll'
  BY <1>1, <1>3, RoomInWrite
<1>5. /\ new \in {0, 1} /\ old \in {0, 1} /\ new # old
      /\ \A s \in {0, 1} : s = new \/ s = old
  BY <1>2, SectorsIs
<1>6. /\ q \in Seq(Entry) /\ DOMAIN q = 1..Len(q) /\ Len(q) \in 0..Slots
      /\ Slots \in Nat /\ n \in Nat /\ task.id \in Items /\ task.val \in Data
      /\ task.del \in Nat /\ task.switch \in BOOLEAN
  BY <1>2, <1>3, <1>5, SectorIs, TaskIs, Constants
<1>7. OthersOK'
  <2>1. promised' \in [Items -> Data \cup {None}]
    BY <1>1, <1>2, <1>6 DEF OthersOK
  <2> QED BY <2>1, <1>1, <1>2 DEF OthersOK, Same
<1>8. {"delete", "ready", "header"} \subseteq Steps
  BY DEF Steps
<1>9. ~weak => /\ IsAdded("operation")
               /\ task.switch => Filling(n) /\ Mirrors(Slots + 1, Slots + 1)
               /\ ~task.switch => /\ InPlace
                                  /\ task.del # 0 => Valid(q, task.del, task.id)
  BY <1>1, Parts DEF GoodBattery, MoveAdds, Adds, Adding
<1>10. \/ /\ task.del # 0 /\ Goto("delete") /\ promised' = promised
       \/ /\ task.del = 0 /\ task.switch /\ Goto("ready") /\ promised' = promised
       \/ /\ task.del = 0 /\ ~task.switch /\ n = 1 /\ Goto("header") /\ promised' = promised
       \/ /\ task.del = 0 /\ ~task.switch /\ n # 1 /\ task' = Idle
          /\ promised' = IF ~weak THEN [promised EXCEPT ![task.id] = task.val] ELSE promised
  BY <1>1
<1>11. task' # Idle =>
         /\ TaskOK' /\ task'.id = task.id /\ task'.val = task.val
         /\ task'.forced = task.forced /\ task'.switch = task.switch
         /\ task'.slot = n /\ task'.del = task.del /\ new' = new /\ old' = old
         /\ promised' = promised
         /\ task'.pc = IF task.del # 0 THEN "delete" ELSE IF task.switch THEN "ready" ELSE "header"
  <2> SUFFICES ASSUME task' # Idle
               PROVE  /\ TaskOK' /\ task'.id = task.id /\ task'.val = task.val
                      /\ task'.forced = task.forced /\ task'.switch = task.switch
                      /\ task'.slot = n /\ task'.del = task.del /\ task'.sect = task.sect
                      /\ promised' = promised
                      /\ task'.pc = IF task.del # 0 THEN "delete"
                                    ELSE IF task.switch THEN "ready" ELSE "header"
    BY DEF new, old
  <2>1. CASE task.del # 0 /\ Goto("delete") /\ promised' = promised
    BY <2>1, <1>2, <1>8, GotoIs
  <2>2. CASE task.del = 0 /\ task.switch /\ Goto("ready") /\ promised' = promised
    BY <2>2, <1>2, <1>8, GotoIs
  <2>3. CASE task.del = 0 /\ ~task.switch /\ n = 1 /\ Goto("header") /\ promised' = promised
    BY <2>3, <1>2, <1>8, GotoIs
  <2> QED BY <2>1, <2>2, <2>3, <1>10
<1>12. Len(flash'[new].idx) = Len(q) /\ task' # Idle => CallShape'
  <2> SUFFICES ASSUME Len(flash'[new].idx) = Len(q), task' # Idle PROVE CallShape'
    OBVIOUS
  <2>1. /\ task'.pc = "delete" => task'.del \in 1..task'.slot - 1 /\ ~task'.switch
        /\ task'.slot <= Len(flash'[new'].idx)
    BY <1>3, <1>6, <1>11
  <2>2. task'.pc = "ready" => task'.switch
    BY <1>11
  <2>3. task'.pc = "header" => ~task'.switch /\ task'.slot = 1
    BY <1>10, <1>11
  <2>4. task'.pc \in {"delete", "ready", "header"}
    BY <1>11
  <2> HIDE DEF n, q, r
  <2> QED BY <2>1, <2>2, <2>3, <2>4, <1>1, <1>3, <1>11 DEF CallShape, Moving, Adding
<1>13. CASE weak
  <2>1. flash' = flash /\ promised' = promised
    BY <1>10, <1>1, <1>13
  <2>2. FlashOK' /\ TornLasts' /\ Kept
    BY <2>1, <1>2, SameFlash
  <2>3. CASE task' = Idle
    BY <2>1, <2>2, <2>3, <1>4, <1>7, Ends
  <2>4. CASE task' # Idle
    <3>1. CallShape'
      BY <2>1, <2>4, <1>12
    <3>2. Copying' /\ Moves
      BY <2>2, <2>4, <1>11 DEF Copying, Moves, SameCall
    <3> QED BY <3>1, <3>2, <2>1, <2>2, <2>4, <1>1, <1>4, <1>7, <1>11, <1>13, Assemble
  <2> QED BY <2>3, <2>4
<1>14. CASE ~weak
  <2>1. Len(q) = n /\ q[n] = [id |-> task.id, val |-> task.val, state |-> "operation"]
        /\ SetState(new, n, "valid") /\ n >= 1
    BY <1>1, <1>3, <1>6, <1>9, <1>14 DEF IsAdded
  <2>2. /\ FlashOK' /\ TornLasts' /\ Chosen' = Chosen
        /\ flash'[old] = flash[old]
        /\ \A s \in {0, 1} : flash'[s].flag = flash[s].flag
        /\ Len(r) = n /\ DOMAIN r = DOMAIN q
        /\ r[n] = [id |-> q[n].id, val |-> q[n].val, state |-> "valid"]
        /\ \A j \in DOMAIN q : j # n => r[j] = q[j]
        /\ \A i \in Items : Value(r, i, Slots + 1)
                              = IF i = q[n].id THEN q[n].val ELSE Value(q, i, Slots + 1)
    <3>1. q[n].state = "operation"
      BY <2>1
    <3> QED BY <3>1, <2>1, <1>2, Marked
  <2>3. /\ r[n] = [id |-> task.id, val |-> task.val, state |-> "valid"]
        /\ \A i \in Items : Value(r, i, Slots + 1)
                              = IF i = task.id THEN task.val ELSE Value(q, i, Slots + 1)
    BY <2>1, <2>2
  <2> HIDE DEF r
  <2>4. task.switch => Kept
    <3> SUFFICES ASSUME task.switch PROVE Kept
      OBVIOUS
    <3>1. Chosen = old
      BY <1>9, <1>14 DEF Filling
    <3>2. \A s \in {0, 1}, i \in Items : s = Chosen => Held(s, i)' = Held(s, i)
      BY <3>1, <2>2 DEF Held
    <3> QED BY <3>2, <1>2, <2>2, KeptIf
  <2>5. ~task.switch /\ Chosen = NoSector => Kept
    BY <1>2, <2>2, KeptIf, ChosenIs
  <2>6. ~task.switch /\ Chosen = new =>
          Took /\ \A i \in Items : i = task.id => Lookup(i)' = task.val
    <3> SUFFICES ASSUME Chosen = new
                 PROVE  \A i \in Items :
                          Lookup(i)' = IF i = task.id THEN task.val ELSE Lookup(i)
      BY <1>3 DEF Took
    <3> TAKE i \in Items
    <3>1. PICK s \in {0, 1} : s = new
      BY <1>5
    <3>2. Lookup(i)' = Held(s, i)'
      BY <3>1, <2>2, ReadNext
    <3>3. Held(s, i)' = Value(r, i, Slots + 1)
      BY <3>1 DEF Held, r
    <3>4. Lookup(i) = Value(q, i, Slots + 1)
      <4>1. Lookup(i) = Held(Chosen, i)
        BY <1>2, <1>5, LookupIs DEF NoSector
      <4> QED BY <4>1 DEF Held
    <3> QED BY <2>3, <3>2, <3>3, <3>4
  <2>7. ~task.switch => Chosen = new \/ (Chosen = NoSector /\ n = 1)
    BY <1>9, <1>14 DEF InPlace
  <2>8. CASE task' = Idle
    <3>1. ~task.switch /\ promised' = [promised EXCEPT ![task.id] = task.val] /\ Chosen = new
      <4>1. \A pc \in Steps \ {"idle"} : Goto(pc) => task' # Idle
        <5>1. \A pc \in Steps : Goto(pc) => task'.pc = pc
          BY <1>2, GotoIs
        <5> QED BY <5>1 DEF Idle
      <4>2. ~Goto("delete") /\ ~Goto("ready") /\ ~Goto("header")
        BY <4>1, <2>8 DEF Steps
      <4> QED BY <4>2, <1>10, <1>14, <2>7
    <3>2. Took /\ \A i \in Items : i = task.id => Lookup(i)' = task.val
      BY <2>6, <3>1
    <3>3. \E i \in Items : /\ i = task.id
                           /\ promised' = [promised EXCEPT ![i] = task.val]
                           /\ Lookup(i)' = task.val
      BY <3>1, <3>2, <1>6
    <3> QED BY <3>2, <3>3, <2>2, <2>8, <1>4, <1>7, Ends
  <2>9. CASE task' # Idle
    <3>1. CallShape'
      BY <2>1, <2>2, <2>9, <1>12 DEF r
    <3>2. Kept \/ Took
      BY <2>4, <2>5, <2>6, <2>7
    <3>3. Moves /\ Copying'
      BY <3>2, <2>9, <1>11 DEF Moves, SameCall, Copying
    <3>4. flash'[new'].idx = r /\ flash'[old'].idx = flash[old].idx
      BY <2>2, <2>9, <1>11 DEF r
    <3>5. IsAdded("valid")'
      BY <3>4, <2>2, <2>3, <2>9, <1>11 DEF IsAdded
    <3>6. task'.pc = "delete" => Chosen' = new' /\ Valid(r, task.del, task.id)
      <4> SUFFICES ASSUME task'.pc = "delete" PROVE Chosen' = new' /\ Valid(r, task.del, task.id)
        OBVIOUS
      <4>1. task.del # 0 /\ ~task.switch
        BY <1>3, <1>11, <2>9
      <4>2. n # 1 /\ task.del \in DOMAIN q /\ task.del # n
        BY <4>1, <1>3, <1>6
      <4>3. Chosen' = new'
        BY <4>1, <4>2, <2>2, <2>7, <2>9, <1>11
      <4>4. r[task.del] = q[task.del]
        BY <4>2, <2>2
      <4> QED BY <4>1, <4>3, <4>4, <1>9, <1>14 DEF Valid
    <3>7. task'.pc = "header" => InPlace'
      <4> SUFFICES ASSUME task'.pc = "header" PROVE InPlace'
        OBVIOUS
      <4>1. ~task.switch
        BY <1>10, <1>11, <2>9
      <4> QED BY <4>1, <1>5, <1>9, <1>14, <1>11, <2>2, <2>9 DEF InPlace, NoSector
    <3>8. Adds'
      BY <3>4, <3>5, <3>6, <3>7, <2>9, <1>11 DEF Adds, Adding
    <3>9. Moved'
      <4> SUFFICES ASSUME task'.pc = "ready"
                   PROVE  /\ Chosen' = old' /\ flash'[old'].flag = "valid"
                          /\ flash'[new'].flag = "idle" /\ Complete'
        BY <2>9, <1>11 DEF Moved
      <4>1. task.switch
        BY <1>11, <2>9
      <4>2. Filling(n) /\ Mirrors(Slots + 1, Slots + 1)
        BY <4>1, <1>9, <1>14
      <4>3. Chosen' = old' /\ flash'[old'].flag = "valid" /\ flash'[new'].flag = "idle"
        BY <4>2, <1>5, <2>2, <2>9, <1>11 DEF Filling
      <4>4. Mirrors(Slots + 1, Slots + 1)'
        BY <4>2, <3>4, <2>3, <2>9, <1>11 DEF Mirrors
      <4>5. Held(new, task.id)' = task'.val
        BY <3>4, <2>3, <2>9, <1>6, <1>11 DEF Held
      <4> QED BY <4>3, <4>4, <4>5 DEF Complete
    <3>10. GoodBattery'
      BY <3>8, <3>9, <2>9, <1>11
         DEF GoodBattery, Erasing, Sorting, Copies, CopyMade, MoveAdds, Adding
    <3> QED BY <3>1, <3>3, <3>10, <2>2, <2>9, <1>4, <1>7, <1>11, Assemble
  <2> QED BY <2>8, <2>9
<1> QED BY <1>13, <1>14

\* The predecessor is deleted, and the call returns.
LEMMA DeleteStep ==
  ASSUME IInv, Delete
  PROVE  IInv' /\ Moves
<1> DEFINE q == flash[new].idx
           r == flash'[new].idx
           n == task.slot
           d == task.del
<1>1. /\ task.pc = "delete" /\ Same /\ weak' = weak /\ full' = full
      /\ IF weak THEN task' = Idle /\ flash' = flash /\ promised' = promised
                 ELSE SetState(new, d, "invalid") /\ Finish
  BY Zenon DEF Delete, At, Same, new
<1>2. FlashOK /\ TaskOK /\ TornLasts /\ CallShape /\ OthersOK
  BY Parts
<1>3. /\ task.id # None /\ ~task.switch /\ d \in 1..n - 1 /\ n <= Len(q)
  BY <1>1, <1>2 DEF CallShape
<1>4. RoomForAll'
  BY <1>1, <1>3, RoomInWrite
<1>5. /\ new \in {0, 1} /\ old \in {0, 1} /\ new # old /\ old = Other(new)
      /\ \A s \in {0, 1} : s = new \/ s = old
  BY <1>2, SectorsIs
<1>6. /\ q \in Seq(Entry) /\ DOMAIN q = 1..Len(q) /\ Len(q) \in 0..Slots
      /\ Slots \in Nat /\ n \in Nat /\ d \in Nat /\ task.id \in Items /\ task.val \in Data
  BY <1>2, <1>3, <1>5, SectorIs, TaskIs, Constants DEF CallShape
<1>7. CASE weak
  <2>1. flash' = flash /\ promised' = promised /\ task' = Idle
    BY <1>1, <1>7
  <2>2. FlashOK' /\ TornLasts' /\ Kept /\ OthersOK'
    BY <2>1, <1>1, <1>2, SameFlash, Others
  <2> QED BY <2>1, <2>2, <1>4, Ends
<1>8. CASE ~weak
  <2>1. IsAdded("valid") /\ Chosen = new /\ Valid(q, d, task.id)
    BY <1>1, <1>3, <1>8, Parts DEF GoodBattery, Adds
  <2>2. n # 1 /\ n >= 1 /\ d \in DOMAIN q /\ n \in DOMAIN q /\ d < n /\ n < Slots + 1
    BY <1>3, <1>6
  <2>3. task' = Idle /\ promised' = [promised EXCEPT ![task.id] = task.val]
    BY <1>1, <1>3, <1>8, <2>2, Zenon DEF Finish, Return
  <2>4. /\ FlashOK' /\ flash'[new].flag = flash[new].flag
        /\ flash'[old] = flash[old]
        /\ Len(r) = Len(q) /\ DOMAIN r = DOMAIN q
        /\ r[d].state = "invalid"
        /\ \A j \in DOMAIN q : j # d => r[j] = q[j]
    <3>1. SetState(new, d, "invalid") /\ "invalid" \in {"torn", "operation", "valid", "invalid"}
      BY <1>1, <1>8
    <3>2. /\ FlashOK' /\ flash'[new].flag = flash[new].flag
          /\ flash'[Other(new)] = flash[Other(new)]
          /\ Len(r) = Len(q) /\ DOMAIN r = DOMAIN q
          /\ r[d] = [id |-> q[d].id, val |-> q[d].val, state |-> "invalid"]
          /\ \A j \in DOMAIN q : j # d => r[j] = q[j]
      <4>1. FlashOK /\ new \in {0, 1} /\ d \in DOMAIN flash[new].idx
        BY <1>2, <1>5, <2>2
      <4> QED BY <3>1, <4>1, SetStateIs, Zenon
    <3> QED BY <3>2, <1>5
  <2>5. \A i \in Items : Value(r, i, Slots + 1) = Value(q, i, Slots + 1)
    <3>1. r \in Seq(Entry) /\ Slots + 1 \in Nat
      BY <2>4, <1>5, <1>6, ReadsNext DEF Reading
    <3>2. q[n].state = "valid" /\ Valid(q, d, q[n].id) /\ r[d].state # "valid"
      BY <2>1, <2>4 DEF IsAdded
    <3>3. q \in Seq(Entry)
      BY <1>6
    <3> HIDE DEF q, r, n, d
    <3> QED BY <3>1, <3>2, <3>3, <2>2, <2>4, ValueDelete
  <2>6. \A s \in {0, 1}, i \in Items : Held(s, i)' = Held(s, i)
    BY <1>5, <2>4, <2>5 DEF Held
  <2>7. Chosen' = Chosen
    BY <1>5, <2>4 DEF Chosen, Usable, NoSector
  <2>8. Kept
    BY <1>2, <2>4, <2>6, <2>7, KeptIf
  <2>9. TornLast(r)
    <3> SUFFICES ASSUME NEW j \in DOMAIN r, r[j].state = "torn" PROVE j = Len(r)
      BY DEF TornLast
    <3>1. j # d /\ q[j].state = "torn"
      BY <2>4
    <3> QED BY <3>1, <1>2, <1>5, <2>4 DEF TornLasts, TornLast
  <2>10. TornLasts'
    BY <1>2, <1>5, <2>4, <2>9 DEF TornLasts
  <2>11. OthersOK'
    <3>1. promised' \in [Items -> Data \cup {None}]
      BY <1>2, <1>6, <2>3 DEF OthersOK
    <3> QED BY <3>1, <1>1, <1>2 DEF OthersOK, Same
  <2>12. ASSUME NEW i \in Items, i = task.id PROVE Lookup(i)' = task.val
    <3>1. Lookup(i)' = Lookup(i)
      BY <2>8 DEF Kept
    <3>2. Lookup(i) = Value(q, i, Slots + 1)
      <4>1. Lookup(i) = Held(Chosen, i)
        BY <1>2, <1>5, <2>1, LookupIs DEF NoSector
      <4> QED BY <4>1, <2>1 DEF Held
    <3>3. Value(q, i, Slots + 1) = task.val
      BY <1>2, <2>1, <2>2, <2>12, AddedHolds
    <3> QED BY <3>1, <3>2, <3>3
  <2>13. \E i \in Items : /\ i = task.id
                          /\ promised' = [promised EXCEPT ![i] = task.val]
                          /\ Lookup(i)' = task.val
    BY <1>6, <2>3, <2>12
  <2> QED BY <2>3, <2>4, <2>8, <2>10, <2>11, <2>13, <1>4, Ends
<1> QED BY <1>7, <1>8

\* The new sector is marked.
LEMMA ReadyStep ==
  ASSUME IInv, Ready
  PROVE  IInv' /\ Moves
<1>1. /\ task.pc = "ready" /\ promised' = promised /\ Same /\ weak' = weak /\ full' = full
      /\ IF ~weak /\ flash[new].flag = "idle"
         THEN SetFlag(new, "ready") /\ Goto("retire")
         ELSE flash' = flash /\ task' = Idle
  BY Zenon DEF Ready, At, Same, new
<1>2. FlashOK /\ TaskOK /\ TornLasts /\ CallShape /\ OthersOK'
  BY <1>1, Parts, Others
<1>3. /\ task.id # None /\ task.val # None /\ promised[task.id] = None /\ ~full
      /\ (task.forced => weak) /\ task.switch
  BY <1>1, <1>2 DEF CallShape, Moving
<1>4. RoomForAll'
  BY <1>1, <1>3, RoomInWrite
<1>5. CASE ~weak /\ flash[new].flag = "idle"
  <2>1. /\ Chosen = old /\ flash[old].flag = "valid" /\ Complete
    BY <1>1, <1>5, Parts DEF GoodBattery, Moved
  <2>2. /\ new \in {0, 1} /\ old \in {0, 1} /\ new # old
        /\ \A s \in {0, 1} : s = new \/ s = old
    BY <1>2, SectorsIs
  <2>3. SetFlag(new, "ready") /\ Goto("retire") /\ "retire" \in Steps
    BY <1>1, <1>5 DEF Steps
  <2>4. /\ FlashOK' /\ TornLasts'
        /\ \A t \in {0, 1} : flash'[t].idx = flash[t].idx
        /\ flash'[new].flag = "ready"
        /\ \A t \in {0, 1} : t # new => flash'[t].flag = flash[t].flag
        /\ \A t \in {0, 1} : \A i : Held(t, i)' = Held(t, i)
        /\ (Chosen' = Chosen => Kept)
    BY <1>2, <2>2, <2>3, FlagOnly
  <2>5. /\ TaskOK' /\ task'.pc = "retire" /\ task'.id = task.id /\ task'.val = task.val
        /\ task'.forced = task.forced /\ task'.switch = task.switch
        /\ new' = new /\ old' = old
    BY <1>2, <2>3, GotoIs DEF new, old
  <2>6. Kept \/ Took
    <3>1. CASE new = 1
      <4>1. Chosen' = old
        BY <2>1, <2>2, <2>4, <3>1, ChosenNext
      <4> QED BY <2>1, <2>4, <4>1
    <3>2. CASE new = 0
      <4>1. Chosen' = 0
        BY <2>4, <3>2, ChosenNext
      <4>2. ASSUME NEW i \in Items
            PROVE  Lookup(i)' = IF i = task.id THEN task.val ELSE Lookup(i)
        <5>1. Lookup(i)' = Held(0, i)
          BY <2>4, <4>1, ReadNext
        <5>2. Lookup(i) = Held(old, i)
          BY <1>2, <2>1, <2>2, LookupIs DEF NoSector
        <5>3. i # task.id => Held(new, i) = Held(old, i)
          BY <2>1 DEF Complete, Mirrors, Held
        <5>4. Held(new, task.id) = task.val
          BY <2>1 DEF Complete
        <5> QED BY <5>1, <5>2, <5>3, <5>4, <3>2
      <4> QED BY <4>2, <1>3 DEF Took
    <3> QED BY <2>2, <3>1, <3>2
  <2>7. CallShape'
    BY <1>1, <1>3, <2>5 DEF CallShape, Moving, Adding
  <2>8. Copying' /\ Moves
    BY <2>5, <2>6 DEF Copying, Moves, SameCall
  <2>9. Complete'
    <3>1. flash'[new'].idx = flash[new].idx /\ flash'[old'].idx = flash[old].idx
      BY <2>2, <2>4, <2>5
    <3> QED BY <2>1, <2>5, <3>1 DEF Complete, Mirrors, Held
  <2>10. GoodBattery'
    <3>1. flash'[new'].flag = "ready" /\ flash'[old'].flag = "valid"
      BY <2>1, <2>2, <2>4, <2>5
    <3> QED BY <3>1, <2>5, <2>9, <1>3
        DEF GoodBattery, Erasing, Sorting, Copies, CopyMade, MoveAdds, Moved, Adds, Adding
  <2> QED BY <2>4, <2>5, <2>7, <2>8, <2>10, <1>1, <1>2, <1>4, Assemble
<1>6. CASE ~(~weak /\ flash[new].flag = "idle")
  <2>1. flash' = flash /\ task' = Idle
    BY <1>1, <1>6
  <2>2. FlashOK' /\ TornLasts' /\ Kept
    BY <1>2, <2>1, SameFlash
  <2> QED BY <2>1, <2>2, <1>1, <1>2, <1>4, Ends
<1> QED BY <1>5, <1>6

\* The old sector is given up.
LEMMA RetireStep ==
  ASSUME IInv, Retire
  PROVE  IInv' /\ Moves
<1>1. /\ task.pc = "retire" /\ promised' = promised /\ Same /\ weak' = weak /\ full' = full
      /\ IF weak THEN flash' = flash /\ task' = Idle
                 ELSE SetFlag(old, "invalid") /\ Goto("enter")
  BY Zenon DEF Retire, At, Same, old, Return
<1>2. FlashOK /\ TaskOK /\ TornLasts /\ CallShape /\ OthersOK'
  BY <1>1, Parts, Others
<1>3. /\ task.id # None /\ task.val # None /\ promised[task.id] = None /\ ~full
      /\ (task.forced => weak) /\ task.switch
  BY <1>1, <1>2 DEF CallShape, Moving
<1>4. RoomForAll'
  BY <1>1, <1>3, RoomInWrite
<1>5. CASE ~weak
  <2>1. flash[new].flag = "ready" /\ flash[old].flag = "valid" /\ Complete
    BY <1>1, <1>5, Parts DEF GoodBattery, Moved
  <2>2. /\ new \in {0, 1} /\ old \in {0, 1} /\ new # old
        /\ \A s \in {0, 1} : s = new \/ s = old
    BY <1>2, SectorsIs
  <2>3. SetFlag(old, "invalid") /\ Goto("enter") /\ "enter" \in Steps
    BY <1>1, <1>5 DEF Steps
  <2>4. /\ FlashOK' /\ TornLasts'
        /\ \A t \in {0, 1} : flash'[t].idx = flash[t].idx
        /\ flash'[old].flag = "invalid"
        /\ \A t \in {0, 1} : t # old => flash'[t].flag = flash[t].flag
        /\ \A t \in {0, 1} : \A i : Held(t, i)' = Held(t, i)
        /\ (Chosen' = Chosen => Kept)
    BY <1>2, <2>2, <2>3, FlagOnly
  <2>5. /\ TaskOK' /\ task'.pc = "enter" /\ task'.id = task.id /\ task'.val = task.val
        /\ task'.forced = task.forced /\ task'.switch = task.switch
        /\ new' = new /\ old' = old
    BY <1>2, <2>3, GotoIs DEF new, old
  <2>6. Chosen' = new
    BY <2>1, <2>2, <2>4, ChosenNext
  <2>7. Kept \/ Took
    <3>1. CASE new = 0
      <4>1. Chosen = 0
        BY <2>1, <3>1 DEF Chosen, Usable
      <4> QED BY <2>4, <2>6, <3>1, <4>1
    <3>2. CASE new = 1
      <4>1. Chosen = old
        BY <2>1, <2>2, <3>2 DEF Chosen, Usable
      <4>2. ASSUME NEW i \in Items
            PROVE  Lookup(i)' = IF i = task.id THEN task.val ELSE Lookup(i)
        <5>1. Lookup(i)' = Held(1, i)
          BY <2>4, <2>6, <3>2, ReadNext
        <5>2. Lookup(i) = Held(old, i)
          BY <1>2, <2>2, <4>1, LookupIs DEF NoSector
        <5>3. i # task.id => Held(new, i) = Held(old, i)
          BY <2>1 DEF Complete, Mirrors, Held
        <5>4. Held(new, task.id) = task.val
          BY <2>1 DEF Complete
        <5> QED BY <5>1, <5>2, <5>3, <5>4, <3>2
      <4> QED BY <4>2, <1>3 DEF Took
    <3> QED BY <2>2, <3>1, <3>2
  <2>8. CallShape'
    BY <1>1, <1>3, <2>5 DEF CallShape, Moving, Adding
  <2>9. Copying' /\ Moves
    BY <2>5, <2>7 DEF Copying, Moves, SameCall
  <2>10. Held(new, task.id)' = task'.val
    <3>1. flash'[new'].idx = flash[new].idx
      BY <2>2, <2>4, <2>5
    <3> QED BY <2>1, <2>5, <3>1 DEF Complete, Held
  <2>11. GoodBattery'
    <3>1. flash'[new'].flag = "ready" /\ Chosen' = new'
      BY <2>1, <2>2, <2>4, <2>5, <2>6
    <3> QED BY <3>1, <2>5, <2>10, <1>3
        DEF GoodBattery, Erasing, Sorting, Copies, CopyMade, MoveAdds, Moved, Adds, Adding
  <2> QED BY <2>4, <2>5, <2>8, <2>9, <2>11, <1>1, <1>2, <1>4, Assemble
<1>6. CASE weak
  <2>1. flash' = flash /\ task' = Idle
    BY <1>1, <1>6
  <2>2. FlashOK' /\ TornLasts' /\ Kept
    BY <1>2, <2>1, SameFlash
  <2> QED BY <2>1, <2>2, <1>1, <1>2, <1>4, Ends
<1> QED BY <1>5, <1>6

\* The new sector is in use.
LEMMA EnterStep ==
  ASSUME IInv, Enter
  PROVE  IInv' /\ Moves
<1>1. /\ task.pc = "enter" /\ Same /\ weak' = weak /\ full' = full
      /\ task' = Idle
      /\ promised' = IF ~weak THEN [promised EXCEPT ![task.id] = task.val] ELSE promised
      /\ IF weak THEN flash' = flash ELSE SetFlag(new, "valid")
  BY Zenon DEF Enter, At, Same, new, Return, Written
<1>2. FlashOK /\ TaskOK /\ TornLasts /\ CallShape /\ OthersOK
  BY Parts
<1>3. task.id \in Items /\ task.val \in Data /\ task.id # None
  BY <1>1, <1>2, TaskIs DEF CallShape
<1>4. RoomForAll'
  BY <1>1, <1>3, RoomInWrite
<1>5. OthersOK'
  <2>1. promised' \in [Items -> Data \cup {None}]
    BY <1>1, <1>2, <1>3 DEF OthersOK
  <2> QED BY <2>1, <1>1, <1>2 DEF OthersOK, Same
<1>6. CASE weak
  <2>1. FlashOK' /\ TornLasts' /\ Kept
    BY <1>1, <1>2, <1>6, SameFlash
  <2> QED BY <2>1, <1>1, <1>4, <1>5, <1>6, Ends
<1>7. CASE ~weak
  <2>1. flash[new].flag = "ready" /\ Chosen = new /\ Held(new, task.id) = task.val
    BY <1>1, <1>7, Parts DEF GoodBattery, Moved
  <2>2. new \in {0, 1} /\ SetFlag(new, "valid")
    BY <1>1, <1>2, <1>7, SectorsIs
  <2>3. /\ FlashOK' /\ TornLasts'
        /\ flash'[new].flag = "valid"
        /\ \A t \in {0, 1} : t # new => flash'[t].flag = flash[t].flag
        /\ \A t \in {0, 1} : \A i : Held(t, i)' = Held(t, i)
        /\ (Chosen' = Chosen => Kept)
    BY <1>2, <2>2, FlagOnly
  <2>4. Chosen' = new
    BY <2>1, <2>2, <2>3, ChosenNow, ChosenNext
  <2>5. \E i \in Items : /\ i = task.id
                         /\ promised' = [promised EXCEPT ![i] = task.val]
                         /\ Lookup(i)' = task.val
    <3>1. ASSUME NEW i \in Items, i = task.id PROVE Lookup(i)' = task.val
      <4>1. PICK s \in {0, 1} : s = new
        BY <2>2
      <4>2. Lookup(i)' = Held(s, i)'
        BY <2>3, <2>4, <4>1, ReadNext
      <4>3. Held(s, i)' = Held(s, i)
        BY <2>3
      <4> QED BY <4>1, <4>2, <4>3, <3>1, <2>1
    <3> QED BY <3>1, <1>1, <1>3, <1>7
  <2>6. Kept
    BY <2>1, <2>3, <2>4
  <2> QED BY <2>3, <2>5, <2>6, <1>1, <1>4, <1>5, Ends
<1> QED BY <1>6, <1>7

\* A formatted sector with its first entry is in use.
LEMMA HeaderStep ==
  ASSUME IInv, Header
  PROVE  IInv' /\ Moves
<1> DEFINE q == flash[new].idx
<1>1. /\ task.pc = "header" /\ Same /\ weak' = weak /\ full' = full
      /\ task' = Idle
      /\ promised' = IF ~weak THEN [promised EXCEPT ![task.id] = task.val] ELSE promised
      /\ IF ~weak /\ flash[new].flag = "idle" THEN SetFlag(new, "valid") ELSE flash' = flash
  BY Zenon DEF Header, At, Same, new, Return
<1>2. FlashOK /\ TaskOK /\ TornLasts /\ CallShape /\ OthersOK
  BY Parts
<1>3. task.id \in Items /\ task.val \in Data /\ task.id # None /\ task.slot = 1 /\ ~task.switch
  BY <1>1, <1>2, TaskIs DEF CallShape
<1>4. RoomForAll'
  BY <1>1, <1>3, RoomInWrite
<1>5. OthersOK'
  <2>1. promised' \in [Items -> Data \cup {None}]
    BY <1>1, <1>2, <1>3 DEF OthersOK
  <2> QED BY <2>1, <1>1, <1>2 DEF OthersOK, Same
<1>6. CASE weak
  <2>1. flash' = flash /\ promised' = promised
    BY <1>1, <1>6
  <2>2. FlashOK' /\ TornLasts' /\ Kept
    BY <1>2, <2>1, SameFlash
  <2> QED BY <2>1, <2>2, <1>1, <1>4, <1>5, Ends
<1>7. CASE ~weak
  <2>1. IsAdded("valid") /\ InPlace
    BY <1>1, <1>3, <1>7, Parts DEF GoodBattery, Adds
  <2>2. /\ new \in {0, 1} /\ old \in {0, 1} /\ new # old
        /\ \A s \in {0, 1} : s = new \/ s = old
    BY <1>2, SectorsIs
  <2>3. \A i \in Items : i = task.id => Held(new, i) = task.val
    BY <1>2, <1>3, <2>1, AddedHolds DEF Held
  <2>4. promised' = [promised EXCEPT ![task.id] = task.val]
    BY <1>1, <1>7
  <2>5. CASE flash[new].flag # "idle"
    <3>1. flash' = flash
      BY <1>1, <2>5
    <3>2. FlashOK' /\ TornLasts' /\ Kept
      BY <1>2, <3>1, SameFlash
    <3>3. Chosen = new
      BY <2>1, <2>5 DEF InPlace
    <3>4. \A i \in Items : i = task.id => Lookup(i)' = task.val
      BY <1>2, <2>2, <2>3, <3>2, <3>3, LookupIs DEF Kept, NoSector
    <3>5. \E i \in Items : /\ i = task.id
                           /\ promised' = [promised EXCEPT ![i] = task.val]
                           /\ Lookup(i)' = task.val
      BY <1>3, <2>4, <3>4
    <3> QED BY <3>2, <3>5, <1>1, <1>4, <1>5, Ends
  <2>6. CASE flash[new].flag = "idle"
    <3>1. SetFlag(new, "valid")
      BY <1>1, <1>7, <2>6
    <3>2. /\ FlashOK' /\ TornLasts'
          /\ flash'[new].flag = "valid"
          /\ \A t \in {0, 1} : \A i : Held(t, i)' = Held(t, i)
      BY <1>2, <2>2, <3>1, FlagOnly
    <3>3. Chosen = NoSector /\ new = 0
      <4>1. Chosen # new
        BY <2>2, <2>6, ChosenNow
      <4> QED BY <4>1, <2>1 DEF InPlace
    <3>4. Chosen' = 0
      BY <3>2, <3>3, ChosenNext
    <3>5. ASSUME NEW i \in Items
          PROVE  Lookup(i)' = IF i = task.id THEN task.val ELSE Lookup(i)
      <4>1. Lookup(i)' = Held(0, i)
        BY <3>2, <3>4, ReadNext
      <4>2. Lookup(i) = None
        BY <1>2, <3>3, LookupIs
      <4>3. i # task.id => Held(new, i) = None
        <5> SUFFICES ASSUME i # task.id PROVE Value(q, i, Slots + 1) = None
          BY DEF Held
        <5>1. Len(q) = 1 /\ q[1].id = task.id
          BY <1>3, <2>1 DEF IsAdded
        <5>2. DOMAIN q = 1..Len(q)
          BY <1>2, <2>2, SectorIs
        <5>3. \A k \in DOMAIN q : k < Slots + 1 => ~Valid(q, k, i)
          BY <5>1, <5>2 DEF Valid
        <5> HIDE DEF q
        <5> QED BY <5>3, ValueNone
      <4> QED BY <4>1, <4>2, <4>3, <2>3, <3>3
    <3>6. Took
      BY <3>5, <1>3 DEF Took
    <3>7. \E i \in Items : /\ i = task.id
                           /\ promised' = [promised EXCEPT ![i] = task.val]
                           /\ Lookup(i)' = task.val
      BY <1>3, <2>4, <3>5
    <3> QED BY <3>2, <3>6, <3>7, <1>1, <1>4, <1>5, Ends
  <2> QED BY <2>5, <2>6
<1> QED BY <1>6, <1>7

\* With a good battery a new entry fits.
LEMMA AppendRoom ==
  ASSUME IInv, task.pc = "append", ~weak
  PROVE  task.slot <= Slots
BY Parts, TaskIs DEF GoodBattery, MoveAdds, Adds

\* The power fails.
LEMMA PowerLossStep ==
  ASSUME IInv, PowerLoss
  PROVE  IInv' /\ Moves
<1>1. /\ task' = Idle /\ weak' = FALSE /\ full' = FALSE /\ promised' = promised
      /\ writes' = writes /\ failures < MaxFailures /\ failures' = failures + 1
      /\ Interrupted
  BY DEF PowerLoss, Fails
<1>2. FlashOK /\ TaskOK /\ TornLasts /\ CallShape /\ OthersOK
  BY Parts
<1>3. OthersOK' /\ RoomForAll'
  <2>1. FALSE \in BOOLEAN /\ failures + 1 \in 0..MaxFailures
    BY <1>1, <1>2, NvAssumption DEF OthersOK
  <2>2. OthersOK'
    BY <2>1, <1>1, <1>2 DEF OthersOK
  <2>3. RoomForAll'
    BY <1>1 DEF RoomForAll
  <2> QED BY <2>2, <2>3
<1>4. /\ new \in {0, 1} /\ old \in {0, 1} /\ new # old
      /\ \A s \in {0, 1} : s = new \/ s = old
  BY <1>2, SectorsIs
<1>5. Slots \in Nat /\ task.slot \in Nat /\ task.at \in Nat
  BY <1>2, TaskIs, Constants
<1>6. FlashOK' /\ TornLasts' /\ Kept
  <2>1. CASE flash' = flash
    BY <2>1, <1>2, SameFlash
  <2>2. CASE task.pc = "append" /\ Fits /\ Appended(task.id, task.val, "torn")
    <3>1. task.slot <= Slots /\ Len(flash[new].idx) = task.slot - 1
      BY <2>2, AppendRoom DEF Fits, new
    <3>2. task.id \in Items /\ task.val \in Data
      BY <2>2, <1>2, TaskIs DEF CallShape
    <3>3. Len(flash[new].idx) < Slots
      BY <3>1, <1>5
    <3> QED BY <2>2, <3>2, <3>3, <1>2, EntryAdded
  <2>3. CASE /\ task.pc = "copy" /\ ToCopy # {} /\ Fits
             /\ LET x == flash[old].idx[Min(ToCopy)] IN Appended(x.id, x.val, "torn")
    <3> DEFINE k == Min(ToCopy)
               x == flash[old].idx[k]
    <3>1. flash[old].flag = "valid"
      BY <2>3, <1>2, SectorsIs DEF ToCopy
    <3>2. k \in DOMAIN flash[old].idx /\ k >= task.at
      BY <2>3, <3>1, <1>2, ToCopyIs
    <3>3. x \in Entry /\ k \in 1..Slots
      BY <3>2, <1>2, <1>4, SectorIs
    <3>4. x.id \in Items /\ x.val \in Data
      BY <3>3 DEF Entry
    <3>5. task.slot <= task.at
      BY <2>3, <1>2 DEF CallShape
    <3>6. Len(flash[new].idx) = task.slot - 1
      BY <2>3 DEF Fits, new
    <3>7. Len(flash[new].idx) < Slots
      <4> HIDE DEF k
      <4> QED BY <3>2, <3>3, <3>5, <3>6, <1>5
    <3>8. Appended(x.id, x.val, "torn")
      BY <2>3
    <3> HIDE DEF x
    <3> QED BY <2>3, <3>4, <3>7, <3>8, <1>2, EntryAdded
  <2>4. CASE /\ task.pc \in {"ready", "header"} /\ flash[new].flag = "idle"
             /\ SetFlag(new, "torn")
    <3>1. /\ FlashOK' /\ TornLasts' /\ flash'[new].flag = "torn"
          /\ \A t \in {0, 1} : t # new => flash'[t].flag = flash[t].flag
          /\ (Chosen' = Chosen => Kept)
      BY <2>4, <1>2, <1>4, FlagOnly
    <3>2. Chosen' = Chosen
      BY <2>4, <3>1, <1>4 DEF Chosen, Usable, NoSector
    <3> QED BY <3>1, <3>2
  <2> QED BY <1>1, <2>1, <2>2, <2>3, <2>4, Zenon DEF Interrupted, At, new, old
<1> QED BY <1>1, <1>3, <1>6, Ends

-----------------------------------------------------------------------------
(***************************************************************************)
(* The invariant and what follows.                                         *)
(***************************************************************************)

\* The invariant holds of the erased flash ...
LEMMA Starts == Init => IInv /\ Register!Init
<1> SUFFICES ASSUME Init PROVE IInv /\ Register!Init
  OBVIOUS
<1>1. /\ flash = [s \in {0, 1} |-> Blank] /\ task = Idle /\ weak = FALSE /\ full = FALSE
      /\ promised = [i \in Items |-> None] /\ writes = 0 /\ failures = 0
  BY DEF Init
<1>2. Blank \in Sector /\ Len(Blank.idx) = 0 /\ Blank.flag = "idle" /\ DOMAIN Blank.idx = {}
  BY DEF Blank, Sector
<1>3. FlashOK /\ TornLasts
  BY <1>1, <1>2, Constants DEF FlashOK, TornLasts, TornLast
<1>4. TaskOK /\ task.pc = "idle" /\ task.id = None /\ task.val = None /\ task.forced = FALSE
      /\ task.switch = FALSE
  <2>1. FALSE \in BOOLEAN /\ "idle" \in Steps /\ 0 \in 0..Slots + 1 /\ 0 \in 0..Slots
    BY Constants DEF Steps
  <2> QED BY <1>1, <2>1 DEF TaskOK, Idle
<1>5. OthersOK
  <2>1. 0 \in 0..MaxWrites /\ 0 \in 0..MaxFailures /\ FALSE \in BOOLEAN
    BY NvAssumption
  <2> QED BY <1>1, <2>1 DEF OthersOK
<1>6. CallShape /\ Copying /\ GoodBattery
  BY <1>1, <1>4
     DEF CallShape, Copying, GoodBattery, Erasing, Sorting, Copies, CopyMade, MoveAdds, Moved,
         Adds, Adding, Moving
<1>7. StoredIsFound /\ RoomForAll
  BY <1>1 DEF StoredIsFound, RoomForAll
<1>8. Chosen = NoSector
  BY <1>1, <1>2 DEF Chosen, Usable
<1>9. Register!Init
  <2>1. \A i \in Items : Lookup(i) = None
    BY <1>3, <1>8, LookupIs
  <2> QED BY <1>4, <2>1 DEF Register!Init
<1> QED BY <1>3, <1>4, <1>5, <1>6, <1>7, <1>9, TypeParts DEF IInv, TornLasts

\* What the invariant says of a register.
RegisterStep == [Register!Next]_<<[i \in Items |-> Lookup(i)],
                                  IF task.id = None THEN None
                                  ELSE [id |-> task.id, val |-> task.val]>>

\* ... is kept where nothing changes ...
LEMMA StutterStep ==
  ASSUME IInv, UNCHANGED vars
  PROVE  IInv'
<1>1. /\ flash' = flash /\ task' = task /\ weak' = weak /\ full' = full
      /\ promised' = promised /\ writes' = writes /\ failures' = failures
  BY DEF vars
<1>2. FlashOK /\ TornLasts /\ OthersOK /\ CallShape /\ Copying /\ TaskOK /\ RoomForAll
      /\ (~weak => GoodBattery)
  BY Parts
<1>3. FlashOK' /\ TornLasts' /\ Kept /\ Chosen' = Chosen
  BY <1>1, <1>2, SameFlash
<1>4. OthersOK' /\ TaskOK'
  BY <1>1, <1>2 DEF OthersOK, TaskOK
<1>5. RoomForAll'
  BY <1>1, <1>3, RoomAsBefore
<1>6. CallShape'
  BY <1>1, <1>2, <1>3 DEF CallShape, NoSector, new
<1>7. /\ \A n : Filling(n)' = Filling(n) /\ InOrder(n)' = InOrder(n)
      /\ Origin' = Origin
      /\ \A m, n : Mirrors(m, n)' = Mirrors(m, n)
      /\ \A x : IsAdded(x)' = IsAdded(x)
      /\ \A s, i : Held(s, i)' = Held(s, i)
  BY <1>1, <1>3 DEF Filling, InOrder, Origin, Mirrors, IsAdded, Held, new, old
<1>8. Complete' = Complete
  BY <1>1, <1>7 DEF Complete, new
<1>9. Copying'
  BY <1>1, <1>2, <1>7 DEF Copying
<1>10. ASSUME ~weak' PROVE GoodBattery'
  <2>1. GoodBattery
    BY <1>1, <1>2, <1>10
  <2>2. Erasing' /\ Sorting' /\ Copies' /\ Moved'
    BY <2>1, <1>1, <1>3, <1>7, <1>8 DEF GoodBattery, Erasing, Sorting, Copies, Moved, new, old
  <2>3. CopyMade'
    BY <2>1, <1>1, <1>7 DEF GoodBattery, CopyMade, new, old
  <2>4. MoveAdds' /\ Adds'
    BY <2>1, <1>1, <1>3, <1>7 DEF GoodBattery, MoveAdds, Adds, InPlace, Valid, new, old
  <2> QED BY <2>2, <2>3, <2>4 DEF GoodBattery
<1>11. Moves
  BY <1>1, <1>3 DEF Moves, SameCall
<1> QED BY <1>1, <1>3, <1>4, <1>5, <1>6, <1>9, <1>10, <1>11, Assemble

\* ... and by every step, and every step is one of the register or none.
LEMMA Keeps == IInv /\ [Next]_vars => IInv' /\ RegisterStep
<1> SUFFICES ASSUME IInv, [Next]_vars PROVE IInv' /\ RegisterStep
  OBVIOUS
<1>1. CASE Next
  <2>1. IInv' /\ Moves
    BY <1>1, WriteStep, ReadStep, SelectStep, AdoptStep, FormatStep, EraseStep, DedupeStep,
       CopyStep, CopiedStep, CopyEndsStep, AppendNewStep, ValidateStep, DeleteStep, ReadyStep,
       RetireStep, EnterStep, HeaderStep, BrokenOffStep, PowerLossStep, BatteryLowStep,
       BatteryRecoversStep, Zenon
       DEF Next, Step
  <2> QED BY <2>1, Parts, MovesRegister DEF RegisterStep
<1>2. CASE UNCHANGED vars
  <2>1. IInv'
    BY <1>2, StutterStep
  <2>2. flash' = flash /\ task' = task
    BY <1>2, Zenon DEF vars
  <2>3. \A i : Lookup(i)' = Lookup(i)
    BY <2>2, Zenon DEF Lookup, Chosen, Usable, Newest, ValidAt
  <2>4. RegisterStep
    BY <2>2, <2>3, Zenon DEF RegisterStep
  <2> QED BY <2>1, <2>4
<1> QED BY <1>1, <1>2

\* The invariant holds throughout.
THEOREM Invariance == Spec => []IInv
BY Starts, Keeps, PTL DEF Spec

\* The state of the calls and of the flash is well-formed.
THEOREM Types == Spec => []TypeOK
<1>1. IInv => TypeOK
  BY DEF IInv
<1> QED BY <1>1, Invariance, PTL

\* What was stored is found, after any interruption and any switch of sectors.
THEOREM StoredFound == Spec => []StoredIsFound
<1>1. IInv => StoredIsFound
  BY DEF IInv
<1> QED BY <1>1, Invariance, PTL

\* A write fails for want of space only where duplicates have been left.
THEOREM RoomLeft == Spec => []RoomForAll
<1>1. IInv => RoomForAll
  BY DEF IInv
<1> QED BY <1>1, Invariance, PTL

\* The storage implements one register for every item.
THEOREM Registers == Spec => IsRegister
<1>1. Spec => Register!Init /\ [][RegisterStep]_vars
  BY Starts, Keeps, Invariance, PTL DEF Spec
<1> QED BY <1>1, Starts, Keeps, Invariance, PTL DEF IsRegister, Register!Spec, Spec, RegisterStep
=============================================================================
