------------------------------ MODULE NvStore ------------------------------
(***************************************************************************)
(* The non-volatile storage of one module of items                         *)
(* (src/tl_zigbee_sdk/proj/drivers/drv_nv.c).  Two flash sectors hold an   *)
(* index each; an entry is appended and then validated, its predecessor is *)
(* invalidated afterwards, and a full sector is copied into the other one. *)
(* nv_flashWriteNew is one action per write or erasure of the flash, so    *)
(* that the power can fail between any two of them, or in one that writes  *)
(* several fields.                                                         *)
(*                                                                         *)
(* Flash operations that write one byte or one half word (the state of an  *)
(* entry, the flag of a sector) and the erasure of a sector take place or  *)
(* not.  With a low battery nothing is written (drv_flash.c).              *)
(***************************************************************************)
EXTENDS Integers, Sequences, FiniteSets, FiniteSetsExt

CONSTANTS
  Items,        \* the items of the module
  Data,         \* the values they are given
  None,         \* no item, no value
  Slots,        \* MODULE_IDX_NUM: entries in the index of a sector
  MaxWrites,    \* bound: writes
  MaxFailures   \* bound: times the power fails or the battery gets low

ASSUME NvAssumption ==
  /\ IsFiniteSet(Items)
  /\ None \notin Items \cup Data \cup [id : Items, val : Data]
  /\ Slots \in Nat /\ Slots > Cardinality(Items)
  /\ MaxWrites \in Nat /\ MaxFailures \in Nat

VARIABLES
  flash,     \* the two sectors: flag and index
  task,      \* the call under way and its locals
  weak,      \* drv_get_adc_data() < BATTERY_SAFETY_THRESHOLD
  full,      \* the last write ended with NV_NOT_ENOUGH_SAPCE
  promised,  \* history: what the last write of an item stored when it returned NV_SUCC
  writes, failures

vars == <<flash, task, weak, full, promised, writes, failures>>

\* State of an entry: "torn" is one whose index was written in part.
Entry  == [id : Items, val : Data, state : {"torn", "operation", "valid", "invalid"}]
Sector == [flag : {"idle", "torn", "ready", "valid", "invalid"}, idx : Seq(Entry)]

Blank == [flag |-> "idle", idx |-> <<>>]

Idle == [pc |-> "idle", id |-> None, val |-> None, forced |-> FALSE, switch |-> FALSE,
         sect |-> 0, at |-> 0, slot |-> 0, del |-> 0]

Steps == {"idle", "select", "adopt", "format", "erase", "dedupe", "copy", "copied",
          "append", "validate", "delete", "ready", "retire", "enter", "header"}

TypeOK ==
  /\ flash \in [{0, 1} -> Sector]
  /\ \A s \in {0, 1} : Len(flash[s].idx) <= Slots
  /\ task \in [pc : Steps, id : Items \cup {None}, val : Data \cup {None},
               forced : BOOLEAN, switch : BOOLEAN, sect : {0, 1},
               at : 0..Slots + 1, slot : 0..Slots + 1, del : 0..Slots]
  /\ weak \in BOOLEAN /\ full \in BOOLEAN
  /\ promised \in [Items -> Data \cup {None}]
  /\ writes \in 0..MaxWrites /\ failures \in 0..MaxFailures

-----------------------------------------------------------------------------
\* What nv_sector_read finds: sector 0 is looked at first.
Usable(s) == flash[s].flag \in {"ready", "valid"}
NoSector  == 2
Chosen    == IF Usable(0) THEN 0 ELSE IF Usable(1) THEN 1 ELSE NoSector

Other(s) == 1 - s

\* nv_index_read: the valid entries of an item, and the one that counts.
ValidAt(s, i) == {k \in DOMAIN flash[s].idx : flash[s].idx[k].state = "valid" /\ flash[s].idx[k].id = i}

\* Mutant: the index is searched from its beginning.
Newest_First(s, i) == IF ValidAt(s, i) = {} THEN 0 ELSE Min(ValidAt(s, i))

Newest(s, i) == IF ValidAt(s, i) = {} THEN 0 ELSE Max(ValidAt(s, i))

\* What nv_flashReadNew returns for item i.
Lookup(i) == IF Chosen = NoSector \/ Newest(Chosen, i) = 0 THEN None
             ELSE flash[Chosen].idx[Newest(Chosen, i)].val

\* Valid entries that a later one of the same item replaces.
Duplicates(s) == {k \in DOMAIN flash[s].idx :
                    LET x == flash[s].idx[k] IN x.state = "valid" /\ k < Newest(s, x.id)}

\* Entries up to the first one with a wrong offset.
Readable(s) == {k \in DOMAIN flash[s].idx : \A l \in 1..k : flash[s].idx[l].state # "torn"}

Init ==
  /\ flash = [s \in {0, 1} |-> Blank]
  /\ task = Idle
  /\ weak = FALSE
  /\ full = FALSE
  /\ promised = [i \in Items |-> None]
  /\ writes = 0
  /\ failures = 0

Goto(pc) == task' = [task EXCEPT !.pc = pc]
At(pc)   == task.pc = pc

\* The call returns; stored: with NV_SUCC.
Return(stored) ==
  /\ task' = Idle
  /\ promised' = IF stored /\ ~weak THEN [promised EXCEPT ![task.id] = task.val] ELSE promised

SetFlag(s, f)     == flash' = [flash EXCEPT ![s].flag = f]
SetState(s, k, x) == flash' = [flash EXCEPT ![s].idx[k].state = x]

\* Nothing is written with a low battery.
Written(change) == IF weak THEN UNCHANGED flash ELSE change

Same == UNCHANGED <<weak, full, writes, failures>>

-----------------------------------------------------------------------------
\* nv_flashWriteNew is called.
Write(i, v) ==
  /\ At("idle")
  /\ writes < MaxWrites
  /\ writes' = writes + 1
  /\ task' = [Idle EXCEPT !.pc = "select", !.id = i, !.val = v]
  /\ full' = FALSE
  /\ promised' = [promised EXCEPT ![i] = None]
  /\ UNCHANGED <<flash, weak, failures>>

\* nv_flashReadNew is called, as all modules are restored at the start.
Read ==
  /\ At("idle")
  /\ Chosen # NoSector
  /\ flash[Chosen].flag = "ready"
  /\ Goto("select")
  /\ UNCHANGED <<flash, promised>> /\ Same

\* Mutant: the last entry is overlooked.
Room_OffByOne == Slots + 1

\* Where a sector is full.
Room == Slots

\* The slot for a new entry of sector s: the first that is free, or, if there is
\* none or the last entry is not in order, in the other sector.
Place(s) ==
  LET used == Len(flash'[s].idx)
  IN  IF task.id = None THEN task' = Idle
      ELSE IF task.forced \/ used = Room \/ (used > 0 /\ flash'[s].idx[used].state = "torn")
      THEN task' = [task EXCEPT !.pc = "erase", !.switch = TRUE, !.sect = Other(s), !.slot = 1]
      ELSE task' = [task EXCEPT !.pc = "append", !.switch = FALSE, !.sect = s, !.slot = used + 1]

\* nv_sector_read.  A sector that was ready when the power failed is adopted: the
\* other one is invalidated first.
Select ==
  /\ At("select")
  /\ CASE Chosen = NoSector ->
            (IF task.id = None THEN task' = Idle ELSE Goto("format")) /\ UNCHANGED flash
       [] Chosen # NoSector /\ flash[Chosen].flag = "valid" ->
            UNCHANGED flash /\ Place(Chosen)
       [] OTHER ->
            IF weak THEN UNCHANGED flash /\ Place(Chosen)
            ELSE /\ SetFlag(Other(Chosen), "invalid")
                 /\ task' = [task EXCEPT !.pc = "adopt", !.sect = Chosen]
  /\ UNCHANGED promised /\ Same

Adopt ==
  /\ At("adopt")
  /\ Written(SetFlag(task.sect, "valid"))
  /\ Place(task.sect)
  /\ UNCHANGED promised /\ Same

\* No sector is valid.
Format ==
  /\ At("format")
  /\ Written(flash' = [flash EXCEPT ![0] = Blank])
  /\ Place(0)
  /\ UNCHANGED promised /\ Same

Erase ==
  /\ At("erase")
  /\ Written(flash' = [flash EXCEPT ![task.sect] = Blank])
  /\ Goto("dedupe")
  /\ UNCHANGED promised /\ Same

\* nv_exceptionDataHandler: entries left by an interrupted write are deleted, if
\* there is a buffer for the search.
Dedupe ==
  LET old == Other(task.sect)
  IN  /\ At("dedupe")
      /\ \/ /\ Duplicates(old) # {} /\ ~weak
            /\ SetState(old, Max(Duplicates(old)), "invalid")
            /\ UNCHANGED task
         \/ /\ task' = [task EXCEPT !.pc = "copy", !.at = 1]
            /\ UNCHANGED flash
      /\ UNCHANGED promised /\ Same

\* Mutant: deleted entries are copied as well.
ToCopy_Deleted == {k \in Readable(Other(task.sect)) :
                     /\ flash[Other(task.sect)].flag = "valid"
                     /\ k >= task.at
                     /\ flash[Other(task.sect)].idx[k].id # task.id}

\* The entries still to be copied.
ToCopy == {k \in Readable(Other(task.sect)) :
             /\ flash[Other(task.sect)].flag = "valid"
             /\ k >= task.at
             /\ flash[Other(task.sect)].idx[k].state = "valid"
             /\ flash[Other(task.sect)].idx[k].id # task.id}

\* nv_write_item begins: an entry at task.slot of the sector, then its content and
\* header.  It needs an entry in order before it and a blank slot.
Fits == /\ ~weak
        /\ Len(flash[task.sect].idx) = task.slot - 1
        /\ task.slot > 1 => flash[task.sect].idx[task.slot - 1].state # "torn"

Appended(i, v, x) ==
  flash' = [flash EXCEPT ![task.sect].idx = Append(@, [id |-> i, val |-> v, state |-> x])]

\* An item is copied into the new sector.
Copy ==
  /\ At("copy") /\ ToCopy # {}
  /\ LET k == Min(ToCopy)  x == flash[Other(task.sect)].idx[k]
     IN  IF Fits
         THEN /\ Appended(x.id, x.val, "operation")
              /\ task' = [task EXCEPT !.pc = "copied", !.at = k + 1]
         ELSE /\ task' = [task EXCEPT !.pc = "append", !.slot = task.slot + 1]
              /\ UNCHANGED flash
  /\ UNCHANGED promised /\ Same

\* Its state is written last; the result is not looked at.
Copied ==
  /\ At("copied")
  /\ Written(SetState(task.sect, task.slot, "valid"))
  /\ task' = [task EXCEPT !.pc = "copy", !.slot = @ + 1]
  /\ UNCHANGED promised /\ Same

CopyEnds ==
  /\ At("copy") /\ ToCopy = {}
  /\ IF task.slot > Slots THEN full' = TRUE /\ task' = Idle
                          ELSE full' = full /\ Goto("append")
  /\ UNCHANGED <<flash, weak, promised, writes, failures>>

\* The new entry.  If its index cannot be written the call is repeated once in the
\* other sector.
AppendNew ==
  LET old == Newest(task.sect, task.id)
  IN  /\ At("append")
      /\ IF Fits
         THEN /\ Appended(task.id, task.val, "operation")
              /\ task' = [task EXCEPT !.pc = "validate", !.del = old]
         ELSE /\ task' = IF task.forced THEN Idle
                         ELSE [Idle EXCEPT !.pc = "select", !.id = task.id, !.val = task.val,
                                           !.forced = TRUE]
              /\ UNCHANGED flash
      /\ UNCHANGED promised /\ Same

\* The battery gets low while the content or header of an entry is written: the call fails.
BrokenOff ==
  /\ task.pc \in {"copied", "validate"}
  /\ ~weak /\ failures < MaxFailures
  /\ weak' = TRUE
  /\ failures' = failures + 1
  /\ task' = Idle
  /\ UNCHANGED <<flash, full, promised, writes>>

\* Mutant: the old sector is given up before the new one is marked.
Handover_Retires == "retire"

\* The first step of the change of sectors.
Handover == "ready"

\* After the predecessor has been dealt with.
Finish ==
  IF task.switch THEN Goto(Handover) /\ UNCHANGED promised
  ELSE IF task.slot = 1 THEN Goto("header") /\ UNCHANGED promised
  ELSE Return(TRUE)

\* The state of the new entry; the result is not looked at.
Validate ==
  /\ At("validate")
  /\ Written(SetState(task.sect, task.slot, "valid"))
  /\ IF task.del # 0 THEN Goto("delete") /\ UNCHANGED promised ELSE Finish
  /\ Same

\* The predecessor.
Delete ==
  /\ At("delete")
  /\ IF weak THEN task' = Idle /\ UNCHANGED <<flash, promised>>
             ELSE SetState(task.sect, task.del, "invalid") /\ Finish
  /\ Same

\* The flags of the sectors: the new one ready ...
Ready ==
  /\ At("ready")
  /\ IF ~weak /\ flash[task.sect].flag = "idle"
     THEN SetFlag(task.sect, "ready") /\ Goto("retire")
     ELSE UNCHANGED flash /\ task' = Idle
  /\ UNCHANGED promised /\ Same

\* ... the old one invalid ...
Retire ==
  /\ At("retire")
  /\ IF weak THEN UNCHANGED flash /\ Return(TRUE)
             ELSE SetFlag(Other(task.sect), "invalid") /\ Goto("enter") /\ UNCHANGED promised
  /\ Same

\* ... and the new one valid.
Enter ==
  /\ At("enter")
  /\ Written(SetFlag(task.sect, "valid"))
  /\ Return(TRUE)
  /\ Same

\* The first entry of a sector that was formatted.
Header ==
  /\ At("header")
  /\ IF ~weak /\ flash[task.sect].flag = "idle" THEN SetFlag(task.sect, "valid") ELSE UNCHANGED flash
  /\ Return(TRUE)
  /\ Same

-----------------------------------------------------------------------------
Fails == failures < MaxFailures /\ failures' = failures + 1

\* What an interrupted operation leaves in the flash.
Interrupted ==
  \/ UNCHANGED flash
  \/ /\ At("append") /\ Fits
     /\ Appended(task.id, task.val, "torn")
  \/ /\ At("copy") /\ ToCopy # {} /\ Fits
     /\ LET x == flash[Other(task.sect)].idx[Min(ToCopy)] IN Appended(x.id, x.val, "torn")
  \/ /\ task.pc \in {"ready", "header"} /\ ~weak /\ flash[task.sect].flag = "idle"
     /\ SetFlag(task.sect, "torn")

\* The power fails.
PowerLoss ==
  /\ Fails
  /\ Interrupted
  /\ task' = Idle
  /\ weak' = FALSE
  /\ full' = FALSE
  /\ UNCHANGED <<promised, writes>>

BatteryLow ==
  /\ ~weak
  /\ Fails
  /\ weak' = TRUE
  /\ UNCHANGED <<flash, task, full, promised, writes>>

\* The voltage is measured for each operation.  Within one call it may fall, but it
\* does not rise again: a dip for the one operation that validates an entry would be
\* overlooked (drv_nv.c:390) and its predecessor deleted.
BatteryRecovers ==
  /\ weak /\ At("idle")
  /\ weak' = FALSE
  /\ UNCHANGED <<flash, task, full, promised, writes, failures>>

Step ==
  \/ Select \/ Adopt \/ Format \/ Erase \/ Dedupe \/ Copy \/ Copied \/ CopyEnds
  \/ AppendNew \/ Validate \/ Delete \/ Ready \/ Retire \/ Enter \/ Header

Next ==
  \/ \E i \in Items, v \in Data : Write(i, v)
  \/ Read
  \/ Step
  \/ BrokenOff \/ PowerLoss \/ BatteryLow \/ BatteryRecovers

Spec == Init /\ [][Next]_vars

-----------------------------------------------------------------------------
(***************************************************************************)
(* Properties.                                                             *)
(***************************************************************************)

\* Every item is a register: whatever is interrupted where, its value is the old
\* or the new one, changes once from the one to the other, and no write changes
\* another item.
Register == INSTANCE NvRegister WITH
  store   <- [i \in Items |-> Lookup(i)],
  writing <- IF task.id = None THEN None ELSE [id |-> task.id, val |-> task.val]

IsRegister == Register!Spec

\* What a write stored that returned NV_SUCC with a good battery is found until the
\* item is written again, after any interruption and any switch of sectors.
StoredIsFound == \A i \in Items : promised[i] # None => Lookup(i) = promised[i]

\* There is room for every item: a write fails for want of space only when no buffer
\* was there to delete what interrupted writes had left.
RoomForAll == full => Chosen # NoSector /\ Duplicates(Chosen) # {}
=============================================================================
