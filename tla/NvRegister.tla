---------------------------- MODULE NvRegister ----------------------------
(***************************************************************************)
(* What the non-volatile storage promises: every item is a register.  A    *)
(* write takes effect at one moment between its start and its end, or not  *)
(* at all if it is broken off; nothing else changes an item.               *)
(***************************************************************************)
CONSTANTS Items, Data, None

VARIABLES
  store,    \* the value of each item, None: not there
  writing   \* the write that is under way: [id, val], or None

Init == store = [i \in Items |-> None] /\ writing = None

Begin == /\ writing = None
         /\ writing' \in [id : Items, val : Data]
         /\ UNCHANGED store

Effect == [store EXCEPT ![writing.id] = writing.val]

Commit == /\ writing # None
          /\ store' = Effect
          /\ UNCHANGED writing

\* Finished, with the last of its steps or after it; failed or interrupted.
End == /\ writing # None
       /\ store' \in {store, Effect}
       /\ writing' = None

Next == Begin \/ Commit \/ End

Spec == Init /\ [][Next]_<<store, writing>>
=============================================================================
