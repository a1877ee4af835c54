---------------------------- MODULE PollerTable ----------------------------
(***************************************************************************)
(* What the hash table of the descriptors promises, and what EvPoll takes  *)
(* e->pollers to be: at most one value per key, which stays until the key  *)
(* is removed.                                                             *)
(***************************************************************************)
CONSTANTS
  Keys,     \* the descriptors
  Values,   \* the pointers stored for them
  NONE      \* no value

VARIABLE table

Init == table = [k \in Keys |-> NONE]

Put(k, val) ==
  /\ table[k] = NONE
  /\ table' = [table EXCEPT ![k] = val]

Remove(k) ==
  /\ table[k] # NONE
  /\ table' = [table EXCEPT ![k] = NONE]

Destroy == table' = [k \in Keys |-> NONE]

Next ==
  \/ \E k \in Keys, val \in Values : Put(k, val)
  \/ \E k \in Keys : Remove(k)
  \/ Destroy

Spec == Init /\ [][Next]_table

=============================================================================
