----------------------------- MODULE TimerQueue ----------------------------
(***************************************************************************)
(* What the heap of timers promises: a set of entries, at most one per     *)
(* node, in which an entry stays, with the deadline it was inserted with,  *)
(* until its own removal.                                                  *)
(***************************************************************************)
CONSTANTS
  Nodes,    \* the nodes that can be inserted
  Values    \* their deadlines

VARIABLE queue

Entries == [value : Values, node : Nodes]

Init == queue = {}

Insert(e) ==
  /\ \A f \in queue : f.node # e.node
  /\ queue' = queue \cup {e}

Remove(e) ==
  /\ e \in queue
  /\ queue' = queue \ {e}

Next ==
  \E e \in Entries : Insert(e) \/ Remove(e)

Spec == Init /\ [][Next]_queue

=============================================================================
