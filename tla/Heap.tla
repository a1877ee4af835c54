-------------------------------- MODULE Heap -------------------------------
(***************************************************************************)
(* The binary heap of heap.c, which orders timers by a deadline that wraps *)
(* around.  heap_insert and heap_remove run without interruption; here one *)
(* step is one iteration of a bubbling loop, and phase says which loop the *)
(* operation is in.                                                        *)
(*                                                                         *)
(* Slots of v beyond h->size are never read before heap_insert writes them *)
(* and are kept at Empty.                                                  *)
(***************************************************************************)
EXTENDS Mod32

CONSTANTS
  Nodes,    \* the struct heap_mod32_node objects
  NONE,     \* not a node
  Slack,    \* the additive growth of the array: 16 in the code
  MaxSize   \* bound on the number of entries

ASSUME HeapAssumption ==
  /\ NONE \notin Nodes
  /\ Slack \in Nat /\ Slack >= 2
  /\ MaxSize \in Nat

HEAP_INVALID == 0
HEAP_HEAD == 1

Slots == 1..MaxSize
Empty == [value |-> 0, node |-> NONE]

VARIABLES
  v,         \* h->v
  size,      \* h->size
  cap,       \* h->cap
  index,     \* the index field of each node
  phase,     \* "idle", or in the loop of heap_bubble_"up" or heap_bubble_"down"
  pos,       \* that loop's current position
  leaving,   \* the node heap_remove is moving to the top, or NONE
  base       \* the earliest deadline the timers of this moment can have

vars == <<v, size, cap, index, phase, pos, leaving, base>>

-----------------------------------------------------------------------------
\* The deadlines that can be pending together: less than half the range apart.
Window == {x \in Values : Minus(x, base) < Half}

-----------------------------------------------------------------------------
Init ==
  /\ v = [i \in Slots |-> Empty]
  /\ size = 0
  /\ cap = 0
  /\ index = [n \in Nodes |-> HEAP_INVALID]
  /\ phase = "idle"
  /\ pos = HEAP_HEAD
  /\ leaving = NONE
  /\ base \in Values

heap_parent(i) == i \div 2
heap_left(i) == 2 * i

\* Fault: one of the two back pointers is not written.
heap_swapOneIndex(a, b) ==
  /\ v' = [v EXCEPT ![a] = v[b], ![b] = v[a]]
  /\ index' = [index EXCEPT ![v[a].node] = b]

\* heap_swap of slots a and b, with the back pointers of their nodes.
heap_swap(a, b) ==
  /\ v' = [v EXCEPT ![a] = v[b], ![b] = v[a]]
  /\ index' = [index EXCEPT ![v[a].node] = b, ![v[b].node] = a]

Queued(n) == \E i \in 1..size : v[i].node = n

\* Fault: slot 0, which is not used, is not counted.
CapForLate(idx) == IF size >= cap THEN 2 * cap + Slack ELSE cap

\* The array is grown when the slot idx is outside it.
CapFor(idx) == IF idx >= cap THEN 2 * cap + Slack ELSE cap

\* heap_insert up to its bubbling, for a node that is not in the heap: the
\* array grows when it is full, and the entry goes to its end.
HeapInsert(n, value) ==
  LET idx == HEAP_HEAD + size IN
  /\ phase = "idle"
  /\ size < MaxSize
  /\ ~Queued(n)
  /\ cap' = CapFor(idx)
  /\ size' = size + 1
  /\ index' = [index EXCEPT ![n] = idx]
  /\ v' = [v EXCEPT ![idx] = [value |-> value, node |-> n]]
  /\ phase' = "up"
  /\ pos' = idx
  /\ UNCHANGED <<leaving, base>>

\* The continue case of the loop of heap_bubble_up.
BubbleUp ==
  LET parent == heap_parent(pos) IN
  /\ phase = "up"
  /\ parent # 0 /\ Less(v[pos].value, v[parent].value)
  /\ heap_swap(pos, parent)
  /\ pos' = parent
  /\ UNCHANGED <<size, cap, phase, leaving, base>>

UpIsDone ==
  /\ phase = "up"
  /\ heap_parent(pos) # 0 => ~Less(v[pos].value, v[heap_parent(pos)].value)

\* heap_insert returns after its heap_bubble_up.
InsertDone ==
  /\ UpIsDone
  /\ leaving = NONE
  /\ phase' = "idle"
  /\ UNCHANGED <<v, size, cap, index, pos, leaving, base>>

\* The end of heap_remove: the last entry overwrites the head and starts to
\* bubble down.
MoveLastToHead ==
  /\ v' = [v EXCEPT ![HEAP_HEAD] = v[size], ![size] = Empty]
  /\ index' = [index EXCEPT ![v[size].node] = HEAP_HEAD]
  /\ size' = size - 1
  /\ phase' = "down"
  /\ pos' = HEAP_HEAD
  /\ leaving' = NONE
  /\ UNCHANGED <<cap, base>>

\* heap_remove(h, i) of the last slot.  The node's index is left as it is.
RemoveLast(i) ==
  /\ phase = "idle"
  /\ i = HEAP_HEAD + size - 1 /\ size > 0
  /\ size' = size - 1
  /\ v' = [v EXCEPT ![i] = Empty]
  /\ UNCHANGED <<cap, index, phase, pos, leaving, base>>

\* heap_remove(h, HEAP_HEAD) of a heap with other entries.
RemoveHead ==
  /\ phase = "idle"
  /\ size > 1
  /\ MoveLastToHead

\* Fault: an entry with the head's own value does not pass it.
ValueOfHead == v[HEAP_HEAD].value

\* A value that passes the head's.
ValueBeforeHead == Minus(v[HEAP_HEAD].value, 1)

\* heap_remove(h, i) of a slot in the middle: a value below the head's sends
\* the entry to the top.
RemoveMiddle(i) ==
  /\ phase = "idle"
  /\ i # HEAP_HEAD /\ i < HEAP_HEAD + size - 1
  /\ v' = [v EXCEPT ![i].value = ValueBeforeHead]
  /\ leaving' = v[i].node
  /\ phase' = "up"
  /\ pos' = i
  /\ UNCHANGED <<size, cap, index, base>>

\* heap_remove after the heap_bubble_up of a slot in the middle.
RemoveReachedTop ==
  /\ UpIsDone
  /\ leaving # NONE
  /\ MoveLastToHead

\* Fault: the slot after the last one is looked at, too.
SmallerChildPastEnd ==
  LET left == heap_left(pos)
      right == left + 1
  IN IF right <= size + 1 /\ Less(v[right].value, v[left].value) THEN right ELSE left

\* The child that heap_bubble_down compares with the parent.
SmallerChild ==
  LET left == heap_left(pos)
      right == left + 1
  IN IF right <= size /\ Less(v[right].value, v[left].value) THEN right ELSE left

DownIsDone ==
  /\ phase = "down"
  /\ heap_left(pos) <= size => ~Less(v[SmallerChild].value, v[pos].value)

\* The continue case of the loop of heap_bubble_down.
BubbleDown ==
  /\ phase = "down" /\ ~DownIsDone
  /\ heap_swap(SmallerChild, pos)
  /\ pos' = SmallerChild
  /\ UNCHANGED <<size, cap, phase, leaving, base>>

\* heap_remove returns after its heap_bubble_down.
RemoveDone ==
  /\ DownIsDone
  /\ phase' = "idle"
  /\ UNCHANGED <<v, size, cap, index, pos, leaving, base>>

\* Time passes: no timer is pending at the earliest deadline any more, and one
\* further away can be set.
Advance ==
  /\ phase = "idle"
  /\ \A i \in 1..size : v[i].value # base
  /\ base' = Plus(base, 1)
  /\ UNCHANGED <<v, size, cap, index, phase, pos, leaving>>

Next ==
  \/ \E n \in Nodes, value \in Window : HeapInsert(n, value)
  \/ BubbleUp
  \/ InsertDone
  \/ \E i \in Slots : RemoveLast(i)
  \/ RemoveHead
  \/ \E i \in Slots : RemoveMiddle(i)
  \/ RemoveReachedTop
  \/ BubbleDown
  \/ RemoveDone
  \/ Advance

Spec == Init /\ [][Next]_vars

-----------------------------------------------------------------------------
(* Properties.                                                             *)

Used == 1..size

\* Every variable has a value of its type in heap.h; the array slots in use
\* hold nodes, and the loops stay inside them as heap_swap asserts.
TypeOK ==
  /\ v \in [Slots -> [value : Values, node : Nodes \cup {NONE}]]
  /\ size \in 0..MaxSize
  /\ cap \in Nat
  /\ index \in [Nodes -> 0..MaxSize]
  /\ phase \in {"idle", "up", "down"}
  /\ pos \in Nat /\ pos >= 1
  /\ phase # "idle" => pos \in Used
  /\ leaving \in Nodes \cup {NONE}
  /\ base \in Values
  /\ \A i \in Used : v[i].node \in Nodes

\* The back pointer of every node in the heap is the slot it is in, also while
\* entries move: ev_stop removes a timer by it.
IndexAgrees == \A i \in Used : index[v[i].node] = i

\* The slots in use lie inside the allocated array: v[size] is its last one.
InBounds == size > 0 => HEAP_HEAD + size - 1 < cap

\* Between operations no entry is earlier than the head, the only entry that
\* next_timeout and ev_step_timers look at.
HeadIsEarliest ==
  phase = "idle" => \A i \in Used : ~Less(v[i].value, v[HEAP_HEAD].value)

(***************************************************************************)
(* The inductive invariant: how far the array is from being a heap while   *)
(* an entry bubbles.  Within the window the wrapping order is the order of *)
(* the distances from base; the value that sends an entry to the top may   *)
(* lie just before base.                                                   *)
(***************************************************************************)
Key(x) == IF x = Minus(base, 1) THEN -1 ELSE Minus(x, base)

K(i) == Key(v[i].value)

InOrder(i) == K(heap_parent(i)) <= K(i)

\* Only the entry at pos can be earlier than its parent (up) or later than its
\* children (down), and those children are no earlier than its parent.
LoopOrder ==
  /\ phase = "idle" => \A i \in 2..size : InOrder(i)
  /\ phase = "up" => \A i \in 2..size : i # pos => InOrder(i)
  /\ phase = "down" => \A i \in 2..size : heap_parent(i) # pos => InOrder(i)
  /\ phase # "idle" /\ pos > 1 =>
       \A i \in 2..size : heap_parent(i) = pos => K(heap_parent(pos)) <= K(i)

\* The deadlines are less than half the range apart.
InWindow == \A i \in Used : v[i].node # leaving => v[i].value \in Window

\* The entry that is being removed is the one that bubbles up, and it is
\* earlier than all others.
LeavingFirst ==
  leaving # NONE =>
    /\ phase = "up"
    /\ size > 1
    /\ v[pos].node = leaving
    /\ \A i \in Used \ {pos} : K(pos) < K(i)

Inv ==
  /\ TypeOK
  /\ IndexAgrees
  /\ InBounds
  /\ LoopOrder
  /\ InWindow
  /\ LeavingFirst

\* The entries of the heap; one on its way to the top to be dropped is gone.
Queue == {v[i] : i \in {j \in Used : v[j].node # leaving}}

Timers == INSTANCE TimerQueue WITH queue <- Queue

\* Bubbling loses, duplicates and alters no entry, and heap_remove drops the
\* entry it was asked to and no other one.
ImplementsTimerQueue == Timers!Spec

=============================================================================
