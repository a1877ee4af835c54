----------------------------- MODULE HeapProofs ----------------------------
(***************************************************************************)
(* Theorems about the heap, for every number of entries and every width of *)
(* the values.  The invariant orders entries by Key, their distance from   *)
(* the earliest possible deadline; the first lemmas say that this is what  *)
(* the wrapping comparison of heap_less computes.                          *)
(***************************************************************************)
EXTENDS Heap, Mod32Proofs, TLAPS

USE HeapAssumption, HalfAssumption DEF HEAP_HEAD, HEAP_INVALID

\* heap_less agrees with the order of the keys, also for the value that is one
\* below the earliest deadline.
LEMMA LessIsKeyOrder ==
  ASSUME base \in Values, NEW a \in Values, NEW b \in Window,
         a \in Window \/ Key(a) = -1
  PROVE  Less(a, b) <=> Key(a) < Key(b)
BY DEF Values, Window, Key, Less, Minus

\* A deadline of the window has a key below half the range, and only it has.
LEMMA KeyRange ==
  ASSUME base \in Values, NEW a \in Values
  PROVE  /\ Key(a) \in Int /\ Key(a) >= -1
         /\ a \in Window <=> Key(a) \in 0..(Half - 1)
BY DEF Values, Window, Key, Less, Minus

\* The key of the value with which heap_remove sends an entry to the top.
LEMMA KeyBefore ==
  ASSUME base \in Values, NEW a \in Window
  PROVE  /\ Minus(a, 1) \in Values
         /\ Key(Minus(a, 1)) = Key(a) - 1
BY DEF Values, Window, Key, Less, Minus

\* When base moves on, no deadline that is still ahead leaves the window.
LEMMA KeyAdvance ==
  ASSUME base \in Values, base' = Plus(base, 1), NEW a \in Window, a # base
  PROVE  /\ base' \in Values
         /\ a \in Window'
         /\ Key(a)' = Key(a) - 1
BY DEF Values, Window, Key, Less, Minus, Plus

\* Parents and children in the array.
LEMMA Parents ==
  /\ \A i \in Nat : i >= 2 => /\ heap_parent(i) \in Nat
                              /\ heap_parent(i) >= 1
                              /\ heap_parent(i) < i
  /\ \A i \in Nat : i = 1 => heap_parent(i) = 0
  /\ \A i, j \in Nat : (i >= 2 /\ j >= 1) =>
        (heap_parent(i) = j <=> (i = heap_left(j) \/ i = heap_left(j) + 1))
BY DEF heap_parent, heap_left

-----------------------------------------------------------------------------
(* The entries of a state that satisfies the invariant.                    *)

\* A slot whose node is not leaving holds a deadline of the window, and only
\* the slot at pos can hold the node that is leaving.
LEMMA Keys ==
  ASSUME Inv
  PROVE  /\ \A i \in Used : /\ i \in Slots
                            /\ v[i].value \in Values
                            /\ v[i].node \in Nodes
                            /\ index[v[i].node] = i
                            /\ K(i) \in Int
         /\ \A i \in Used : v[i].node # leaving =>
              v[i].value \in Window /\ K(i) \in 0..(Half - 1)
         /\ \A i \in Used : i # pos => v[i].node # leaving
<1>1. \A i \in Used : /\ i \in Slots
                      /\ v[i].value \in Values
                      /\ v[i].node \in Nodes
                      /\ index[v[i].node] = i
  BY DEF Inv, TypeOK, IndexAgrees, Used, Slots
<1>2. \A i \in Used : K(i) \in Int
  BY <1>1, KeyRange DEF K, Inv, TypeOK
<1>3. \A i \in Used : v[i].node # leaving =>
        v[i].value \in Window /\ K(i) \in 0..(Half - 1)
  BY <1>1, KeyRange DEF K, Inv, TypeOK, InWindow
<1>4. \A i \in Used : i # pos => v[i].node # leaving
  <2> SUFFICES ASSUME NEW i \in Used, i # pos
               PROVE  v[i].node # leaving
    OBVIOUS
  <2>1. CASE leaving = NONE
    BY <1>1, <2>1
  <2>2. CASE leaving # NONE
    <3>1. pos \in Used /\ v[pos].node = leaving
      BY <2>2 DEF Inv, TypeOK, LeavingFirst
    <3> QED BY <1>1, <3>1
  <2> QED BY <2>1, <2>2
<1> QED BY <1>1, <1>2, <1>3, <1>4

\* On the entries of the heap, heap_less compares the keys.
LEMMA LessOnSlots ==
  ASSUME Inv, NEW i \in Used, NEW j \in Used, j # i, i = pos \/ j # pos
  PROVE  Less(v[i].value, v[j].value) <=> K(i) < K(j)
<1>1. v[i].value \in Values /\ v[i].node \in Nodes /\ K(i) \in Int
  BY Keys
<1>2. CASE i = pos
  <2>1. v[j].value \in Window /\ K(j) \in 0..(Half - 1)
    BY <1>2, Keys
  <2>2. v[i].value \in Window \/ K(i) = -1
    <3>1. CASE v[i].node # leaving
      BY <3>1, Keys
    <3>2. CASE v[i].node = leaving
      <4>1. K(i) < K(j)
        BY <1>1, <1>2, <3>2 DEF Inv, LeavingFirst
      <4> QED BY <1>1, <2>1, <4>1, KeyRange DEF K, Inv, TypeOK
    <3> QED BY <3>1, <3>2
  <2> QED BY <1>1, <2>1, <2>2, LessIsKeyOrder DEF K, Inv, TypeOK
<1>3. CASE i # pos
  BY <1>1, <1>3, Keys, LessIsKeyOrder DEF K, Inv, TypeOK
<1> QED BY <1>2, <1>3

\* The same when no entry is on its way out.
LEMMA LessInWindow ==
  ASSUME Inv, leaving = NONE, NEW i \in Used, NEW j \in Used
  PROVE  Less(v[i].value, v[j].value) <=> K(i) < K(j)
<1>1. v[i].value \in Window /\ v[j].value \in Window /\ v[i].value \in Values
  BY Keys
<1> QED BY <1>1, LessIsKeyOrder DEF K, Inv, TypeOK

\* The child that heap_bubble_down picks is no later than either child.
LEMMA SmallerChildIsLeast ==
  ASSUME Inv, leaving = NONE, pos \in Used,
         NEW c, c = SmallerChild,
         NEW i \in 2..size, heap_parent(i) = pos
  PROVE  K(c) <= K(i)
<1> DEFINE left == heap_left(pos)
<1>1. /\ size \in Nat /\ pos \in Nat /\ pos >= 1 /\ i \in Used
      /\ left \in Nat /\ left >= 2 /\ (i = left \/ i = left + 1)
  BY Parents DEF Inv, TypeOK, Used, heap_left
<1>2. left \in Used
  BY <1>1 DEF Used
<1>3. CASE left + 1 <= size
  <2>1. left + 1 \in Used
    BY <1>1, <1>3 DEF Used
  <2>2. K(left) \in Int /\ K(left + 1) \in Int
    BY <1>2, <2>1, Keys
  <2>3. Less(v[left + 1].value, v[left].value) <=> K(left + 1) < K(left)
    BY <1>2, <2>1, LessInWindow
  <2>4. c = IF Less(v[left + 1].value, v[left].value) THEN left + 1 ELSE left
    BY <1>3 DEF SmallerChild
  <2> QED BY <1>1, <2>2, <2>3, <2>4
<1>4. CASE ~(left + 1 <= size)
  <2>1. c = left /\ i = left
    BY <1>1, <1>4 DEF SmallerChild
  <2>2. K(left) \in Int
    BY <1>2, Keys
  <2> QED BY <2>1, <2>2
<1> QED BY <1>3, <1>4

\* In a heap the first entry is the least: the least slot with an entry less
\* than the first one would have a parent that is one, too.
LEMMA HeadFirst ==
  ASSUME Inv, phase = "idle", NEW j \in Used
  PROVE  K(1) <= K(j)
<1> DEFINE S == {i \in Used : K(i) < K(1)}
<1>1. /\ size \in Nat /\ 1 \in Used /\ S \in SUBSET Nat
      /\ \A i \in Used : K(i) \in Int
      /\ \A i \in 2..size : InOrder(i)
  BY Keys DEF Inv, TypeOK, LoopOrder, Used
<1>2. S = {}
  <2> SUFFICES ASSUME S # {}
               PROVE  FALSE
    OBVIOUS
  <2>1. PICK m \in S : \A n \in S : m <= n
    BY <1>1, LeastNatural
  <2>2. /\ m \in Used /\ K(m) < K(1) /\ m \in 2..size
        /\ heap_parent(m) \in Used /\ heap_parent(m) < m
    <3>1. m \in Used /\ K(m) < K(1)
      OBVIOUS
    <3>2. m # 1
      BY <1>1, <3>1
    <3>3. m \in 2..size
      BY <1>1, <3>1, <3>2 DEF Used
    <3> QED BY <1>1, <3>1, <3>3, Parents DEF Used
  <2>3. K(heap_parent(m)) <= K(m)
    BY <1>1, <2>2 DEF InOrder
  <2>4. heap_parent(m) \in S
    <3>1. /\ K(heap_parent(m)) \in Int /\ K(m) \in Int /\ K(1) \in Int
      BY <1>1, <2>2
    <3>2. K(heap_parent(m)) < K(1)
      BY <2>2, <2>3, <3>1
    <3> QED BY <2>2, <3>2
  <2>5. m <= heap_parent(m) /\ m \in Nat /\ heap_parent(m) \in Nat
    BY <1>1, <2>1, <2>2, <2>4
  <2> QED BY <2>2, <2>5
<1>3. ~(K(j) < K(1))
  BY <1>2
<1> QED BY <1>1, <1>3

\* A swap of two slots exchanges their entries and keeps the back pointers
\* right.
LEMMA SwapStep ==
  ASSUME Inv, NEW a \in Used, NEW b \in Used, a # b, heap_swap(a, b),
         UNCHANGED <<size, cap, leaving, base>>
  PROVE  /\ v' \in [Slots -> [value : Values, node : Nodes \cup {NONE}]]
         /\ index' \in [Nodes -> 0..MaxSize]
         /\ \A i \in Used : v'[i] = v[IF i = a THEN b ELSE IF i = b THEN a ELSE i]
         /\ K(a)' = K(b) /\ K(b)' = K(a)
         /\ \A i \in Used : i # a /\ i # b => K(i)' = K(i)
         /\ IndexAgrees'
         /\ InWindow'
<1>1. /\ a \in Slots /\ b \in Slots /\ Used' = Used
      /\ \A i \in Used : i \in Slots
      /\ v \in [Slots -> [value : Values, node : Nodes \cup {NONE}]]
      /\ index \in [Nodes -> 0..MaxSize]
      /\ Slots \subseteq 0..MaxSize
  BY DEF Inv, TypeOK, Used, Slots
<1>2. \A i \in Used : v[i].node \in Nodes /\ index[v[i].node] = i
  BY Keys
<1>3. v' \in [Slots -> [value : Values, node : Nodes \cup {NONE}]]
  BY <1>1 DEF heap_swap
<1>4. index' \in [Nodes -> 0..MaxSize]
  BY <1>1, <1>2 DEF heap_swap
<1>5. \A i \in Used : v'[i] = v[IF i = a THEN b ELSE IF i = b THEN a ELSE i]
  BY <1>1 DEF heap_swap
<1>6. \A i \in Used : K(i)' = K(IF i = a THEN b ELSE IF i = b THEN a ELSE i)
  BY <1>5 DEF K, Key
<1>7. IndexAgrees'
  BY <1>1, <1>2, <1>5 DEF IndexAgrees, heap_swap
<1>8. InWindow'
  BY <1>1, <1>5 DEF InWindow, Window, Inv
<1> QED BY <1>3, <1>4, <1>5, <1>6, <1>7, <1>8

-----------------------------------------------------------------------------
(* One lemma per operation or loop step.                                   *)

LEMMA EmptyEntry == Empty \in [value : Values, node : Nodes \cup {NONE}]
BY DEF Empty, Values

LEMMA InitInv == Init => Inv
BY DEF Init, Inv, TypeOK, IndexAgrees, InBounds, LoopOrder, InWindow,
       LeavingFirst, Used, Slots, Values, Empty

LEMMA InsertInv ==
  ASSUME Inv, NEW n \in Nodes, NEW value \in Window, HeapInsert(n, value)
  PROVE  Inv'
<1> DEFINE idx == HEAP_HEAD + size
<1>1. /\ size \in Nat /\ idx \in Slots /\ idx = size + 1 /\ size' = idx
      /\ Used' = Used \cup {idx} /\ idx \notin Used
      /\ value \in Values /\ base' = base /\ pos' = idx /\ phase' = "up"
      /\ leaving' = leaving
  BY DEF Inv, TypeOK, HeapInsert, CapFor, Slots, Used, Window
<1>2. leaving = NONE
  BY DEF Inv, LeavingFirst, HeapInsert
<1>3. /\ v'[idx] = [value |-> value, node |-> n]
      /\ \A i \in Used : v'[i] = v[i]
      /\ v' \in [Slots -> [value : Values, node : Nodes \cup {NONE}]]
  BY <1>1, Keys DEF HeapInsert, CapFor, Inv, TypeOK
<1>4. \A i \in Used : v[i].node \in Nodes \ {n} /\ index[v[i].node] = i
  BY Keys DEF HeapInsert, Queued, Used
<1>5. TypeOK'
  <2>1. index' \in [Nodes -> 0..MaxSize]
    BY <1>1 DEF HeapInsert, CapFor, Inv, TypeOK, Slots
  <2>2. cap' \in Nat
    BY DEF HeapInsert, CapFor, Inv, TypeOK
  <2>3. size' \in 0..MaxSize
    BY <1>1 DEF Slots
  <2>4. \A i \in Used' : v'[i].node \in Nodes
    BY <1>1, <1>3, <1>4
  <2> QED BY <1>1, <1>2, <1>3, <2>1, <2>2, <2>3, <2>4 DEF TypeOK, Inv
<1>6. IndexAgrees'
  BY <1>1, <1>3, <1>4 DEF IndexAgrees, HeapInsert, Inv, TypeOK
<1>7. InBounds'
  BY <1>1 DEF InBounds, HeapInsert, CapFor, Inv, TypeOK
<1>8. \A i \in Used : K(i)' = K(i)
  BY <1>1, <1>3 DEF K, Key
<1>9. LoopOrder'
  <2>1. \A i \in 2..size : heap_parent(i) \in Used
    BY <1>1, Parents DEF Used
  <2>2. \A i \in 2..size' : i # pos' => InOrder(i)'
    <3> SUFFICES ASSUME NEW i \in 2..size', i # pos'
                 PROVE  InOrder(i)'
      OBVIOUS
    <3>1. i \in 2..size /\ i \in Used
      BY <1>1 DEF Used
    <3>2. InOrder(i)
      BY <3>1 DEF Inv, LoopOrder, HeapInsert
    <3>3. heap_parent(i)' = heap_parent(i)
      BY DEF heap_parent
    <3> QED BY <1>8, <2>1, <3>1, <3>2, <3>3 DEF InOrder
  <2>3. \A i \in 2..size' : heap_parent(i) # pos'
    BY <1>1, Parents
  <2>4. \A i \in 2..size' : heap_parent(i)' = heap_parent(i)
    BY DEF heap_parent
  <2> QED BY <1>1, <2>2, <2>3, <2>4 DEF LoopOrder
<1>10. InWindow'
  BY <1>1, <1>2, <1>3, Keys DEF InWindow, Window
<1>11. LeavingFirst'
  BY <1>1, <1>2 DEF LeavingFirst
<1> QED BY <1>5, <1>6, <1>7, <1>9, <1>10, <1>11 DEF Inv

LEMMA BubbleUpInv ==
  ASSUME Inv, BubbleUp
  PROVE  Inv'
<1>0. PICK p, parent : p = pos /\ parent = heap_parent(pos)
  OBVIOUS
<1>1. /\ p \in Used /\ p \in 2..size /\ parent \in Used /\ parent < p
      /\ parent >= 1 /\ size \in Nat /\ parent = heap_parent(p)
  BY <1>0, Parents DEF Inv, TypeOK, BubbleUp, Used
<1>2. /\ pos = p /\ heap_swap(p, parent) /\ pos' = parent /\ phase' = phase
      /\ phase = "up" /\ size' = size /\ Used' = Used /\ base' = base
      /\ leaving' = leaving /\ cap' = cap
  BY <1>0 DEF BubbleUp, Used
<1>3. /\ v' \in [Slots -> [value : Values, node : Nodes \cup {NONE}]]
      /\ index' \in [Nodes -> 0..MaxSize]
      /\ \A i \in Used : v'[i] = v[IF i = p THEN parent
                                   ELSE IF i = parent THEN p ELSE i]
      /\ K(p)' = K(parent) /\ K(parent)' = K(p)
      /\ \A i \in Used : i # p /\ i # parent => K(i)' = K(i)
      /\ IndexAgrees'
      /\ InWindow'
  BY <1>1, <1>2, SwapStep
<1>4. K(p) < K(parent)
  BY <1>0, <1>1, LessOnSlots DEF BubbleUp
<1>5. \A i \in Used : v[i].node \in Nodes /\ K(i) \in Int
  BY Keys
<1>6. TypeOK'
  BY <1>1, <1>2, <1>3, <1>5 DEF TypeOK, Inv
<1>7. InBounds'
  BY <1>2 DEF InBounds, Inv
<1>8. \A i \in 2..size : /\ i \in Used /\ heap_parent(i) \in Used
                         /\ heap_parent(i) # i
                         /\ heap_parent(i)' = heap_parent(i)
  BY <1>1, Parents DEF Used, heap_parent
<1>9. \A i \in 2..size : i # p => K(heap_parent(i)) <= K(i)
  BY <1>2 DEF Inv, LoopOrder, InOrder
<1>10. \A i \in 2..size : heap_parent(i) = p => K(parent) <= K(i)
  BY <1>1, <1>2 DEF Inv, LoopOrder
<1>11. \A i \in 2..size : i # parent => K(heap_parent(i))' <= K(i)'
  <2> SUFFICES ASSUME NEW i \in 2..size, i # parent
               PROVE  K(heap_parent(i))' <= K(i)'
    OBVIOUS
  <2>1. CASE i = p
    BY <1>1, <1>3, <1>4, <1>5, <2>1
  <2>2. CASE i # p /\ heap_parent(i) = p
    BY <1>3, <1>8, <1>10, <2>2
  <2>3. CASE i # p /\ heap_parent(i) = parent
    BY <1>1, <1>3, <1>4, <1>5, <1>8, <1>9, <2>3
  <2>4. CASE i # p /\ heap_parent(i) # p /\ heap_parent(i) # parent
    BY <1>3, <1>8, <1>9, <2>4
  <2> QED BY <2>1, <2>2, <2>3, <2>4
<1>12. ASSUME parent > 1, NEW i \in 2..size, heap_parent(i) = parent
       PROVE  K(heap_parent(parent))' <= K(i)'
  <2>1. parent \in 2..size /\ parent # p
    BY <1>1, <1>12 DEF Used
  <2>2. heap_parent(parent) \in Used /\ heap_parent(parent) # parent
        /\ heap_parent(parent) # p
    BY <1>1, <1>12, <2>1, Parents DEF Used
  <2>3. K(heap_parent(parent))' = K(heap_parent(parent))
    BY <1>3, <2>2
  <2>4. K(heap_parent(parent)) <= K(parent)
    BY <1>9, <2>1
  <2>5. K(parent) <= K(i)'
    <3>1. CASE i = p
      BY <1>3, <1>5, <1>1, <3>1
    <3>2. CASE i # p
      BY <1>3, <1>8, <1>9, <1>12, <3>2
    <3> QED BY <3>1, <3>2
  <2>6. K(i)' \in Int
    BY <1>1, <1>3, <1>5, <1>8
  <2>7. K(parent) \in Int /\ K(heap_parent(parent)) \in Int
    BY <1>1, <1>5, <2>2
  <2> QED BY <2>3, <2>4, <2>5, <2>6, <2>7
<1>13. LoopOrder'
  <2>1. /\ heap_parent(parent)' = heap_parent(parent)
        /\ \A i \in 2..size : InOrder(i)' <=> K(heap_parent(i))' <= K(i)'
    BY <1>8 DEF InOrder, heap_parent
  <2> QED BY <1>2, <1>8, <1>11, <1>12, <2>1 DEF LoopOrder
<1>14. LeavingFirst'
  <2> SUFFICES ASSUME leaving # NONE
               PROVE  LeavingFirst'
    BY <1>2 DEF LeavingFirst
  <2>1. /\ size > 1 /\ v[p].node = leaving
        /\ \A i \in Used \ {p} : K(p) < K(i)
    BY <1>2 DEF Inv, LeavingFirst
  <2>2. v'[parent].node = leaving
    BY <1>1, <1>3, <2>1
  <2>3. \A i \in Used \ {parent} : K(parent)' < K(i)'
    BY <1>1, <1>3, <2>1
  <2> QED BY <1>2, <2>1, <2>2, <2>3 DEF LeavingFirst
<1> QED BY <1>3, <1>6, <1>7, <1>13, <1>14 DEF Inv

LEMMA InsertDoneInv ==
  ASSUME Inv, InsertDone
  PROVE  Inv'
<1>1. /\ phase = "up" /\ leaving = NONE /\ phase' = "idle"
      /\ UNCHANGED <<v, size, cap, index, pos, leaving, base>>
  BY DEF InsertDone, UpIsDone
<1>2. ASSUME pos \in 2..size
      PROVE  InOrder(pos)
  <2>1. /\ heap_parent(pos) \in Used /\ pos \in Used /\ heap_parent(pos) # pos
        /\ heap_parent(pos) # 0
    BY <1>2, Parents DEF Inv, TypeOK, Used
  <2>2. ~Less(v[pos].value, v[heap_parent(pos)].value)
    BY <2>1 DEF InsertDone, UpIsDone
  <2>3. ~(K(pos) < K(heap_parent(pos)))
    BY <2>1, <2>2, LessOnSlots
  <2> QED BY <2>1, <2>3, Keys DEF InOrder
<1>3. \A i \in 2..size : InOrder(i)
  BY <1>1, <1>2 DEF Inv, LoopOrder
<1>4. \A i \in 2..size : InOrder(i)'
  BY <1>1, <1>3 DEF InOrder, K, Key, heap_parent
<1>5. LoopOrder'
  BY <1>1, <1>4 DEF LoopOrder
<1> QED
  BY <1>1, <1>5 DEF Inv, TypeOK, IndexAgrees, InBounds, InWindow, Window,
                    LeavingFirst, Used

\* Both ways to the end of heap_remove.
LEMMA MoveLastInv ==
  ASSUME Inv, MoveLastToHead, size > 1, phase = "down" \/ phase = "idle" \/ pos = 1,
         \A i \in 2..size : heap_parent(i) # 1 => InOrder(i),
         leaving # NONE => pos = 1
  PROVE  Inv'
<1>1. /\ size \in Nat /\ size' = size - 1 /\ Used' = 1..(size - 1)
      /\ Used' \subseteq Used /\ size \in Used /\ 1 \in Used /\ size # 1
      /\ base' = base /\ pos' = 1 /\ phase' = "down" /\ leaving' = NONE
      /\ cap' = cap
  BY DEF Inv, TypeOK, MoveLastToHead, Used
<1>2. /\ v'[1] = v[size]
      /\ \A i \in Used' : i # 1 => v'[i] = v[i]
      /\ v' \in [Slots -> [value : Values, node : Nodes \cup {NONE}]]
  <2>1. /\ v \in [Slots -> [value : Values, node : Nodes \cup {NONE}]]
        /\ v' = [v EXCEPT ![1] = v[size], ![size] = Empty]
        /\ 1 \in Slots /\ size \in Slots
        /\ Used' \subseteq Slots /\ size \notin Used'
    BY <1>1, Keys DEF MoveLastToHead, Inv, TypeOK
  <2> QED BY <1>1, <2>1, EmptyEntry
<1>3. \A i \in Used : /\ v[i].node \in Nodes /\ index[v[i].node] = i
                      /\ i \in Slots
  BY Keys
<1>4. TypeOK'
  <2>1. index' \in [Nodes -> 0..MaxSize]
    BY <1>1, <1>3 DEF MoveLastToHead, Inv, TypeOK, Slots
  <2>2. size' \in 0..MaxSize /\ pos' \in Used'
    BY <1>1 DEF Inv, TypeOK
  <2>3. \A i \in Used' : v'[i].node \in Nodes
    BY <1>1, <1>2, <1>3
  <2> QED BY <1>1, <1>2, <2>1, <2>2, <2>3 DEF TypeOK, Inv
<1>5. IndexAgrees'
  BY <1>1, <1>2, <1>3 DEF IndexAgrees, MoveLastToHead, Inv, TypeOK
<1>6. InBounds'
  BY <1>1 DEF InBounds, Inv, TypeOK
<1>7. \A i \in Used' : i # 1 => K(i)' = K(i)
  BY <1>1, <1>2 DEF K, Key
<1>8. \A i \in 2..size' : heap_parent(i) # 1 => InOrder(i)'
  <2> SUFFICES ASSUME NEW i \in 2..size', heap_parent(i) # 1
               PROVE  InOrder(i)'
    OBVIOUS
  <2>1. /\ i \in Used' /\ i # 1 /\ heap_parent(i) \in Used' /\ i \in 2..size
        /\ heap_parent(i)' = heap_parent(i)
    BY <1>1, Parents DEF heap_parent
  <2>2. K(i)' = K(i) /\ K(heap_parent(i))' = K(heap_parent(i))
    BY <1>7, <2>1
  <2> QED BY <2>1, <2>2 DEF InOrder
<1>9. LoopOrder'
  <2>1. \A i \in 2..size' : heap_parent(i)' = heap_parent(i)
    BY DEF heap_parent
  <2> QED BY <1>1, <1>8, <2>1 DEF LoopOrder
<1>10. InWindow'
  <2>1. \A i \in Used : i # 1 => v[i].node # leaving
    BY <1>3, Keys DEF Inv, TypeOK
  <2>2. \A i \in Used' : v'[i].value \in Window
    BY <1>1, <1>2, <2>1, Keys
  <2> QED BY <1>1, <2>2 DEF InWindow, Window
<1>11. LeavingFirst'
  BY <1>1 DEF LeavingFirst
<1> QED BY <1>4, <1>5, <1>6, <1>9, <1>10, <1>11 DEF Inv

LEMMA RemoveHeadInv ==
  ASSUME Inv, RemoveHead
  PROVE  Inv'
<1>1. leaving = NONE /\ phase = "idle" /\ size > 1 /\ MoveLastToHead
  BY DEF Inv, LeavingFirst, RemoveHead
<1>2. \A i \in 2..size : InOrder(i)
  BY <1>1 DEF Inv, LoopOrder
<1> QED BY <1>1, <1>2, MoveLastInv

LEMMA RemoveReachedTopInv ==
  ASSUME Inv, RemoveReachedTop
  PROVE  Inv'
<1>1. /\ phase = "up" /\ leaving # NONE /\ size > 1 /\ MoveLastToHead
      /\ \A i \in Used \ {pos} : K(pos) < K(i)
  BY DEF Inv, LeavingFirst, RemoveReachedTop, UpIsDone
<1>2. pos = 1
  <2> SUFFICES ASSUME pos # 1
               PROVE  FALSE
    OBVIOUS
  <2>1. /\ heap_parent(pos) \in Used /\ pos \in Used /\ heap_parent(pos) # pos
        /\ heap_parent(pos) # 0
    BY <1>1, Parents DEF Inv, TypeOK, Used
  <2>2. ~Less(v[pos].value, v[heap_parent(pos)].value)
    BY <2>1 DEF RemoveReachedTop, UpIsDone
  <2> QED BY <1>1, <2>1, <2>2, LessOnSlots
<1>3. \A i \in 2..size : InOrder(i)
  BY <1>1, <1>2 DEF Inv, LoopOrder
<1> QED BY <1>1, <1>2, <1>3, MoveLastInv

LEMMA RemoveLastInv ==
  ASSUME Inv, NEW i \in Slots, RemoveLast(i)
  PROVE  Inv'
<1>1. /\ size \in Nat /\ i = size /\ size' = size - 1 /\ size >= 1
      /\ Used' \subseteq Used /\ i \notin Used' /\ Used' = 1..(size - 1)
      /\ leaving = NONE /\ phase = "idle"
      /\ UNCHANGED <<cap, index, phase, pos, leaving, base>>
  BY DEF Inv, TypeOK, LeavingFirst, RemoveLast, Used
<1>2. /\ \A j \in Used' : v'[j] = v[j]
      /\ v' \in [Slots -> [value : Values, node : Nodes \cup {NONE}]]
  <2>1. /\ v \in [Slots -> [value : Values, node : Nodes \cup {NONE}]]
        /\ v' = [v EXCEPT ![i] = Empty]
        /\ Used' \subseteq Slots
    BY <1>1, Keys DEF RemoveLast, Inv, TypeOK
  <2> QED BY <1>1, <2>1, EmptyEntry
<1>3. TypeOK'
  <2>1. \A j \in Used' : v'[j].node \in Nodes
    BY <1>1, <1>2, Keys
  <2>2. size' \in 0..MaxSize /\ size \in 0..MaxSize
    BY <1>1 DEF Inv, TypeOK
  <2> QED BY <1>1, <1>2, <2>1, <2>2 DEF Inv, TypeOK
<1>4. \A j \in Used' : K(j)' = K(j)
  BY <1>1, <1>2 DEF K, Key
<1>5. \A j \in 2..size' : InOrder(j)'
  <2> SUFFICES ASSUME NEW j \in 2..size'
               PROVE  InOrder(j)'
    OBVIOUS
  <2>1. /\ j \in Used' /\ heap_parent(j) \in Used' /\ j \in 2..size
        /\ heap_parent(j)' = heap_parent(j)
    BY <1>1, Parents DEF heap_parent
  <2>2. K(j)' = K(j) /\ K(heap_parent(j))' = K(heap_parent(j))
    BY <1>4, <2>1
  <2>3. InOrder(j)
    BY <1>1, <2>1 DEF Inv, LoopOrder
  <2> QED BY <2>1, <2>2, <2>3 DEF InOrder
<1>6. LoopOrder'
  BY <1>1, <1>5 DEF LoopOrder
<1>7. IndexAgrees'
  BY <1>1, <1>2 DEF Inv, IndexAgrees
<1>8. InBounds' /\ LeavingFirst'
  BY <1>1 DEF Inv, TypeOK, LeavingFirst, InBounds
<1>9. InWindow'
  BY <1>1, <1>2 DEF Inv, InWindow, Window
<1> QED BY <1>3, <1>6, <1>7, <1>8, <1>9 DEF Inv

LEMMA RemoveMiddleInv ==
  ASSUME Inv, NEW i \in Slots, RemoveMiddle(i)
  PROVE  Inv'
<1>1. /\ size \in Nat /\ i \in Used /\ i \in 2..size /\ 1 \in Used /\ size > 1
      /\ i # size /\ size' = size /\ Used' = Used /\ pos' = i /\ phase' = "up"
      /\ phase = "idle" /\ leaving = NONE /\ leaving' = v[i].node
      /\ UNCHANGED <<cap, index, base>>
  BY DEF Inv, TypeOK, LeavingFirst, RemoveMiddle, Used, Slots
<1>2. \A j \in Used : /\ v[j].node \in Nodes /\ index[v[j].node] = j
                      /\ v[j].value \in Window /\ K(j) \in 0..(Half - 1)
                      /\ j \in Slots
  BY <1>1, Keys
<1>3. /\ Minus(v[1].value, 1) \in Values
      /\ Key(Minus(v[1].value, 1)) = K(1) - 1
  BY <1>1, <1>2, KeyBefore DEF K, Inv, TypeOK
<1>4. /\ v'[i] = [value |-> Minus(v[1].value, 1), node |-> v[i].node]
      /\ \A j \in Used : j # i => v'[j] = v[j]
      /\ \A j \in Used : v'[j].node = v[j].node
      /\ v' \in [Slots -> [value : Values, node : Nodes \cup {NONE}]]
  <2>1. /\ v \in [Slots -> [value : Values, node : Nodes \cup {NONE}]]
        /\ i \in Slots /\ \A j \in Used : j \in Slots
    BY <1>2 DEF Inv, TypeOK
  <2>2. v' = [v EXCEPT ![i] = [v[i] EXCEPT !.value = Minus(v[1].value, 1)]]
    BY DEF RemoveMiddle, ValueBeforeHead
  <2>3. [v[i] EXCEPT !.value = Minus(v[1].value, 1)]
          = [value |-> Minus(v[1].value, 1), node |-> v[i].node]
    BY <2>1
  <2>4. v' = [v EXCEPT ![i] = [value |-> Minus(v[1].value, 1), node |-> v[i].node]]
    BY <2>2, <2>3
  <2>5. [value |-> Minus(v[1].value, 1), node |-> v[i].node]
          \in [value : Values, node : Nodes \cup {NONE}]
    BY <1>1, <1>2, <1>3
  <2> QED BY <2>1, <2>4, <2>5
<1>5. TypeOK'
  <2>1. leaving' \in Nodes /\ \A j \in Used' : v'[j].node \in Nodes
    BY <1>1, <1>2, <1>4
  <2>2. pos' \in Nat /\ pos' >= 1 /\ pos' \in Used'
    BY <1>1 DEF Used
  <2> QED BY <1>1, <1>4, <2>1, <2>2 DEF Inv, TypeOK
<1>6. IndexAgrees'
  BY <1>1, <1>2, <1>4 DEF IndexAgrees
<1>7. InBounds'
  BY <1>1 DEF Inv, InBounds
<1>8. /\ K(i)' = K(1) - 1
      /\ \A j \in Used : j # i => K(j)' = K(j)
  BY <1>1, <1>3, <1>4 DEF K, Key
<1>9. \A j \in 2..size : InOrder(j)
  BY <1>1 DEF Inv, LoopOrder
<1>10. \A j \in Used : K(1) <= K(j)
  BY <1>1, <1>2, HeadFirst DEF Inv
<1>11. \A j \in 2..size : j # i => InOrder(j)'
  <2> SUFFICES ASSUME NEW j \in 2..size, j # i
               PROVE  InOrder(j)'
    OBVIOUS
  <2>1. /\ j \in Used /\ heap_parent(j) \in Used
        /\ heap_parent(j)' = heap_parent(j)
    BY <1>1, Parents DEF heap_parent, Used
  <2>2. K(j)' = K(j) /\ K(heap_parent(j)) <= K(j)
    BY <1>8, <1>9, <2>1 DEF InOrder
  <2>3. CASE heap_parent(j) = i
    <3>1. K(i)' <= K(j)
      BY <1>1, <1>2, <1>8, <1>10, <2>1
    <3> QED BY <2>1, <2>2, <2>3, <3>1 DEF InOrder
  <2>4. CASE heap_parent(j) # i
    BY <1>8, <2>1, <2>2, <2>4 DEF InOrder
  <2> QED BY <2>3, <2>4
<1>12. \A j \in 2..size : heap_parent(j) = i => K(heap_parent(i))' <= K(j)'
  <2> SUFFICES ASSUME NEW j \in 2..size, heap_parent(j) = i
               PROVE  K(heap_parent(i))' <= K(j)'
    OBVIOUS
  <2>1. /\ j \in Used /\ j # i /\ heap_parent(i) \in Used /\ heap_parent(i) # i
    BY <1>1, Parents DEF Used
  <2>2. /\ K(heap_parent(i))' = K(heap_parent(i)) /\ K(j)' = K(j)
    BY <1>8, <2>1
  <2>3. K(heap_parent(i)) <= K(i) /\ K(i) <= K(j)
    BY <1>1, <1>9 DEF InOrder
  <2>4. K(heap_parent(i)) \in Int /\ K(i) \in Int /\ K(j) \in Int
    BY <1>1, <2>1, Keys
  <2> QED BY <2>2, <2>3, <2>4
<1>13. LoopOrder'
  <2>1. \A j \in 2..size : heap_parent(j)' = heap_parent(j)
    BY DEF heap_parent
  <2>2. heap_parent(i)' = heap_parent(i)
    BY DEF heap_parent
  <2> QED BY <1>1, <1>11, <1>12, <2>1, <2>2 DEF LoopOrder
<1>14. InWindow'
  BY <1>1, <1>2, <1>4 DEF InWindow, Window
<1>15. LeavingFirst'
  <2>1. \A j \in Used \ {i} : K(i)' < K(j)'
    BY <1>1, <1>2, <1>8, <1>10
  <2> QED BY <1>1, <1>4, <2>1 DEF LeavingFirst
<1> QED BY <1>5, <1>6, <1>7, <1>13, <1>14, <1>15 DEF Inv

LEMMA BubbleDownInv ==
  ASSUME Inv, BubbleDown
  PROVE  Inv'
<1>0. PICK p, c : p = pos /\ c = SmallerChild
  OBVIOUS
<1>1. /\ phase = "down" /\ pos = p /\ leaving = NONE /\ size \in Nat
      /\ heap_swap(c, p) /\ pos' = c /\ phase' = phase
      /\ UNCHANGED <<size, cap, leaving, base>> /\ Used' = Used
  BY <1>0 DEF Inv, TypeOK, LeavingFirst, BubbleDown, Used
<1>2. /\ p \in Used /\ c \in Used /\ c \in 2..size /\ heap_parent(c) = p
      /\ c # p
  <2>1. heap_left(p) <= size
    BY <1>0 DEF BubbleDown, DownIsDone
  <2> QED BY <1>0, <1>1, <2>1
          DEF Inv, TypeOK, SmallerChild, heap_left, heap_parent, Used
<1>3. \A i \in Used : v[i].node \in Nodes /\ K(i) \in 0..(Half - 1)
  BY <1>1, Keys
<1>4. K(c) < K(p)
  <2>1. Less(v[c].value, v[p].value)
    BY <1>0 DEF BubbleDown, DownIsDone
  <2> QED BY <1>1, <1>2, <1>3, <2>1, LessInWindow
<1>5. \A i \in 2..size : heap_parent(i) = p => K(c) <= K(i)
  BY <1>0, <1>1, <1>2, SmallerChildIsLeast
<1>6. /\ v' \in [Slots -> [value : Values, node : Nodes \cup {NONE}]]
      /\ index' \in [Nodes -> 0..MaxSize]
      /\ \A i \in Used : v'[i] = v[IF i = c THEN p
                                   ELSE IF i = p THEN c ELSE i]
      /\ K(c)' = K(p) /\ K(p)' = K(c)
      /\ \A i \in Used : i # c /\ i # p => K(i)' = K(i)
      /\ IndexAgrees'
      /\ InWindow'
  BY <1>1, <1>2, SwapStep
<1>7. TypeOK'
  BY <1>1, <1>2, <1>3, <1>6 DEF TypeOK, Inv
<1>8. InBounds'
  BY <1>1 DEF InBounds, Inv
<1>9. \A i \in 2..size : /\ i \in Used /\ heap_parent(i) \in Used
                         /\ heap_parent(i) # i
                         /\ heap_parent(i)' = heap_parent(i)
  BY <1>1, Parents DEF Used, heap_parent
<1>10. \A i \in 2..size : heap_parent(i) # p => K(heap_parent(i)) <= K(i)
  BY <1>1 DEF Inv, LoopOrder, InOrder
<1>11. p > 1 => K(heap_parent(p)) <= K(c)
  BY <1>1, <1>2 DEF Inv, LoopOrder
<1>12. \A i \in 2..size : heap_parent(i) # c => K(heap_parent(i))' <= K(i)'
  <2> SUFFICES ASSUME NEW i \in 2..size, heap_parent(i) # c
               PROVE  K(heap_parent(i))' <= K(i)'
    OBVIOUS
  <2>1. CASE i = c
    BY <1>2, <1>3, <1>4, <1>6, <2>1
  <2>2. CASE i = p
    BY <1>3, <1>6, <1>9, <1>11, <2>2
  <2>3. CASE i # c /\ i # p /\ heap_parent(i) = p
    BY <1>5, <1>6, <1>9, <2>3
  <2>4. CASE i # c /\ i # p /\ heap_parent(i) # p
    BY <1>6, <1>9, <1>10, <2>4
  <2> QED BY <2>1, <2>2, <2>3, <2>4
<1>13. \A i \in 2..size : heap_parent(i) = c => K(heap_parent(c))' <= K(i)'
  <2> SUFFICES ASSUME NEW i \in 2..size, heap_parent(i) = c
               PROVE  K(p)' <= K(i)'
    BY <1>2, <1>9
  <2>1. i # c /\ i # p /\ i \in Used
    BY <1>2, Parents DEF Used
  <2> QED BY <1>2, <1>6, <1>10, <2>1
<1>14. LoopOrder'
  <2>1. /\ heap_parent(c)' = heap_parent(c)
        /\ \A i \in 2..size : InOrder(i)' <=> K(heap_parent(i))' <= K(i)'
    BY <1>9 DEF InOrder, heap_parent
  <2> QED BY <1>1, <1>9, <1>12, <1>13, <2>1 DEF LoopOrder
<1>15. LeavingFirst'
  BY <1>1 DEF LeavingFirst
<1> QED BY <1>6, <1>7, <1>8, <1>14, <1>15 DEF Inv

LEMMA RemoveDoneInv ==
  ASSUME Inv, RemoveDone
  PROVE  Inv'
<1>0. PICK p, c : p = pos /\ c = SmallerChild
  OBVIOUS
<1>1. /\ phase = "down" /\ pos = p /\ leaving = NONE /\ size \in Nat
      /\ phase' = "idle" /\ p \in Used
      /\ UNCHANGED <<v, size, cap, index, pos, leaving, base>>
  BY <1>0 DEF Inv, TypeOK, LeavingFirst, RemoveDone, DownIsDone
<1>2. ASSUME NEW i \in 2..size, heap_parent(i) = p
      PROVE  InOrder(i)
  <2>1. heap_left(p) <= size
    BY <1>1, <1>2 DEF heap_left, heap_parent, Used
  <2>2. /\ c \in Used /\ c \in 2..size /\ c # p /\ i \in Used
    BY <1>0, <1>1, <2>1 DEF SmallerChild, heap_left, Used
  <2>3. ~Less(v[c].value, v[p].value)
    BY <1>0, <2>1 DEF RemoveDone, DownIsDone
  <2>4. ~(K(c) < K(p))
    BY <1>1, <2>2, <2>3, LessInWindow
  <2>5. K(c) <= K(i)
    BY <1>0, <1>1, <1>2, SmallerChildIsLeast
  <2>6. K(c) \in Int /\ K(p) \in Int /\ K(i) \in Int
    BY <1>1, <2>2, Keys
  <2> QED BY <1>2, <2>4, <2>5, <2>6 DEF InOrder
<1>3. \A i \in 2..size : InOrder(i)
  BY <1>1, <1>2 DEF Inv, LoopOrder
<1>4. \A i \in 2..size : InOrder(i)'
  BY <1>1, <1>3 DEF InOrder, K, Key, heap_parent
<1>5. LoopOrder'
  BY <1>1, <1>4 DEF LoopOrder
<1> QED
  BY <1>1, <1>5 DEF Inv, TypeOK, IndexAgrees, InBounds, InWindow, Window,
                    LeavingFirst, Used

LEMMA AdvanceInv ==
  ASSUME Inv, Advance
  PROVE  Inv'
<1>1. /\ phase = "idle" /\ leaving = NONE /\ size \in Nat /\ Used' = Used
      /\ UNCHANGED <<v, size, cap, index, phase, pos, leaving>>
      /\ base' = Plus(base, 1) /\ base \in Values
      /\ \A i \in Used : v[i].value # base
  BY DEF Inv, TypeOK, LeavingFirst, Advance, Used
<1>2. \A i \in Used : v[i].value \in Window /\ K(i) \in Int
  BY <1>1, Keys
<1>3. base' \in Values
  BY <1>1 DEF Plus, Values
<1>4. \A i \in Used : K(i)' = K(i) - 1 /\ v'[i].value \in Window'
  <2> SUFFICES ASSUME NEW i \in Used
               PROVE  K(i)' = K(i) - 1 /\ v'[i].value \in Window'
    OBVIOUS
  <2>1. PICK a : a = v[i].value
    OBVIOUS
  <2>2. a \in Window /\ a # base /\ v'[i].value = a
    BY <1>1, <1>2, <2>1
  <2>3. a \in Window' /\ Key(a)' = Key(a) - 1
    BY <1>1, <2>2, KeyAdvance
  <2>4. K(i)' = Key(a)' /\ K(i) = Key(a)
    BY <2>1, <2>2 DEF K, Key
  <2> QED BY <2>2, <2>3, <2>4
<1>5. LoopOrder'
  <2>1. \A i \in 2..size : InOrder(i)'
    <3> SUFFICES ASSUME NEW i \in 2..size
                 PROVE  InOrder(i)'
      OBVIOUS
    <3>1. /\ i \in Used /\ heap_parent(i) \in Used
          /\ heap_parent(i)' = heap_parent(i)
      BY <1>1, Parents DEF heap_parent, Used
    <3>2. K(heap_parent(i)) <= K(i)
      BY <1>1 DEF Inv, LoopOrder, InOrder
    <3>3. /\ K(i)' = K(i) - 1
          /\ K(heap_parent(i))' = K(heap_parent(i)) - 1
          /\ K(i) \in Int /\ K(heap_parent(i)) \in Int
      BY <1>2, <1>4, <3>1
    <3> QED BY <3>1, <3>2, <3>3 DEF InOrder
  <2> QED BY <1>1, <2>1 DEF LoopOrder
<1>6. TypeOK'
  BY <1>1, <1>3 DEF Inv, TypeOK
<1>7. IndexAgrees' /\ InBounds' /\ LeavingFirst'
  BY <1>1 DEF Inv, IndexAgrees, InBounds, LeavingFirst
<1>8. InWindow'
  BY <1>1, <1>4 DEF InWindow
<1> QED BY <1>5, <1>6, <1>7, <1>8 DEF Inv

-----------------------------------------------------------------------------
LEMMA StepInv ==
  ASSUME Inv, [Next]_vars
  PROVE  Inv'
<1>1. ASSUME NEW n \in Nodes, NEW value \in Window, HeapInsert(n, value)
      PROVE  Inv'
  BY <1>1, InsertInv
<1>2. CASE BubbleUp
  BY <1>2, BubbleUpInv
<1>3. CASE InsertDone
  BY <1>3, InsertDoneInv
<1>4. ASSUME NEW i \in Slots, RemoveLast(i)
      PROVE  Inv'
  BY <1>4, RemoveLastInv
<1>5. CASE RemoveHead
  BY <1>5, RemoveHeadInv
<1>6. ASSUME NEW i \in Slots, RemoveMiddle(i)
      PROVE  Inv'
  BY <1>6, RemoveMiddleInv
<1>7. CASE RemoveReachedTop
  BY <1>7, RemoveReachedTopInv
<1>8. CASE BubbleDown
  BY <1>8, BubbleDownInv
<1>9. CASE RemoveDone
  BY <1>9, RemoveDoneInv
<1>10. CASE Advance
  BY <1>10, AdvanceInv
<1>11. CASE UNCHANGED vars
  BY <1>11 DEF vars, Inv, TypeOK, IndexAgrees, InBounds, LoopOrder, InWindow,
               LeavingFirst, InOrder, K, Key, Window, Used, heap_parent
<1> QED
  BY <1>1, <1>2, <1>3, <1>4, <1>5, <1>6, <1>7, <1>8, <1>9, <1>10, <1>11
     DEF Next

\* The inductive invariant holds throughout.
THEOREM Invariance == Spec => []Inv
<1>1. Init => Inv
  BY InitInv
<1>2. Inv /\ [Next]_vars => Inv'
  BY StepInv
<1> QED BY <1>1, <1>2, PTL DEF Spec

\* The heap's fields keep their types and its loops stay inside the slots in
\* use, which is what heap_swap asserts.
THEOREM TypeCorrect == Spec => []TypeOK
<1>1. Inv => TypeOK
  BY DEF Inv
<1> QED BY <1>1, Invariance, PTL

\* Every node's index is the slot it is in, also between two iterations of a
\* bubbling loop: ev_stop passes it to heap_remove.
THEOREM IndicesAgree == Spec => []IndexAgrees
<1>1. Inv => IndexAgrees
  BY DEF Inv
<1> QED BY <1>1, Invariance, PTL

\* heap_insert grows the array before the slot it writes is outside it.
THEOREM StaysInBounds == Spec => []InBounds
<1>1. Inv => InBounds
  BY DEF Inv
<1> QED BY <1>1, Invariance, PTL

\* Between operations the head is the earliest deadline, for deadlines less
\* than half the range apart and wherever they wrap around.
THEOREM HeadIsFirst == Spec => []HeadIsEarliest
<1>1. Inv => HeadIsEarliest
  <2> SUFFICES ASSUME Inv, phase = "idle", NEW i \in Used
               PROVE  ~Less(v[i].value, v[HEAP_HEAD].value)
    BY DEF HeadIsEarliest
  <2>1. leaving = NONE
    BY DEF Inv, LeavingFirst
  <2>2. 1 \in Used
    BY DEF Used, Inv, TypeOK
  <2>3. K(1) <= K(i) /\ K(1) \in Int /\ K(i) \in Int
    BY <2>2, HeadFirst, Keys
  <2>4. Less(v[i].value, v[1].value) <=> K(i) < K(1)
    BY <2>1, <2>2, LessInWindow
  <2> QED BY <2>3, <2>4
<1> QED BY <1>1, Invariance, PTL

-----------------------------------------------------------------------------
(* The heap implements the queue it promises.                              *)

\* The entries of the queue, and that no two have the same node.
LEMMA QueueEntries ==
  ASSUME Inv
  PROVE  /\ Queue = {v[i] : i \in {j \in Used : v[j].node # leaving}}
         /\ Queue \subseteq Timers!Entries
         /\ \A i, j \in Used : v[i].node = v[j].node => i = j
         /\ \A i \in Used : i \in Slots /\ v[i].node \in Nodes
         /\ leaving = NONE => Queue = {v[i] : i \in Used}
<1>1. \A i \in Used : /\ i \in Slots /\ v[i].value \in Values /\ v[i].node \in Nodes
                      /\ index[v[i].node] = i
  BY Keys
<1>2. \A i \in Used : v[i] \in Timers!Entries
  <2> SUFFICES ASSUME NEW i \in Used PROVE v[i] \in Timers!Entries
    OBVIOUS
  <2>1. v[i] \in [value : Values, node : Nodes \cup {NONE}]
    BY <1>1 DEF Inv, TypeOK
  <2>2. v[i] = [value |-> v[i].value, node |-> v[i].node]
    BY <2>1
  <2> QED BY <1>1, <2>2 DEF Timers!Entries
<1>3. leaving = NONE => {j \in Used : v[j].node # leaving} = Used
  BY <1>1
<1> QED BY <1>1, <1>2, <1>3 DEF Queue

\* heap_insert adds its entry to the queue at once, before it bubbles.
LEMMA InsertRefines ==
  ASSUME Inv, NEW n \in Nodes, NEW value \in Window, HeapInsert(n, value)
  PROVE  Timers!Next
<1> DEFINE e == [value |-> value, node |-> n]
           idx == HEAP_HEAD + size
<1>1. /\ leaving = NONE /\ leaving' = NONE /\ size \in Nat /\ size' = idx
      /\ idx \in Slots /\ v' = [v EXCEPT ![idx] = e]
      /\ \A i \in Used : v[i].node # n
  BY DEF HeapInsert, Queued, Used, Slots, Inv, TypeOK, LeavingFirst
<1>2. /\ Used' = Used \cup {idx} /\ idx \notin Used
       /\ \A i \in Used : i \in Slots
  BY <1>1 DEF Used, Slots
<1>3. \A i \in Used : v'[i] = v[i] /\ i # idx
  BY <1>1, <1>2 DEF Inv, TypeOK
<1>4. v'[idx] = e
  BY <1>1 DEF Inv, TypeOK
<1>5. Queue = {v[i] : i \in Used}
  BY <1>1, QueueEntries
<1>6. Queue' = {v'[i] : i \in Used'}
  <2>1. \A i \in Used : v[i].node \in Nodes
    BY QueueEntries
  <2>2. {i \in Used' : v'[i].node # leaving'} = Used'
    BY <1>1, <1>2, <1>3, <1>4, <2>1
  <2> QED BY <2>2 DEF Queue
<1>7. Queue' = Queue \cup {e}
  BY <1>2, <1>3, <1>4, <1>5, <1>6
<1>8. e \in Timers!Entries
  BY DEF Window, Timers!Entries
<1>9. \A f \in Queue : f.node # e.node
  BY <1>1, <1>5
<1>10. Timers!Insert(e)
  BY <1>7, <1>9 DEF Timers!Insert
<1> QED BY <1>8, <1>10 DEF Timers!Next

\* A swap of two slots does not change the set of entries.
LEMMA SwapKeepsQueue ==
  ASSUME Inv, NEW a \in Used, NEW b \in Used, a # b, heap_swap(a, b),
         UNCHANGED <<size, cap, leaving, base>>
  PROVE  Queue' = Queue
<1> DEFINE sw(i) == IF i = a THEN b ELSE IF i = b THEN a ELSE i
<1>1. Used' = Used /\ leaving' = leaving
  BY DEF Used
<1>2. \A i \in Used : v'[i] = v[sw(i)] /\ sw(i) \in Used /\ sw(sw(i)) = i
  BY SwapStep
<1>3. \A x : x \in Queue' <=> \E i \in Used : v'[i].node # leaving /\ x = v'[i]
  BY <1>1 DEF Queue
<1>4. \A x : x \in Queue <=> \E i \in Used : v[i].node # leaving /\ x = v[i]
  BY DEF Queue
<1> HIDE DEF sw
<1>5. ASSUME NEW x \in Queue' PROVE x \in Queue
  BY <1>2, <1>3, <1>4
<1>6. ASSUME NEW x \in Queue PROVE x \in Queue'
  <2>1. PICK i \in Used : v[i].node # leaving /\ x = v[i]
    BY <1>4
  <2>2. sw(i) \in Used /\ v'[sw(i)] = v[i]
    BY <1>2
  <2> QED BY <1>3, <2>1, <2>2
<1> QED BY <1>5, <1>6

\* Overwriting the head by the last entry drops the head's entry only.
LEMMA MoveLastDropsHead ==
  ASSUME Inv, MoveLastToHead, size > 1
  PROVE  Queue' = {v[i] : i \in 2..size}
<1>1. /\ size \in Nat /\ Used' = 1..(size - 1) /\ leaving' = NONE
      /\ v' = [v EXCEPT ![1] = v[size], ![size] = Empty]
      /\ \A i \in 1..size : i \in Slots
  BY DEF MoveLastToHead, Used, Slots, Inv, TypeOK
<1>2. v'[1] = v[size] /\ \A i \in 2..(size - 1) : v'[i] = v[i]
  <2>1. v \in [Slots -> [value : Values, node : Nodes \cup {NONE}]]
    BY DEF Inv, TypeOK
  <2>2. 1 \in Slots /\ size \in Slots /\ 1 # size
    BY <1>1
  <2> QED BY <1>1, <2>1, <2>2
<1>3. \A i \in 1..size : v[i].node # NONE
  BY DEF Used, Inv, TypeOK
<1>4. \A i \in Used' : v'[i].node # NONE
  <2>1. \A i \in Used' : i = 1 \/ i \in 2..(size - 1)
    BY <1>1
  <2>2. size \in 1..size /\ \A i \in 2..(size - 1) : i \in 1..size
    BY <1>1
  <2> QED BY <1>2, <1>3, <2>1, <2>2
<1>5. {i \in Used' : v'[i].node # leaving'} = Used'
  BY <1>1, <1>4
<1>6. Queue' = {v'[i] : i \in 1..(size - 1)}
  BY <1>1, <1>5 DEF Queue
<1>7. ASSUME NEW x
      PROVE  (\E i \in 1..(size - 1) : x = v'[i]) <=> (\E i \in 2..size : x = v[i])
  <2>1. \A i \in 1..(size - 1) : i = 1 \/ i \in 2..(size - 1)
    BY <1>1
  <2>2. \A i \in 2..size : i = size \/ i \in 2..(size - 1)
    BY <1>1
  <2>3. 1 \in 1..(size - 1) /\ size \in 2..size
    BY <1>1
  <2>4. \A i \in 2..(size - 1) : i \in 1..(size - 1) /\ i \in 2..size
    BY <1>1
  <2> QED BY <1>2, <2>1, <2>2, <2>3, <2>4
<1> QED BY <1>6, <1>7

\* heap_remove of the head drops the head's entry.
LEMMA RemoveHeadRefines ==
  ASSUME Inv, RemoveHead
  PROVE  Timers!Next
<1>1. /\ MoveLastToHead /\ size > 1 /\ leaving = NONE
      /\ size \in Nat /\ Used = 1..size
  BY DEF RemoveHead, Inv, TypeOK, LeavingFirst, Used
<1>2. Queue' = {v[i] : i \in 2..size}
  BY <1>1, MoveLastDropsHead
<1>3. /\ Queue = {v[i] : i \in 1..size} /\ v[1] \in Timers!Entries
      /\ \A i, j \in 1..size : v[i].node = v[j].node => i = j
  BY <1>1, QueueEntries
<1>4. v[1] \in Queue /\ Queue' = Queue \ {v[1]}
  BY <1>1, <1>2, <1>3
<1> QED BY <1>3, <1>4 DEF Timers!Next, Timers!Remove

\* An entry on its way out is gone from the queue since the start of its removal.
LEMMA RemoveReachedTopRefines ==
  ASSUME Inv, RemoveReachedTop
  PROVE  Queue' = Queue
<1>1. /\ MoveLastToHead /\ size > 1 /\ size \in Nat /\ Used = 1..size /\ phase = "up"
      /\ leaving # NONE /\ v[pos].node = leaving /\ pos \in Used
      /\ \A i \in Used \ {pos} : K(pos) < K(i)
  BY DEF RemoveReachedTop, UpIsDone, Inv, TypeOK, LeavingFirst, Used
<1>2. pos = 1
  <2> SUFFICES ASSUME pos # 1 PROVE FALSE
    OBVIOUS
  <2>1. heap_parent(pos) \in Used /\ heap_parent(pos) < pos /\ heap_parent(pos) # 0
    BY <1>1, Parents
  <2>2. Less(v[pos].value, v[heap_parent(pos)].value)
    BY <1>1, <2>1, LessOnSlots
  <2> QED BY <2>1, <2>2 DEF RemoveReachedTop, UpIsDone
<1>3. Queue' = {v[i] : i \in 2..size}
  BY <1>1, MoveLastDropsHead
<1>4. {i \in Used : v[i].node # leaving} = 2..size
  <2>1. \A i \in 1..size : v[i].node = v[1].node => i = 1
    BY <1>1, QueueEntries
  <2> QED BY <1>1, <1>2, <2>1
<1> QED BY <1>3, <1>4 DEF Queue

\* heap_remove of the last slot drops its entry.
LEMMA RemoveLastRefines ==
  ASSUME Inv, NEW i \in Slots, RemoveLast(i)
  PROVE  Timers!Next
<1>1. /\ size \in Nat /\ i = size /\ size >= 1
      /\ Used = 1..size /\ Used' = 1..(size - 1)
      /\ leaving = NONE /\ leaving' = NONE /\ v' = [v EXCEPT ![i] = Empty]
      /\ \A j \in Used : j \in Slots
  BY DEF RemoveLast, Inv, TypeOK, LeavingFirst, Used, Slots
<1>2. \A j \in Used' : v'[j] = v[j] /\ v[j].node # NONE
  BY <1>1 DEF Inv, TypeOK
<1>3. {j \in Used' : v'[j].node # leaving'} = Used'
  BY <1>1, <1>2
<1>4. Queue' = {v[j] : j \in 1..(size - 1)}
  BY <1>1, <1>2, <1>3 DEF Queue
<1>5. /\ Queue = {v[j] : j \in 1..size} /\ v[i] \in Timers!Entries
      /\ \A j, k \in 1..size : v[j].node = v[k].node => j = k
  BY <1>1, QueueEntries
<1>6. v[i] \in Queue /\ Queue' = Queue \ {v[i]}
  BY <1>1, <1>4, <1>5
<1> QED BY <1>5, <1>6 DEF Timers!Next, Timers!Remove

\* heap_remove of another slot drops the entry when it takes its value away.
LEMMA RemoveMiddleRefines ==
  ASSUME Inv, NEW i \in Slots, RemoveMiddle(i)
  PROVE  Timers!Next
<1>1. /\ size \in Nat /\ i \in Used /\ Used' = Used
      /\ leaving = NONE /\ leaving' = v[i].node
      /\ v' = [v EXCEPT ![i].value = ValueBeforeHead]
      /\ \A j \in Used : j \in Slots
  BY DEF RemoveMiddle, Inv, TypeOK, LeavingFirst, Used, Slots
<1>2. \A j \in Used : v'[j].node = v[j].node /\ (j # i => v'[j] = v[j])
  BY <1>1 DEF Inv, TypeOK
<1>3. /\ Queue = {v[j] : j \in Used} /\ v[i] \in Timers!Entries
      /\ \A j, k \in Used : v[j].node = v[k].node => j = k
  BY <1>1, QueueEntries
<1>4. {j \in Used' : v'[j].node # leaving'} = Used \ {i}
  BY <1>1, <1>2, <1>3
<1>5. Queue' = {v'[j] : j \in Used \ {i}}
  BY <1>4 DEF Queue
<1>6. v[i] \in Queue /\ Queue' = Queue \ {v[i]}
  BY <1>1, <1>2, <1>3, <1>5
<1> QED BY <1>3, <1>6 DEF Timers!Next, Timers!Remove

\* Every step of the heap is a step of the queue, or none.
LEMMA StepRefines ==
  ASSUME Inv, [Next]_vars
  PROVE  [Timers!Next]_Queue
<1>1. ASSUME NEW n \in Nodes, NEW value \in Window, HeapInsert(n, value)
      PROVE  Timers!Next
  BY <1>1, InsertRefines
<1>2. ASSUME BubbleUp
      PROVE  Queue' = Queue
  <2>1. pos \in Used /\ heap_parent(pos) \in Used /\ heap_parent(pos) # pos
    BY <1>2, Parents DEF BubbleUp, Inv, TypeOK, Used
  <2> QED BY <1>2, <2>1, SwapKeepsQueue DEF BubbleUp
<1>3. ASSUME BubbleDown
      PROVE  Queue' = Queue
  <2>1. pos \in Used /\ SmallerChild \in Used /\ SmallerChild # pos
    BY <1>3 DEF BubbleDown, DownIsDone, SmallerChild, heap_left, Inv, TypeOK, Used
  <2> QED BY <1>3, <2>1, SwapKeepsQueue DEF BubbleDown
<1>4. ASSUME NEW i \in Slots, RemoveLast(i)
      PROVE  Timers!Next
  BY <1>4, RemoveLastRefines
<1>5. ASSUME RemoveHead
      PROVE  Timers!Next
  BY <1>5, RemoveHeadRefines
<1>6. ASSUME NEW i \in Slots, RemoveMiddle(i)
      PROVE  Timers!Next
  BY <1>6, RemoveMiddleRefines
<1>7. ASSUME RemoveReachedTop
      PROVE  Queue' = Queue
  BY <1>7, RemoveReachedTopRefines
<1>8. ASSUME InsertDone \/ RemoveDone \/ Advance \/ UNCHANGED vars
      PROVE  Queue' = Queue
  BY <1>8 DEF InsertDone, RemoveDone, Advance, vars, Queue, Used
<1> QED
  BY <1>1, <1>2, <1>3, <1>4, <1>5, <1>6, <1>7, <1>8 DEF Next

\* Bubbling neither loses, duplicates nor alters an entry, heap_insert adds one,
\* and heap_remove drops the one that it was asked to and no other: for every
\* number of entries the heap is the queue of TimerQueue, which EvTimers takes
\* it to be.
THEOREM HeapIsQueue == Spec => ImplementsTimerQueue
<1>1. Init => Timers!Init
  BY DEF Init, Timers!Init, Queue, Used
<1>2. Inv /\ [Next]_vars => [Timers!Next]_Queue
  BY StepRefines
<1> QED
  BY <1>1, <1>2, Invariance, PTL DEF Spec, ImplementsTimerQueue, Timers!Spec

=============================================================================
