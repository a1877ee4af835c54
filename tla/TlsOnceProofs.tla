--------------------------- MODULE TlsOnceProofs ---------------------------
(***************************************************************************)
(* Proofs about create_tls_key, for any set of OS threads.                 *)
(*                                                                         *)
(* The argument: only the one exchange that reads 0 lets a thread create   *)
(* the key, the flag never returns to 0, and a thread leaves the loop only *)
(* by reading the 2 that was stored after *pkey had been written.          *)
(***************************************************************************)
EXTENDS TlsOnce, TLAPS

LEMMA InitInv == Init => Inv
BY DEF Init, Inv, TypeOK, Places, KeyIsVisible, OneCreator, Creating, Unclaimed,
       Claimed, Published

\* The compare-and-exchange.
LEMMA StartInv ==
  ASSUME Inv, NEW t \in Threads, Claim(t) \/ \E x \in 0..2 : Lose(t, x)
  PROVE  Inv'
<1> USE DEF Inv, TypeOK, Places, Creating, Go
<1>1. CASE Claim(t)
  <2>1. TypeOK' /\ Unclaimed' /\ Published'
    BY <1>1 DEF Claim, Unclaimed, Published
  <2>2. KeyIsVisible' /\ OneCreator' /\ Claimed'
    BY <1>1 DEF Claim, Unclaimed, KeyIsVisible, OneCreator, Claimed
  <2> QED BY <2>1, <2>2
<1>2. ASSUME NEW x \in 0..2, Lose(t, x)  PROVE Inv'
  <2>1. TypeOK'
    BY <1>2 DEF Lose
  <2>2. Unclaimed' /\ Published' /\ Claimed'
    BY <1>2 DEF Lose, Unclaimed, Published, Claimed
  <2>3. KeyIsVisible' /\ OneCreator'
    BY <1>2 DEF Lose, KeyIsVisible, OneCreator
  <2> QED BY <2>1, <2>2, <2>3
<1> QED BY <1>1, <1>2

\* The steps of the thread that creates the key.
LEMMA CreatorInv ==
  ASSUME Inv, NEW t \in Threads, Create(t) \/ Abort(t) \/ Write(t) \/ Publish(t)
  PROVE  Inv'
<1> USE DEF Inv, TypeOK, Places, Creating, Go
<1>0. once = 1 /\ \A u \in Threads \ {t} : ~Creating(u) /\ pc[u] # "returned"
  BY DEF Create, Abort, Write, Publish, OneCreator, Unclaimed, Published
<1>1. CASE Create(t)
  BY <1>0, <1>1 DEF Create, KeyIsVisible, OneCreator, Unclaimed, Claimed, Published
<1>2. CASE Abort(t)
  BY <1>0, <1>2 DEF Abort, KeyIsVisible, OneCreator, Unclaimed, Claimed, Published
<1>3. CASE Write(t)
  BY <1>0, <1>3 DEF Write, KeyIsVisible, OneCreator, Unclaimed, Claimed, Published
<1>4. CASE Publish(t)
  <2>1. keys = 1 /\ t \in views
    BY <1>0, <1>4 DEF Publish, Claimed
  <2> QED
    BY <1>0, <1>4, <2>1 DEF Publish, KeyIsVisible, OneCreator, Unclaimed, Claimed, Published
<1> QED BY <1>1, <1>2, <1>3, <1>4

\* The loop of the threads that wait, and later calls.
LEMMA WaiterInv ==
  ASSUME Inv, NEW t \in Threads, Spin(t) \/ Leave(t) \/ Again(t)
  PROVE  Inv'
<1> USE DEF Inv, TypeOK, Places, Creating, Go
<1>1. CASE Spin(t)
  BY <1>1 DEF Spin, vars, KeyIsVisible, OneCreator, Unclaimed, Claimed, Published
<1>2. CASE Leave(t)
  BY <1>2 DEF Leave, Synchronise, KeyIsVisible, OneCreator, Unclaimed, Claimed, Published
<1>3. CASE Again(t)
  BY <1>3 DEF Again, KeyIsVisible, OneCreator, Unclaimed, Claimed, Published
<1> QED BY <1>1, <1>2, <1>3

-----------------------------------------------------------------------------
\* What each value of the flag means holds at every step of every thread.
THEOREM Invariance == Spec => []Inv
<1>1. Inv /\ [Next]_vars => Inv'
  <2> SUFFICES ASSUME Inv, [Next]_vars PROVE Inv'
    OBVIOUS
  <2>1. CASE UNCHANGED vars
    BY <2>1 DEF vars, Inv, TypeOK, KeyIsVisible, OneCreator, Creating, Unclaimed,
                Claimed, Published
  <2>2. CASE Next
    BY <2>2, StartInv, CreatorInv, WaiterInv DEF Next
  <2> QED BY <2>1, <2>2
<1> QED
  BY InitInv, <1>1, PTL DEF Spec

\* The flag only goes up, and no thread has seen a value it does not have yet.
THEOREM TypeCorrect == Spec => []TypeOK
<1>1. Inv => TypeOK
  BY DEF Inv
<1> QED
  BY <1>1, Invariance, PTL

\* A thread that has returned from create_tls_key reads the one key that was
\* made, in the order of memory that the code asks for.
THEOREM KeyVisible == Spec => []KeyIsVisible
<1>1. Inv => KeyIsVisible
  BY DEF Inv
<1> QED
  BY <1>1, Invariance, PTL

\* One thread makes the key, before any other returns.
THEOREM MadeOnce == Spec => []OneCreator
<1>1. Inv => OneCreator
  BY DEF Inv
<1> QED
  BY <1>1, Invariance, PTL

=============================================================================
