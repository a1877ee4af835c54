------------------------------- MODULE TlsOnce ------------------------------
(***************************************************************************)
(* create_tls_key of tls.c: OS threads that need a thread-specific key     *)
(* race to create it, once, with an atomic flag and a spin.                *)
(*                                                                         *)
(* Memory is weakly ordered, as the memory_order arguments allow: *ponce   *)
(* takes the values 0, 1 and 2 in this order, a thread may read any of     *)
(* them from the latest it has seen, and the plain write of *pkey is only  *)
(* visible to threads that have synchronised with it.                      *)
(***************************************************************************)
EXTENDS Integers

CONSTANT Threads   \* OS threads

VARIABLES
  once,    \* the last value written to *ponce
  seen,    \* the latest value of *ponce that each thread has seen
  keys,    \* how many keys pthread_key_create has made
  views,   \* the threads that the write of *pkey is visible to
  pc       \* where each thread is

vars == <<once, seen, keys, views, pc>>

(***************************************************************************)
(* The places of a thread:                                                 *)
(*   "start"     about to do the compare-and-exchange                      *)
(*   "create"    about to call pthread_key_create                          *)
(*   "write"     about to write *pkey                                      *)
(*   "publish"   about to store 2                                          *)
(*   "wait"      about to load *ponce                                      *)
(*   "returned"  from create_tls_key                                       *)
(*   "aborted"   the process has ended                                     *)
(***************************************************************************)
Places == {"start", "create", "write", "publish", "wait", "returned", "aborted"}

Go(t, place) == pc' = [pc EXCEPT ![t] = place]

-----------------------------------------------------------------------------
Init ==
  /\ once = 0
  /\ seen = [t \in Threads |-> 0]
  /\ keys = 0
  /\ views = {}
  /\ pc = [t \in Threads |-> "start"]

\* Fault: the flag is tested with a load and set with a store.
ClaimBlindly(t) ==
  /\ pc[t] = "start"
  /\ seen[t] = 0
  /\ once' = 1
  /\ seen' = [seen EXCEPT ![t] = 1]
  /\ Go(t, "create")
  /\ UNCHANGED <<keys, views>>

\* The compare-and-exchange succeeds: it has read the last value, 0.
Claim(t) ==
  /\ pc[t] = "start"
  /\ once = 0
  /\ once' = 1
  /\ seen' = [seen EXCEPT ![t] = 1]
  /\ Go(t, "create")
  /\ UNCHANGED <<keys, views>>

\* It fails: it has read another value, in relaxed order, which makes no other
\* write visible.
Lose(t, x) ==
  /\ pc[t] = "start"
  /\ x \in seen[t]..once /\ x # 0
  /\ seen' = [seen EXCEPT ![t] = x]
  /\ Go(t, "wait")
  /\ UNCHANGED <<once, keys, views>>

\* pthread_key_create.
Create(t) ==
  /\ pc[t] = "create"
  /\ keys' = keys + 1
  /\ Go(t, "write")
  /\ UNCHANGED <<once, seen, views>>

\* pthread_key_create fails, and the process aborts.
Abort(t) ==
  /\ pc[t] = "create"
  /\ pc' = [u \in Threads |-> "aborted"]
  /\ UNCHANGED <<once, seen, keys, views>>

\* *pkey = key.
Write(t) ==
  /\ pc[t] = "write"
  /\ views' = {t}
  /\ Go(t, "publish")
  /\ UNCHANGED <<once, seen, keys>>

\* Fault: the flag keeps its value.
PublishNothing(t) ==
  /\ pc[t] = "publish"
  /\ Go(t, "returned")
  /\ UNCHANGED <<once, seen, keys, views>>

\* The store of 2, in release order.
Publish(t) ==
  /\ pc[t] = "publish"
  /\ once' = 2
  /\ seen' = [seen EXCEPT ![t] = 2]
  /\ Go(t, "returned")
  /\ UNCHANGED <<keys, views>>

\* Fault: the load is relaxed.
SynchroniseNot(t) == UNCHANGED views

\* A load of the 2, in acquire order, of a store in release order: what was
\* visible to the one is visible to the other.
Synchronise(t) == views' = views \cup {t}

\* The load of the while loop reads 1: usleep, and again.
Spin(t) ==
  /\ pc[t] = "wait"
  /\ seen[t] = 1
  /\ UNCHANGED vars

\* It reads 2.
Leave(t) ==
  /\ pc[t] = "wait"
  /\ once = 2
  /\ seen' = [seen EXCEPT ![t] = 2]
  /\ Synchronise(t)
  /\ Go(t, "returned")
  /\ UNCHANGED <<once, keys>>

\* The next evloop_init of the thread calls create_tls_key again.
Again(t) ==
  /\ pc[t] = "returned"
  /\ Go(t, "start")
  /\ UNCHANGED <<once, seen, keys, views>>

Next ==
  \E t \in Threads :
    \/ Claim(t)
    \/ \E x \in 0..2 : Lose(t, x)
    \/ Create(t)
    \/ Abort(t)
    \/ Write(t)
    \/ Publish(t)
    \/ Spin(t)
    \/ Leave(t)
    \/ Again(t)

Spec == Init /\ [][Next]_vars

\* OS threads run, and stores become visible to loads at some time.
Fairness ==
  \A t \in Threads :
    /\ WF_vars(Claim(t) \/ \E x \in 0..2 : Lose(t, x))
    /\ WF_vars(Create(t) \/ Abort(t))
    /\ WF_vars(Write(t))
    /\ WF_vars(Publish(t))
    /\ WF_vars(Leave(t))

FairSpec == Spec /\ Fairness

-----------------------------------------------------------------------------
(* Properties.                                                             *)

\* Every variable has a value of its type, and no thread has seen a value of
\* the flag that was not written yet, or that was taken back.
TypeOK ==
  /\ once \in 0..2
  /\ seen \in [Threads -> 0..once]
  /\ keys \in Nat
  /\ views \subseteq Threads
  /\ pc \in [Threads -> Places]

\* Every thread that has returned from create_tls_key reads the key from *pkey,
\* and it is the same one for all: no other has been made.
KeyIsVisible ==
  \A t \in Threads : pc[t] = "returned" => t \in views /\ keys = 1

Creating(t) == pc[t] \in {"create", "write", "publish"}

\* The key is made once, and by one thread, before any other has returned: no
\* write of *pkey races with a read.
OneCreator ==
  /\ keys <= 1
  /\ \A t, u \in Threads : Creating(t) /\ (Creating(u) \/ pc[u] = "returned") => t = u

\* Every call returns, unless the process aborts.
CallsReturn ==
  \A t \in Threads : pc[t] # "returned" ~> pc[t] \in {"returned", "aborted"}

(***************************************************************************)
(* The inductive invariant: what each value of the flag means.             *)
(***************************************************************************)
Unclaimed ==
  once = 0 => keys = 0 /\ views = {} /\ \A t \in Threads : pc[t] = "start"

Claimed ==
  once = 1 =>
    \A t \in Threads :
      /\ pc[t] # "returned"
      /\ pc[t] = "create" => keys = 0
      /\ pc[t] \in {"write", "publish"} => keys = 1
      /\ pc[t] = "publish" => t \in views

Published ==
  once = 2 => keys = 1 /\ \A t \in Threads : ~Creating(t)

Inv ==
  /\ TypeOK
  /\ KeyIsVisible
  /\ OneCreator
  /\ Unclaimed
  /\ Claimed
  /\ Published

=============================================================================
