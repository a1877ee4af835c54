---------------------------- MODULE EvPollProofs ---------------------------
(***************************************************************************)
(* Proofs about the descriptors, for any sets of descriptors, structs and  *)
(* watchers, and for any size of the batch.                                *)
(*                                                                         *)
(* The argument: the hash and the structs name each other, so that a       *)
(* descriptor has one struct and a struct that no descriptor names is on   *)
(* the dirty list; the structs with EPOLLET are those that the kernel      *)
(* holds; and a struct is freed only by the dirty loop, when no event is   *)
(* in hand and the kernel has forgotten it.                                *)
(***************************************************************************)
EXTENDS EvPoll, TLAPS

USE PollAssumption

\* Nothing is registered at first.
LEMMA InitInv == Init => Inv
<1> SUFFICES ASSUME Init PROVE Inv
  OBVIOUS
<1>1. TypeOK
  BY DEF Init, TypeOK, Handed, NoInterest, NoEvent, Places
<1>2. StructsAgree /\ WatchersOfOpenFds
  BY DEF Init, StructsAgree, WatchersOfOpenFds
<1>3. KernelAgrees /\ LoopAgrees
  BY DEF Init, KernelAgrees, LoopAgrees
<1>4. PointersAreLive
  BY DEF Init, PointersAreLive, Handed, NoInterest, NoEvent
<1>5. NothingMissed
  BY DEF Init, NothingMissed
<1> QED BY <1>1, <1>2, <1>3, <1>4, <1>5 DEF Inv

\* A new descriptor is in neither the hash nor the interest list.
LEMMA OpenInv ==
  ASSUME Inv, NEW f \in Fds, Open(f)
  PROVE  Inv'
<1>1. TypeOK'
  BY DEF Open, Inv, TypeOK, Handed, pollVars, loopVars
<1>2. StructsAgree' /\ WatchersOfOpenFds' /\ KernelAgrees'
  BY DEF Open, Inv, StructsAgree, WatchersOfOpenFds, KernelAgrees, pollVars
<1>3. LoopAgrees' /\ PointersAreLive'
  BY DEF Open, Inv, LoopAgrees, PointersAreLive, Handed, pollVars, loopVars
<1>4. NothingMissed'
  BY DEF Open, Inv, NothingMissed, OnItsWay, Wanted, pollVars, loopVars
<1> QED BY <1>1, <1>2, <1>3, <1>4 DEF Inv

\* The kernel holds the events that are waited for, or else the struct is dirty: an
\* edge is on its way.
LEMMA ArriveInv ==
  ASSUME Inv, NEW f \in Fds, NEW ev \in Events, Arrive(f, ev)
  PROVE  Inv'
<1>1. TypeOK'
  BY DEF Arrive, Inv, TypeOK, Handed, pollVars, loopVars
<1>2. StructsAgree' /\ WatchersOfOpenFds'
  BY DEF Arrive, Inv, StructsAgree, WatchersOfOpenFds, pollVars
<1>3. KernelAgrees'
  BY DEF Arrive, Inv, TypeOK, KernelAgrees, NoInterest, pollVars
<1>4. LoopAgrees' /\ PointersAreLive'
  BY DEF Arrive, Inv, LoopAgrees, PointersAreLive, Handed, pollVars, loopVars
<1>5. NothingMissed'
  <2>1. \A p \in Polls, g \in Fds, e \in Events :
          OnItsWay(p, g, e) => OnItsWay(p, g, e)'
    BY DEF Arrive, OnItsWay, pollVars, loopVars
  <2>2. ASSUME NEW p \in Polls, p = pollers[f], ev \in Wanted(p), step # "destroyed"
        PROVE  OnItsWay(p, f, ev)'
    BY <2>2
      DEF Arrive, Inv, KernelAgrees, NothingMissed, OnItsWay, NoInterest, pollVars
  <2>3. \A p \in Polls : Wanted(p)' = Wanted(p) /\ Wanted(p) \subseteq Events
    BY DEF Arrive, Wanted, Events, pollVars
  <2>4. \A g \in Fds : ready'[g] \subseteq ready[g] \cup (IF g = f THEN {ev} ELSE {})
    BY DEF Arrive, Inv, TypeOK
  <2> QED
    BY <2>1, <2>2, <2>3, <2>4
      DEF Arrive, Inv, TypeOK, NothingMissed, pollVars, loopVars
<1> QED BY <1>1, <1>2, <1>3, <1>4, <1>5 DEF Inv

\* ev_watch, whether or not the descriptor has a struct, leaves its struct in the
\* hash and on the dirty list.
LEMMA WatchInv ==
  ASSUME Inv, NEW w \in Watchers, NEW f \in Fds, NEW ev \in Events, NEW p \in Polls,
         Watch(w, f, ev, p)
  PROVE  Inv'
<1>1. /\ p \in live => fd[p] = f
      /\ pollers' = [pollers EXCEPT ![f] = p] /\ live' = live \cup {p}
      /\ fd' = [fd EXCEPT ![p] = f]
      /\ \A q \in live \ {p} : fd[q] # f
  <2>1. CASE pollers[f] # NONE
    <3>1. p = pollers[f] /\ UNCHANGED <<live, pollers, fd>> /\ p \in live /\ fd[p] = f
      BY <2>1 DEF Watch, PollOf, Inv, TypeOK, StructsAgree
    <3>2. [pollers EXCEPT ![f] = p] = pollers /\ [fd EXCEPT ![p] = f] = fd
      BY <3>1 DEF Inv, TypeOK
    <3> QED BY <3>1, <3>2 DEF Inv, TypeOK, StructsAgree
  <2>2. CASE pollers[f] = NONE
    BY <2>2 DEF Watch, PollOf, Inv, TypeOK, StructsAgree
  <2> QED BY <2>1, <2>2
<1>2. /\ rd' \in [Polls -> Watchers \cup {NONE}]
      /\ wr' \in [Polls -> Watchers \cup {NONE}]
      /\ \A q \in Polls \ {p} : rd'[q] = rd[q] /\ wr'[q] = wr[q]
      /\ {rd'[p], wr'[p]} \subseteq {rd[p], wr[p], w}
      /\ rd'[p] # NONE => rd'[p] # wr'[p]
  <2>1. rd[p] # w /\ wr[p] # w
    BY DEF Watch, Registered, Inv, StructsAgree
  <2>2. CASE ev = "in"
    BY <2>1, <2>2 DEF Watch, Inv, TypeOK, StructsAgree
  <2>3. CASE ev = "out"
    BY <2>1, <2>3 DEF Watch, Inv, TypeOK, StructsAgree
  <2> QED BY <2>2, <2>3 DEF Events
<1>3. TypeOK'
  BY <1>1, <1>2 DEF Watch, mark_dirty, Inv, TypeOK, Handed, kernelVars, loopVars
<1>4. StructsAgree'
  BY <1>1, <1>2
    DEF Watch, mark_dirty, Inv, TypeOK, StructsAgree, kernelVars, loopVars
<1>5. WatchersOfOpenFds'
  <2> SUFFICES ASSUME NEW q \in live', NEW v \in {rd'[q], wr'[q]} \ {NONE}
               PROVE  data'[v] = q /\ fd'[q] \in open' /\ pollers'[fd'[q]] = q
    BY DEF WatchersOfOpenFds
  <2>1. CASE v = w
    BY <1>1, <1>2, <2>1 DEF Watch, Registered, Inv, TypeOK, StructsAgree, kernelVars
  <2>2. CASE v # w
    BY <1>1, <1>2, <2>2
      DEF Watch, Inv, TypeOK, StructsAgree, WatchersOfOpenFds, kernelVars
  <2> QED BY <2>1, <2>2
<1>6. KernelAgrees'
  BY <1>1 DEF Watch, Inv, TypeOK, StructsAgree, KernelAgrees, kernelVars, NoInterest
<1>7. LoopAgrees'
  BY DEF Watch, ProgramRuns, Inv, LoopAgrees, loopVars
<1>8. PointersAreLive'
  BY <1>1
    DEF Watch, Inv, TypeOK, StructsAgree, PointersAreLive, Handed, kernelVars,
        loopVars
<1>9. NothingMissed'
  <2>1. p \in dirty' /\ step' # "wait" /\ pollers'[f] = p
    BY <1>1 DEF Watch, ProgramRuns, mark_dirty, Inv, TypeOK, loopVars
  <2>2. \A g \in Fds \ {f} : pollers'[g] # NONE =>
          pollers'[g] = pollers[g] /\ pollers[g] \in Polls \ {p}
    BY <1>1 DEF Inv, TypeOK, StructsAgree
  <2>3. /\ dirty \subseteq dirty' /\ step' = step /\ batch' = batch /\ cur' = cur
        /\ ready' = ready /\ interest' = interest /\ armed' = armed
    BY DEF Watch, mark_dirty, kernelVars, loopVars
  <2>4. \A g \in Fds \ {f} : pollers'[g] # NONE =>
          rd'[pollers[g]] = rd[pollers[g]] /\ wr'[pollers[g]] = wr[pollers[g]]
    BY <1>2, <2>2
  <2> QED
    BY <2>1, <2>2, <2>3, <2>4 DEF Inv, NothingMissed, Wanted, OnItsWay
<1> QED BY <1>3, <1>4, <1>5, <1>6, <1>7, <1>8, <1>9 DEF Inv

\* The back pointer leads ev_unwatch to the only struct that has the watcher.
LEMMA UnwatchInv ==
  ASSUME Inv, NEW w \in Watchers, Unwatch(w)
  PROVE  Inv'
<1> DEFINE p == data[w]
<1>1. /\ p \in live /\ w \in {rd[p], wr[p]} /\ rd[p] # wr[p]
      /\ \A q \in live \ {p} : w \notin {rd[q], wr[q]}
  BY DEF Unwatch, Registered, Inv, TypeOK, StructsAgree, WatchersOfOpenFds
<1>2. TypeOK'
  BY <1>1 DEF Unwatch, mark_dirty, Inv, TypeOK, Handed, kernelVars, loopVars
<1>3. StructsAgree'
  BY <1>1 DEF Unwatch, mark_dirty, Inv, TypeOK, StructsAgree, kernelVars
<1>4. WatchersOfOpenFds'
  BY <1>1 DEF Unwatch, Inv, TypeOK, StructsAgree, WatchersOfOpenFds, kernelVars
<1>5. KernelAgrees' /\ LoopAgrees' /\ PointersAreLive'
  BY DEF Unwatch, ProgramRuns, Inv, KernelAgrees, LoopAgrees, PointersAreLive,
        Handed, kernelVars, loopVars
<1>6. NothingMissed'
  BY <1>1
    DEF Unwatch, ProgramRuns, mark_dirty, Inv, TypeOK, StructsAgree, NothingMissed,
        OnItsWay, Wanted, kernelVars, loopVars
<1> QED BY <1>2, <1>3, <1>4, <1>5, <1>6 DEF Inv

\* After ev_close neither the hash, the kernel nor a watcher leads to the struct.
LEMMA CloseInv ==
  ASSUME Inv, NEW f \in Fds, Close(f)
  PROVE  Inv'
<1> DEFINE p == pollers[f]
<1>1. CASE p = NONE
  <2>1. TypeOK'
    BY <1>1
      DEF Close, KernelClose, Inv, TypeOK, KernelAgrees, NoInterest, Handed,
           pollVars, loopVars
  <2>2. StructsAgree'
    BY <1>1 DEF Close, KernelClose, Inv, TypeOK, StructsAgree, pollVars
  <2>3. WatchersOfOpenFds'
    BY <1>1
      DEF Close, KernelClose, Inv, TypeOK, StructsAgree, WatchersOfOpenFds, pollVars
  <2>4. KernelAgrees'
    BY <1>1 DEF Close, KernelClose, Inv, TypeOK, KernelAgrees, pollVars, NoInterest
  <2>5. LoopAgrees'
    BY <1>1 DEF Close, ProgramRuns, Inv, LoopAgrees, pollVars, loopVars
  <2>6. PointersAreLive'
    BY <1>1
      DEF Close, KernelClose, Inv, TypeOK, PointersAreLive, Handed, NoInterest,
           pollVars, loopVars
  <2>7. NothingMissed'
    BY <1>1
      DEF Close, KernelClose, Inv, TypeOK, NothingMissed, Wanted, OnItsWay,
           pollVars, loopVars
  <2> QED BY <2>1, <2>2, <2>3, <2>4, <2>5, <2>6, <2>7 DEF Inv
<1>2. CASE p # NONE
  <2>0. /\ p \in live /\ fd[p] = f /\ f \in open
        /\ \A g \in Fds \ {f} : pollers[g] # p /\ interest[g].poll # p
        /\ \A q \in live \ {p} : fd[q] # f
        /\ pollers' = [pollers EXCEPT ![f] = NONE] /\ fd' = [fd EXCEPT ![p] = NONE]
        /\ rd' = [rd EXCEPT ![p] = NONE] /\ wr' = [wr EXCEPT ![p] = NONE]
        /\ dirty' = dirty \cup {p} /\ UNCHANGED <<live, added, data, step, batch, cur>>
        /\ KernelClose(f)
    BY <1>2
      DEF Close, Detach, Release, mark_dirty, Inv, TypeOK, StructsAgree,
           PointersAreLive, loopVars
  <2> HIDE DEF p
  <2>1. TypeOK'
    BY <2>0 DEF KernelClose, Inv, TypeOK, NoInterest, Handed
  <2>2. StructsAgree'
    BY <2>0 DEF KernelClose, Inv, TypeOK, StructsAgree
  <2>3. WatchersOfOpenFds'
    BY <2>0 DEF KernelClose, Inv, TypeOK, StructsAgree, WatchersOfOpenFds
  <2>4. KernelAgrees'
    BY <2>0 DEF KernelClose, Inv, TypeOK, KernelAgrees, NoInterest
  <2>5. LoopAgrees'
    BY <2>0 DEF Close, ProgramRuns, Inv, LoopAgrees
  <2>6. PointersAreLive'
    BY <2>0 DEF KernelClose, Inv, TypeOK, PointersAreLive, Handed, NoInterest
  <2>7. NothingMissed'
    BY <2>0 DEF KernelClose, Inv, TypeOK, NothingMissed, Wanted, OnItsWay
  <2> QED BY <2>1, <2>2, <2>3, <2>4, <2>5, <2>6, <2>7 DEF Inv
<1> QED BY <1>1, <1>2

\* epoll_ctl refuses none of the calls of the dirty loop.
LEMMA NoneRefused ==
  ASSUME Inv, NEW f \in Fds
  PROVE  Accepted(f) <=> pollers[f] # NONE /\ pollers[f] \in Updated
BY DEF Inv, TypeOK, StructsAgree, KernelAgrees, NoInterest, Accepted, Updated

\* The structs that the dirty loop frees are those that nothing leads to, and the
\* others are in the interest list.
LEMMA UpdateKernelInv ==
  ASSUME Inv, UpdateKernel
  PROVE  Inv'
<1>1. \A f \in Fds : pollers[f] # NONE =>
        /\ pollers[f] \in Polls /\ fd[pollers[f]] = f
        /\ pollers[f] \in live' /\ pollers[f] \notin Freed
  BY DEF UpdateKernel, Freed, Inv, TypeOK, StructsAgree
<1>2. \A f \in Fds : Accepted(f) => pollers[f] # NONE /\ pollers[f] \in Updated
  BY NoneRefused
<1>3. \A f \in Fds : pollers[f] # NONE /\ pollers[f] \in Updated => Accepted(f)
  BY NoneRefused
<1>4. TypeOK'
  <2>1. interest' \in [Fds -> [events : SUBSET Events, poll : Polls \cup {NONE}]]
    BY <1>1, <1>2 DEF UpdateKernel, Inv, TypeOK, Wanted, Events
  <2>2. armed' \subseteq open
    BY <1>2 DEF UpdateKernel, Inv, TypeOK, StructsAgree
  <2> QED
    BY <1>1, <2>1, <2>2
      DEF UpdateKernel, EmptyList, Inv, TypeOK, LoopAgrees, Handed, Places
<1>5. StructsAgree'
  BY <1>1 DEF UpdateKernel, Freed, Updated, EmptyList, Inv, TypeOK, StructsAgree
<1>6. WatchersOfOpenFds'
  BY DEF UpdateKernel, Inv, WatchersOfOpenFds
<1>7. KernelAgrees'
  <2> SUFFICES ASSUME NEW f \in Fds
               PROVE  IF pollers[f] # NONE /\ added'[pollers[f]]
                        THEN interest'[f].poll = pollers[f]
                        ELSE interest'[f] = NoInterest /\ f \notin armed'
    BY DEF UpdateKernel, KernelAgrees
  <2>1. CASE Accepted(f)
    BY <1>1, <1>2, <2>1 DEF UpdateKernel, Inv, TypeOK
  <2>2. CASE ~Accepted(f)
    <3>1. interest'[f] = interest[f] /\ (f \in armed' <=> f \in armed)
      BY <2>2 DEF UpdateKernel
    <3>2. pollers[f] # NONE => (added'[pollers[f]] <=> added[pollers[f]])
      BY <1>1, <1>3, <2>2 DEF UpdateKernel, Inv, TypeOK
    <3> QED BY <3>1, <3>2 DEF Inv, KernelAgrees
  <2> QED BY <2>1, <2>2
<1>8. LoopAgrees'
  BY DEF UpdateKernel, EmptyList, Inv, LoopAgrees
<1>9. PointersAreLive'
  BY <1>1, <1>2
    DEF UpdateKernel, Inv, TypeOK, KernelAgrees, LoopAgrees, PointersAreLive,
        Handed, NoInterest
<1>10. NothingMissed'
  BY <1>1, <1>2, <1>3
    DEF UpdateKernel, Updated, EmptyList, Inv, TypeOK, LoopAgrees, NothingMissed,
          OnItsWay, Wanted, NoEvent
<1> QED BY <1>4, <1>5, <1>6, <1>7, <1>8, <1>9, <1>10 DEF Inv

\* A descriptor that epoll_wait takes off the ready list is in the batch.
LEMMA EpollWaitInv ==
  ASSUME Inv, NEW fs \in SUBSET Fds, EpollWait(fs)
  PROVE  Inv'
<1>1. \A f \in fs :
        interest[f].poll \in Polls \cap live /\ fd[interest[f].poll] = f
  BY DEF EpollWait, Inv, TypeOK, StructsAgree, KernelAgrees, PointersAreLive
<1>2. cur = NoEvent /\ Handed' = batch'
  BY DEF EpollWait, Inv, LoopAgrees, Handed
<1>3. TypeOK'
  BY <1>1, <1>2 DEF EpollWait, Inv, TypeOK, Places, Events, pollVars
<1>4. StructsAgree' /\ WatchersOfOpenFds' /\ KernelAgrees'
  BY DEF EpollWait, Inv, StructsAgree, WatchersOfOpenFds, KernelAgrees, pollVars
<1>5. LoopAgrees'
  BY <1>2 DEF EpollWait, Inv, LoopAgrees
<1>6. PointersAreLive'
  BY <1>1, <1>2 DEF EpollWait, Inv, PointersAreLive, pollVars
<1>7. NothingMissed'
  <2>1. \A p \in Polls, f \in Fds, ev \in Events :
          OnItsWay(p, f, ev) /\ ev \in ready[f] /\ p # NONE => OnItsWay(p, f, ev)'
    <3> SUFFICES ASSUME NEW p \in Polls, NEW f \in Fds, NEW ev \in Events,
                        OnItsWay(p, f, ev), ev \in ready[f]
                 PROVE  OnItsWay(p, f, ev)'
      OBVIOUS
    <3>1. CASE f \in fs /\ interest[f].poll = p /\ ev \in interest[f].events
      <4> DEFINE e == [poll |-> interest[f].poll, fd |-> f,
                       events |-> ready[f] \cap interest[f].events]
      <4>1. e \in batch' /\ e.poll = p /\ ev \in e.events
        BY <3>1 DEF EpollWait
      <4> QED BY <4>1 DEF OnItsWay
    <3>2. CASE ~(f \in fs /\ interest[f].poll = p /\ ev \in interest[f].events)
      BY <1>2, <3>2 DEF EpollWait, Inv, LoopAgrees, OnItsWay, NoEvent, pollVars
    <3> QED BY <3>1, <3>2
  <2>2. \A p \in Polls : Wanted(p)' = Wanted(p) /\ Wanted(p) \subseteq Events
    BY DEF EpollWait, Wanted, Events, pollVars
  <2> QED
    BY <2>1, <2>2 DEF EpollWait, Inv, TypeOK, NothingMissed, pollVars
<1> QED BY <1>3, <1>4, <1>5, <1>6, <1>7 DEF Inv

\* The event that is taken from the batch is in hand.
LEMMA NextEventInv ==
  ASSUME Inv, NEW e \in batch, NextEvent(e)
  PROVE  Inv'
<1>1. e.poll \in Polls /\ e # NoEvent /\ Handed' \subseteq Handed
  BY DEF NextEvent, Inv, TypeOK, Handed, NoEvent
<1>2. TypeOK'
  BY <1>1 DEF NextEvent, Inv, TypeOK, Places, pollVars, kernelVars
<1>3. StructsAgree' /\ WatchersOfOpenFds' /\ KernelAgrees'
  BY DEF NextEvent, Inv, StructsAgree, WatchersOfOpenFds, KernelAgrees, pollVars,
        kernelVars
<1>4. LoopAgrees'
  BY <1>1 DEF NextEvent, Inv, LoopAgrees
<1>5. PointersAreLive'
  BY <1>1 DEF NextEvent, Inv, PointersAreLive, pollVars, kernelVars
<1>6. NothingMissed'
  BY DEF NextEvent, Inv, TypeOK, LoopAgrees, NothingMissed, OnItsWay, Wanted,
        NoEvent, pollVars, kernelVars
<1> QED BY <1>2, <1>3, <1>4, <1>5, <1>6 DEF Inv

\* The function that reads has used up the event, or its struct is dirty.
LEMMA ReadReturnsInv ==
  ASSUME Inv, ReadReturns
  PROVE  Inv'
<1>1. ready' \in [Fds -> SUBSET Events] /\ \A f \in Fds : ready'[f] \subseteq ready[f]
  BY DEF ReadReturns, Drain, Inv, TypeOK
<1>2. TypeOK'
  BY <1>1 DEF ReadReturns, Inv, TypeOK, Handed, Places, pollVars
<1>3. StructsAgree' /\ WatchersOfOpenFds' /\ KernelAgrees'
  BY DEF ReadReturns, Inv, StructsAgree, WatchersOfOpenFds, KernelAgrees, pollVars
<1>4. LoopAgrees'
  BY DEF ReadReturns, Inv, LoopAgrees
<1>5. PointersAreLive'
  BY DEF ReadReturns, Inv, PointersAreLive, Handed, pollVars
<1>6. NothingMissed'
  <2>1. \A f \in Fds : pollers[f] = cur.poll /\ cur.poll # NONE /\ "in" \in ready'[f] =>
          rd[cur.poll] = NONE \/ cur.poll \in dirty
    BY DEF ReadReturns, Drain, Inv, TypeOK, StructsAgree
  <2>2. \A p \in Polls :
          /\ Wanted(p)' = Wanted(p) /\ Wanted(p) \subseteq Events
          /\ rd[p] = NONE => "in" \notin Wanted(p)
    BY DEF ReadReturns, Wanted, pollVars, Events
  <2>3. \A p \in Polls, f \in Fds, ev \in Events :
          OnItsWay(p, f, ev) => OnItsWay(p, f, ev)' \/ (ev = "in" /\ p = cur.poll)
    BY DEF ReadReturns, OnItsWay, pollVars, Events
  <2>4. \A p \in Polls, f \in Fds, ev \in Events : p \in dirty => OnItsWay(p, f, ev)'
    BY DEF ReadReturns, OnItsWay, pollVars
  <2> QED
    BY <1>1, <2>1, <2>2, <2>3, <2>4
      DEF ReadReturns, Inv, TypeOK, NothingMissed, pollVars
<1> QED BY <1>2, <1>3, <1>4, <1>5, <1>6 DEF Inv

\* An event is put down only if nothing waits to write for it.
LEMMA NextWriteInv ==
  ASSUME Inv, NextWrite
  PROVE  Inv'
<1>1. TypeOK'
  BY DEF NextWrite, Inv, TypeOK, Handed, Places, pollVars, kernelVars
<1>2. StructsAgree' /\ WatchersOfOpenFds' /\ KernelAgrees'
  BY DEF NextWrite, Inv, StructsAgree, WatchersOfOpenFds, KernelAgrees, pollVars,
        kernelVars
<1>3. LoopAgrees'
  BY DEF NextWrite, Inv, LoopAgrees
<1>4. PointersAreLive'
  BY DEF NextWrite, Inv, PointersAreLive, Handed, pollVars, kernelVars
<1>5. NothingMissed'
  BY DEF NextWrite, Inv, TypeOK, NothingMissed, OnItsWay, Wanted, pollVars,
        kernelVars
<1> QED BY <1>1, <1>2, <1>3, <1>4, <1>5 DEF Inv

\* The function that writes has used up the event, or its struct is dirty.
LEMMA WriteReturnsInv ==
  ASSUME Inv, WriteReturns
  PROVE  Inv'
<1>1. ready' \in [Fds -> SUBSET Events] /\ \A f \in Fds : ready'[f] \subseteq ready[f]
  BY DEF WriteReturns, Drain, Inv, TypeOK
<1>2. TypeOK'
  BY <1>1 DEF WriteReturns, Inv, TypeOK, Handed, Places, pollVars
<1>3. StructsAgree' /\ WatchersOfOpenFds' /\ KernelAgrees'
  BY DEF WriteReturns, Inv, StructsAgree, WatchersOfOpenFds, KernelAgrees, pollVars
<1>4. LoopAgrees'
  BY DEF WriteReturns, Inv, LoopAgrees
<1>5. PointersAreLive'
  BY DEF WriteReturns, Inv, PointersAreLive, Handed, pollVars
<1>6. NothingMissed'
  BY <1>1
    DEF WriteReturns, Drain, Inv, TypeOK, StructsAgree, NothingMissed, OnItsWay,
        Wanted, NoEvent, pollVars
<1> QED BY <1>2, <1>3, <1>4, <1>5, <1>6 DEF Inv

\* evloop_step returns with no event in hand.
LEMMA StepEndsInv ==
  ASSUME Inv, StepReturns \/ WaitFails
  PROVE  Inv'
<1>1. TypeOK'
  BY DEF StepReturns, WaitFails, Inv, TypeOK, Handed, Places, pollVars, kernelVars
<1>2. StructsAgree' /\ WatchersOfOpenFds' /\ KernelAgrees'
  BY DEF StepReturns, WaitFails, Inv, StructsAgree, WatchersOfOpenFds,
        KernelAgrees, pollVars, kernelVars
<1>3. LoopAgrees'
  BY DEF StepReturns, WaitFails, Inv, LoopAgrees
<1>4. PointersAreLive'
  BY DEF StepReturns, WaitFails, Inv, PointersAreLive, Handed, pollVars, kernelVars
<1>5. NothingMissed'
  BY DEF StepReturns, WaitFails, Inv, NothingMissed, OnItsWay, Wanted, pollVars,
        kernelVars
<1> QED BY <1>1, <1>2, <1>3, <1>4, <1>5 DEF Inv

\* evloop_destroy leaves the structs that were closed, and these only.
LEMMA DestroyInv ==
  ASSUME Inv, Destroy
  PROVE  Inv'
<1>1. \A p \in live' : p \in dirty'
  BY DEF Destroy, Inv, TypeOK, StructsAgree
<1>2. batch' = {} /\ cur' = NoEvent
  BY DEF Destroy, Inv, LoopAgrees
<1>3. TypeOK'
  BY <1>2 DEF Destroy, Inv, TypeOK, Handed, Places, NoInterest
<1>4. StructsAgree'
  BY <1>1 DEF Destroy, Inv, TypeOK, StructsAgree
<1>5. WatchersOfOpenFds' /\ KernelAgrees'
  BY DEF Destroy, Inv, TypeOK, WatchersOfOpenFds, KernelAgrees
<1>6. LoopAgrees'
  BY <1>2 DEF Destroy, LoopAgrees
<1>7. PointersAreLive'
  BY <1>2 DEF Destroy, PointersAreLive, Handed, NoInterest
<1>8. NothingMissed'
  BY DEF Destroy, NothingMissed
<1> QED BY <1>3, <1>4, <1>5, <1>6, <1>7, <1>8 DEF Inv

\* A step that changes no variable.
LEMMA StutterInv == Inv /\ UNCHANGED vars => Inv'
BY DEF vars, pollVars, kernelVars, loopVars, Inv, TypeOK, StructsAgree,
       WatchersOfOpenFds,
       KernelAgrees, LoopAgrees, PointersAreLive, NothingMissed, Handed, OnItsWay, Wanted

\* Every step of the program, the kernel and the loop preserves the invariant.
LEMMA NextInv == Inv /\ [Next]_vars => Inv'
<1> SUFFICES ASSUME Inv, [Next]_vars PROVE Inv'
  OBVIOUS
<1>1. ASSUME NEW f \in Fds, Open(f) PROVE Inv'
  BY <1>1, OpenInv
<1>2. ASSUME NEW f \in Fds, NEW ev \in Events, Arrive(f, ev) PROVE Inv'
  BY <1>2, ArriveInv
<1>3. ASSUME NEW w \in Watchers, NEW f \in Fds, NEW ev \in Events, NEW p \in Polls,
             Watch(w, f, ev, p)
      PROVE  Inv'
  BY <1>3, WatchInv
<1>4. ASSUME NEW w \in Watchers, Unwatch(w) PROVE Inv'
  BY <1>4, UnwatchInv
<1>5. ASSUME NEW f \in Fds, Close(f) PROVE Inv'
  BY <1>5, CloseInv
<1>6. CASE UpdateKernel
  BY <1>6, UpdateKernelInv
<1>7. ASSUME NEW fs \in SUBSET Fds, EpollWait(fs) PROVE Inv'
  BY <1>7, EpollWaitInv
<1>8. ASSUME NEW e \in batch, NextEvent(e) PROVE Inv'
  BY <1>8, NextEventInv
<1>9. CASE ReadReturns
  BY <1>9, ReadReturnsInv
<1>10. CASE NextWrite
  BY <1>10, NextWriteInv
<1>11. CASE WriteReturns
  BY <1>11, WriteReturnsInv
<1>12. CASE StepReturns \/ WaitFails
  BY <1>12, StepEndsInv
<1>13. CASE Destroy
  BY <1>13, DestroyInv
<1>14. CASE UNCHANGED vars
  BY <1>14, StutterInv
<1> QED
  BY <1>1, <1>2, <1>3, <1>4, <1>5, <1>6, <1>7, <1>8, <1>9, <1>10, <1>11, <1>12,
     <1>13, <1>14
    DEF Next

\* The invariant holds of every behaviour of the loop.
THEOREM Invariance == Spec => []Inv
<1>1. Init => Inv
  BY InitInv
<1>2. Inv /\ [Next]_vars => Inv'
  BY NextInv
<1> QED
  BY <1>1, <1>2, PTL DEF Spec

\* Every variable has a value of its type, and the lists hold structs that are
\* allocated.
THEOREM TypeCorrect == Spec => []TypeOK
<1>1. Inv => TypeOK
  BY DEF Inv
<1> QED
  BY <1>1, Invariance, PTL

\* No event that the kernel or the loop holds leads to a freed struct, or to that
\* of another descriptor, whatever ev_close and ev_watch do while a batch is
\* handed out.
THEOREM NoStaleEvent == Spec => []PointersAreLive
<1>1. Inv => PointersAreLive
  BY DEF Inv
<1> QED
  BY <1>1, Invariance, PTL

\* Every struct is in the hash or on the list that frees it.
THEOREM NoneIsLost == Spec => []ClosedAreOnList
<1>1. Inv => ClosedAreOnList
  <2> SUFFICES ASSUME Inv, NEW p \in live, \A f \in Fds : pollers[f] # p
               PROVE  p \in dirty
    BY DEF ClosedAreOnList
  <2> QED
    BY DEF Inv, TypeOK, StructsAgree
<1> QED
  BY <1>1, Invariance, PTL

\* ev_unwatch finds the struct of every registered watcher, and its descriptor is
\* open.
THEOREM WatchersAreRight == Spec => []WatchersOfOpenFds
<1>1. Inv => WatchersOfOpenFds
  BY DEF Inv
<1> QED
  BY <1>1, Invariance, PTL

\* No readiness is lost to the edge-triggered reports.
THEOREM NothingIsMissed == Spec => []NothingMissed
<1>1. Inv => NothingMissed
  BY DEF Inv
<1> QED
  BY <1>1, Invariance, PTL

=============================================================================
