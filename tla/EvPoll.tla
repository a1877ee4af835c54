------------------------------- MODULE EvPoll -------------------------------
(***************************************************************************)
(* The descriptors of evloop.epoll.c: watchers registered on descriptors,  *)
(* the structs that stand for descriptors in the kernel's interest list,   *)
(* and the part of evloop_step that updates the kernel and hands out       *)
(* events.  The timers' part of evloop_step is EvTimers.                   *)
(*                                                                         *)
(* The memory of a struct evloop_poll can be allocated again once it has   *)
(* been freed; its fields are kept at 0 until then, as xcalloc will set    *)
(* them.  The dirty list is a set: its order has no effect, because no two *)
(* of its structs have the same descriptor.  The hash e->pollers is KHash. *)
(***************************************************************************)
EXTENDS Integers, FiniteSets

CONSTANTS
  Fds,        \* descriptor numbers
  Polls,      \* the addresses of struct evloop_poll
  Watchers,   \* the struct evwatch objects
  NONE,       \* the null pointer; also the descriptor -1
  MaxEvents   \* the size of the array passed to epoll_wait: 16 in the code

ASSUME PollAssumption ==
  /\ NONE \notin Fds /\ NONE \notin Polls /\ NONE \notin Watchers
  /\ MaxEvents \in Nat \ {0}

\* EPOLLIN (with EPOLLHUP) and EPOLLOUT.
Events == {"in", "out"}

VARIABLES
  live,     \* the structs that are allocated
  pollers,  \* e->pollers: the struct of a descriptor, or NONE
  fd,       \* p->fd
  rd,       \* p->rd
  wr,       \* p->wr
  added,    \* EPOLLET in p->flags: the kernel has been told of p
  dirty,    \* e->dirty_list, the structs with FLAG_DIRTY
  data,     \* w->poll_data
  open,     \* the descriptors that are open
  ready,    \* the events whose condition holds on a descriptor
  interest, \* the kernel's interest list: events and pointer of a descriptor
  armed,    \* the descriptors on its ready list
  step,     \* where the loop is
  batch,    \* the events of epoll_wait still to be handed out
  cur       \* the event being handed out

loopVars == <<step, batch, cur>>
kernelVars == <<open, ready, interest, armed>>
pollVars == <<live, pollers, fd, rd, wr, added, dirty, data>>
vars == <<pollVars, kernelVars, loopVars>>

(***************************************************************************)
(* The places of the loop:                                                 *)
(*   "outside"  the program is not in evloop_step, or in a timer's function*)
(*   "wait"     in epoll_wait, with the kernel updated                     *)
(*   "events"   about to hand out the next event of the batch              *)
(*   "reading"  p->rd->fn runs for cur                                     *)
(*   "between"  about to test p->wr for cur                                *)
(*   "writing"  p->wr->fn runs for cur                                     *)
(*   "destroyed"  evloop_destroy has returned                              *)
(***************************************************************************)
Places ==
  {"outside", "wait", "events", "reading", "between", "writing", "destroyed"}

ProgramRuns == step \in {"outside", "reading", "writing"}

NoInterest == [events |-> {}, poll |-> NONE]
NoEvent == [poll |-> NONE, fd |-> NONE, events |-> {}]

Wanted(p) == (IF rd[p] # NONE THEN {"in"} ELSE {})
             \cup (IF wr[p] # NONE THEN {"out"} ELSE {})

Registered(w) == \E p \in live : rd[p] = w \/ wr[p] = w

-----------------------------------------------------------------------------
Init ==
  /\ live = {}
  /\ pollers = [f \in Fds |-> NONE]
  /\ fd = [p \in Polls |-> NONE]
  /\ rd = [p \in Polls |-> NONE]
  /\ wr = [p \in Polls |-> NONE]
  /\ added = [p \in Polls |-> FALSE]
  /\ dirty = {}
  /\ data = [w \in Watchers |-> NONE]
  /\ open = {}
  /\ ready = [f \in Fds |-> {}]
  /\ interest = [f \in Fds |-> NoInterest]
  /\ armed = {}
  /\ step = "outside"
  /\ batch = {}
  /\ cur = NoEvent

-----------------------------------------------------------------------------
(* The program and the kernel's descriptors.                               *)

\* The program opens a descriptor with a number that is not in use.
Open(f) ==
  /\ ProgramRuns
  /\ f \notin open
  /\ open' = open \cup {f}
  /\ UNCHANGED <<pollVars, ready, interest, armed, loopVars>>

\* A condition comes about, or comes about again: an edge, if it is watched.
Arrive(f, ev) ==
  /\ f \in open
  /\ ready' = [ready EXCEPT ![f] = @ \cup {ev}]
  /\ armed' = IF ev \in interest[f].events THEN armed \cup {f} ELSE armed
  /\ UNCHANGED <<pollVars, open, interest, loopVars>>

-----------------------------------------------------------------------------
(* Registrations.                                                          *)

mark_dirty(p) == dirty' = dirty \cup {p}

\* kh_put and the struct's creation, when the descriptor has none.
PollOf(f, p) ==
  IF pollers[f] # NONE
    THEN p = pollers[f] /\ UNCHANGED <<live, pollers, fd>>
    ELSE /\ p \notin live
         /\ live' = live \cup {p}
         /\ pollers' = [pollers EXCEPT ![f] = p]
         /\ fd' = [fd EXCEPT ![p] = f]

\* ev_watch, of a watcher that is not registered, for an event that no other
\* watcher waits for, as it asserts.
Watch(w, f, ev, p) ==
  /\ ProgramRuns
  /\ f \in open
  /\ ~Registered(w)
  /\ PollOf(f, p)
  /\ data' = [data EXCEPT ![w] = p]
  /\ CASE ev = "in"  -> rd[p] = NONE /\ rd' = [rd EXCEPT ![p] = w] /\ UNCHANGED wr
       [] ev = "out" -> wr[p] = NONE /\ wr' = [wr EXCEPT ![p] = w] /\ UNCHANGED rd
  /\ mark_dirty(p)
  /\ UNCHANGED <<added, kernelVars, loopVars>>

\* ev_unwatch of a registered watcher; with no poll_data it does nothing.
Unwatch(w) ==
  LET p == data[w] IN
  /\ ProgramRuns
  /\ Registered(w)
  /\ data' = [data EXCEPT ![w] = NONE]
  /\ IF rd[p] = w
       THEN rd' = [rd EXCEPT ![p] = NONE] /\ UNCHANGED wr
       ELSE wr' = [wr EXCEPT ![p] = NONE] /\ UNCHANGED rd
  /\ mark_dirty(p)
  /\ UNCHANGED <<live, pollers, fd, added, kernelVars, loopVars>>

\* close(f): the kernel drops the descriptor from the interest list, and from
\* the ready list.
KernelClose(f) ==
  /\ open' = open \ {f}
  /\ ready' = [ready EXCEPT ![f] = {}]
  /\ interest' = [interest EXCEPT ![f] = NoInterest]
  /\ armed' = armed \ {f}

\* Fault: the watchers stay in the struct.
DetachNothing(p) == UNCHANGED <<rd, wr>>

\* ev_close takes the watchers out of the struct.
Detach(p) ==
  /\ rd' = [rd EXCEPT ![p] = NONE]
  /\ wr' = [wr EXCEPT ![p] = NONE]

\* Fault: the struct is freed at once.
ReleaseNow(p) == live' = live \ {p} /\ dirty' = dirty \ {p}

\* Fault: the struct does not get on the dirty list.
ReleaseNever(p) == UNCHANGED <<live, dirty>>

\* ev_close leaves the struct to the dirty loop to free.
Release(p) == mark_dirty(p) /\ UNCHANGED live

\* ev_close: the struct is taken out of the hash and left to the dirty list.
Close(f) ==
  LET p == pollers[f] IN
  /\ ProgramRuns
  /\ f \in open
  /\ IF p = NONE
       THEN UNCHANGED pollVars
       ELSE /\ pollers' = [pollers EXCEPT ![f] = NONE]
            /\ fd' = [fd EXCEPT ![p] = NONE]
            /\ Detach(p)
            /\ Release(p)
            /\ UNCHANGED <<added, data>>
  /\ KernelClose(f)
  /\ UNCHANGED loopVars

-----------------------------------------------------------------------------
(* The loop.                                                               *)

\* Fault: a struct that the kernel knows is not registered anew.
UpdatedOnce == {p \in dirty : fd[p] # NONE /\ Wanted(p) # {} /\ ~added[p]}

\* The structs for which the dirty loop calls epoll_ctl: EPOLL_CTL_ADD, or
\* else EPOLL_CTL_MOD.  The events it takes the kernel to know are those in
\* p->flags, where no function sets any.
Updated == {p \in dirty : fd[p] # NONE /\ Wanted(p) # {}}

\* epoll_ctl refuses to add a descriptor that is in the interest list, and to
\* modify one that is not; evloop_step ignores its result.
Accepted(f) ==
  \E p \in Updated : fd[p] = f /\ (added[p] <=> interest[f] # NoInterest)

Freed == {p \in dirty : fd[p] = NONE}

\* Fault: the list is not emptied.
KeepList == UNCHANGED dirty

EmptyList == dirty' = {}

\* evloop_step when no timer is due: every dirty struct is freed if it was
\* closed, or else the kernel is told what its watchers want, and puts the
\* descriptor on its ready list if such an event's condition holds already.
UpdateKernel ==
  /\ step = "outside"
  /\ live' = live \ Freed
  /\ interest' = [f \in Fds |->
       IF Accepted(f)
         THEN [events |-> Wanted(pollers[f]), poll |-> pollers[f]]
         ELSE interest[f]]
  /\ armed' = {f \in Fds :
       IF Accepted(f)
         THEN ready[f] \cap Wanted(pollers[f]) # {}
         ELSE f \in armed}
  /\ added' = [p \in Polls |-> (added[p] \/ p \in Updated) /\ p \notin Freed]
  /\ EmptyList
  /\ step' = "wait"
  /\ UNCHANGED <<pollers, fd, rd, wr, data, open, ready, batch, cur>>

\* epoll_wait returns the descriptors at the front of the ready list, and takes
\* them off it, because they are registered with EPOLLET; it returns with none
\* when the time-out of the timers has passed.
EpollWait(fs) ==
  /\ step = "wait"
  /\ fs \subseteq armed
  /\ Cardinality(fs) <= MaxEvents
  /\ armed # {} => fs # {}
  /\ armed' = armed \ fs
  /\ batch' = {[poll |-> interest[f].poll, fd |-> f,
                events |-> ready[f] \cap interest[f].events] : f \in fs}
  /\ step' = "events"
  /\ UNCHANGED <<pollVars, open, ready, interest, cur>>

\* epoll_wait fails, and evloop_step returns -1: the kernel knows of the structs
\* that are no longer on the dirty list.
WaitFails ==
  /\ step = "wait"
  /\ step' = "outside"
  /\ UNCHANGED <<pollVars, kernelVars, batch, cur>>

\* The loop over the batch, up to p->rd->fn.
NextEvent(e) ==
  /\ step = "events"
  /\ e \in batch
  /\ batch' = batch \ {e}
  /\ cur' = e
  /\ step' = IF rd[e.poll] # NONE /\ "in" \in e.events THEN "reading" ELSE "between"
  /\ UNCHANGED <<pollVars, kernelVars>>

\* A callback uses up what it was called for, until recv and send would block,
\* unless it ends its registration or renews one on the descriptor.
Drain(p, slot, ev) ==
  \/ fd[p] # NONE /\ ready' = [ready EXCEPT ![fd[p]] = @ \ {ev}]
  \/ (slot[p] = NONE \/ p \in dirty) /\ UNCHANGED ready

\* p->rd->fn returns.
ReadReturns ==
  /\ step = "reading"
  /\ Drain(cur.poll, rd, "in")
  /\ step' = "between"
  /\ UNCHANGED <<pollVars, open, interest, armed, batch, cur>>

\* The test of p->wr, which the call of p->rd->fn may have changed.
NextWrite ==
  /\ step = "between"
  /\ IF wr[cur.poll] # NONE /\ "out" \in cur.events
       THEN step' = "writing" /\ UNCHANGED cur
       ELSE step' = "events" /\ cur' = NoEvent
  /\ UNCHANGED <<pollVars, kernelVars, batch>>

\* p->wr->fn returns.
WriteReturns ==
  /\ step = "writing"
  /\ Drain(cur.poll, wr, "out")
  /\ step' = "events"
  /\ cur' = NoEvent
  /\ UNCHANGED <<pollVars, open, interest, armed, batch>>

\* The batch is finished, and evloop_step returns.
StepReturns ==
  /\ step = "events"
  /\ batch = {}
  /\ step' = "outside"
  /\ UNCHANGED <<pollVars, kernelVars, batch, cur>>

\* evloop_destroy closes the descriptors of the hash and frees their structs.
\* The list that it leaves behind is never worked off: a struct that ev_close
\* has put there stays allocated.
Destroy ==
  /\ step = "outside"
  /\ live' = live \ {pollers[f] : f \in Fds}
  /\ pollers' = [f \in Fds |-> NONE]
  /\ dirty' = dirty \cap live'
  /\ open' = {f \in open : pollers[f] = NONE}
  /\ ready' = [f \in Fds |-> IF f \in open' THEN ready[f] ELSE {}]
  /\ interest' = [f \in Fds |-> NoInterest]
  /\ armed' = {}
  /\ step' = "destroyed"
  /\ fd' = [p \in Polls |-> NONE]
  /\ rd' = [p \in Polls |-> NONE]
  /\ wr' = [p \in Polls |-> NONE]
  /\ added' = [p \in Polls |-> added[p] /\ p \in live']
  /\ UNCHANGED <<data, batch, cur>>

Next ==
  \/ \E f \in Fds : Open(f)
  \/ \E f \in Fds, ev \in Events : Arrive(f, ev)
  \/ \E w \in Watchers, f \in Fds, ev \in Events, p \in Polls : Watch(w, f, ev, p)
  \/ \E w \in Watchers : Unwatch(w)
  \/ \E f \in Fds : Close(f)
  \/ UpdateKernel
  \/ \E fs \in SUBSET Fds : EpollWait(fs)
  \/ WaitFails
  \/ \E e \in batch : NextEvent(e)
  \/ ReadReturns
  \/ NextWrite
  \/ WriteReturns
  \/ StepReturns
  \/ Destroy

Spec == Init /\ [][Next]_vars

-----------------------------------------------------------------------------
(* Properties.                                                             *)

Handed == batch \cup (IF cur = NoEvent THEN {} ELSE {cur})

\* Every variable has a value of its type, and the lists hold structs that are
\* allocated.
TypeOK ==
  /\ live \subseteq Polls
  /\ pollers \in [Fds -> live \cup {NONE}]
  /\ fd \in [Polls -> Fds \cup {NONE}]
  /\ rd \in [Polls -> Watchers \cup {NONE}]
  /\ wr \in [Polls -> Watchers \cup {NONE}]
  /\ added \in [Polls -> BOOLEAN]
  /\ dirty \subseteq live
  /\ data \in [Watchers -> Polls \cup {NONE}]
  /\ open \subseteq Fds
  /\ ready \in [Fds -> SUBSET Events]
  /\ interest \in [Fds -> [events : SUBSET Events, poll : Polls \cup {NONE}]]
  /\ armed \subseteq open
  /\ step \in Places
  /\ \A e \in Handed : e \in [poll : Polls, fd : Fds, events : SUBSET Events]

\* The pointers that the kernel holds, and those in the batch that is being
\* handed out, point to allocated structs, and to the struct of the descriptor
\* the event is about: a callback that closes descriptors and opens others
\* leaves no event that reaches freed memory or another descriptor's watcher.
PointersAreLive ==
  /\ \A f \in Fds : interest[f].poll # NONE =>
       interest[f].poll \in live /\ fd[interest[f].poll] = f
  /\ \A e \in Handed : e.poll \in live /\ fd[e.poll] \in {e.fd, NONE}

\* No struct is lost: one that its descriptor no longer names is on the list
\* that frees it.  After evloop_destroy these are all that is left.
ClosedAreOnList == \A p \in live : (\E f \in Fds : pollers[f] = p) \/ p \in dirty

\* A registered watcher belongs to an open descriptor, and its back pointer, by
\* which ev_unwatch finds the struct, is right.
WatchersOfOpenFds ==
  \A p \in live : \A w \in {rd[p], wr[p]} \ {NONE} :
    /\ data[w] = p
    /\ fd[p] \in open /\ pollers[fd[p]] = p

\* A condition that a watcher waits for will come up: the struct is on the list
\* that registers it anew, its descriptor is on the kernel's ready list, or the
\* event is in the batch and its function has not returned.
OnItsWay(p, f, ev) ==
  \/ p \in dirty
  \/ f \in armed /\ interest[f].poll = p /\ ev \in interest[f].events
  \/ \E e \in batch : e.poll = p /\ ev \in e.events
  \/ /\ cur.poll = p /\ ev \in cur.events
     /\ step = "reading" \/ (ev = "out" /\ step \in {"between", "writing"})

\* No readiness is lost to the edge-triggered reports, whatever the functions
\* do to the registrations while a batch is handed out: a condition that holds,
\* with a watcher that waits for it, is on its way to it.  The kernel knows every
\* event that a watcher waits for, or is told before the next epoll_wait.
NothingMissed ==
  step # "destroyed" =>
    \A f \in Fds : pollers[f] # NONE =>
      LET p == pollers[f] IN
      /\ \A ev \in Wanted(p) \cap ready[f] : OnItsWay(p, f, ev)
      /\ Wanted(p) \subseteq interest[f].events \/ (p \in dirty /\ step # "wait")

\* The comment on the dirty loop, "update the kernel with any changes": in
\* epoll_wait the kernel's interest is what the watchers want.
KernelIsUpdated ==
  step = "wait" =>
    \A f \in Fds : pollers[f] # NONE =>
      interest[f].events = Wanted(pollers[f])

\* The assertion of ev_unwatch, w == p->wr, for every watcher that has a
\* poll_data and so gets there, and that the p it reads is allocated, as long
\* as there is a loop.
UnwatchAssertion ==
  step # "destroyed" =>
    \A w \in Watchers : data[w] # NONE =>
      data[w] \in live /\ w \in {rd[data[w]], wr[data[w]]}

(***************************************************************************)
(* The inductive invariant.                                                *)
(***************************************************************************)

\* The hash and the structs name each other.  A struct that was closed is on the
\* list and has no watchers; one that is not allocated has all fields 0.
StructsAgree ==
  /\ \A f \in Fds : pollers[f] # NONE => f \in open /\ fd[pollers[f]] = f
  /\ \A p \in live :
       IF fd[p] = NONE THEN p \in dirty /\ rd[p] = NONE /\ wr[p] = NONE
                       ELSE pollers[fd[p]] = p
  /\ \A p \in Polls \ live : fd[p] = NONE /\ rd[p] = NONE /\ wr[p] = NONE /\ ~added[p]
  /\ \A p \in Polls : rd[p] # NONE => rd[p] # wr[p]

\* The structs with EPOLLET are those in the interest list.
KernelAgrees ==
  \A f \in Fds :
    IF pollers[f] # NONE /\ added[pollers[f]]
      THEN interest[f].poll = pollers[f]
      ELSE interest[f] = NoInterest /\ f \notin armed

\* Where the loop waits there is no event in hand, and nothing on the list.
LoopAgrees ==
  /\ step \in {"outside", "wait", "destroyed"} => batch = {}
  /\ step \in {"reading", "between", "writing"} <=> cur # NoEvent
  /\ step = "wait" => dirty = {}

Inv ==
  /\ TypeOK
  /\ StructsAgree
  /\ WatchersOfOpenFds
  /\ KernelAgrees
  /\ LoopAgrees
  /\ PointersAreLive
  /\ NothingMissed

=============================================================================
