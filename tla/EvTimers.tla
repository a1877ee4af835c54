------------------------------ MODULE EvTimers ------------------------------
(***************************************************************************)
(* The timers of evloop.c and the part of evloop_step that drives them:    *)
(* the loop runs the timers that are due, or waits in epoll_wait until the *)
(* first deadline, reads the clock and hands out events.                   *)
(*                                                                         *)
(* The heap is the queue it implements (Heap.tla): a set of entries.  A    *)
(* node's index is abstracted to what ev_stop tells apart.  Real time is   *)
(* kept relative to the loop's last reading of the clock, so that it may   *)
(* wrap around for ever: `lag' is the time since that reading, and the     *)
(* history variable `rest' the time from it to the timer's deadline.       *)
(***************************************************************************)
EXTENDS Mod32

CONSTANTS
  Timers,      \* the struct evtimer objects
  MinDelay,    \* the delays that the program passes to ev_timeout
  MaxDelay,
  MaxBusy,     \* bound on the time the program runs between two waits, and
               \* on how late the kernel wakes the loop
  MaxSignals,  \* bound on the signals that interrupt one evloop_step
  Misuses      \* may the program stop a timer that has fired, and set one
               \* that is pending?

\* The time between two readings of the clock: some work, then a wait that
\* every signal restarts in full.
MaxLag == MaxBusy + (MaxSignals + 1) * (MaxDelay + MaxBusy)

ASSUME TimersAssumption ==
  /\ MinDelay \in Nat /\ MaxDelay \in Nat /\ MinDelay <= MaxDelay
  /\ MaxBusy \in Nat /\ MaxSignals \in Nat
  /\ MaxDelay + MaxLag < Half
  /\ Misuses \in BOOLEAN

Delays == MinDelay..MaxDelay

VARIABLES
  now,      \* e->now
  queue,    \* e->timers
  index,    \* t->heap.index: "invalid"; "queued", the slot of its entry; or
            \* the HEAP_HEAD that heap_remove leaves, which is as valid to the
            \* code as a slot: "stale" once the timer has fired, and "lost"
            \* once the ev_stop of another one took it out.  The code cannot
            \* tell the last three apart.
  step,     \* where the loop is
  timeout,  \* timeout_ms of the evloop_step that waits
  left,     \* the time until that epoll_wait times out; negative when late
  signals,  \* the signals it has received
  lag,      \* the real time since e->now was read
  rest      \* the real time from that reading to each timer's deadline, 0 for
            \* a timer that is not in the heap

vars == <<now, queue, index, step, timeout, left, signals, lag, rest>>

(***************************************************************************)
(* The places of the loop:                                                 *)
(*   "outside"   the program is not in evloop_step                         *)
(*   "timers"    ev_step_timers is about to run the first timer            *)
(*   "callback"  it runs t->fn                                             *)
(*   "wait"      in epoll_wait                                             *)
(*   "dispatch"  evloop_step runs the callbacks of events                  *)
(*   "undefined" the model says nothing of what comes after: heap_remove   *)
(*               has read a slot that was never written, a node is in the  *)
(*               heap twice, or more signals than MaxSignals have restarted *)
(*               one wait                                                  *)
(***************************************************************************)
Places == {"outside", "timers", "callback", "wait", "dispatch", "undefined"}

ProgramRuns == step \in {"outside", "callback", "dispatch"}

Queued(t) == \E e \in queue : e.node = t

\* An entry that can be in the slot HEAP_HEAD: the heap orders entries of equal
\* value arbitrarily.
IsHead(e) == e \in queue /\ \A f \in queue : ~Less(f.value, e.value)

HeadValue == CHOOSE x \in {e.value : e \in queue} :
               \A f \in queue : ~Less(f.value, x)

\* Fault: the difference is not taken as signed.
NextTimeoutUnsigned ==
  IF queue = {} THEN -1 ELSE Minus(HeadValue, now)

\* next_timeout.
NextTimeout ==
  IF queue = {} THEN -1
  ELSE LET diff == Signed(Minus(HeadValue, now))
       IN IF diff > 0 THEN diff ELSE 0

\* Fault: a result of 0 does not count as timers that are due.
DueNever == FALSE

\* A timer is due: ev_step_timers runs it, and evloop_step does not wait.
Due == NextTimeout = 0

\* Fault: the entry stays.
RemoveNothing(e) == UNCHANGED queue

\* heap_remove of the entry in a slot.
Remove(e) == queue' = queue \ {e}

\* Fault: e->now is not read again.
ReadNoClock == UNCHANGED now

\* e->now = get_ticks().
ReadClock == now' = Plus(now, lag)

-----------------------------------------------------------------------------
Init ==
  /\ now \in Values
  /\ queue = {}
  /\ index = [t \in Timers |-> "invalid"]
  /\ step = "outside"
  /\ timeout = -1
  /\ left = -1
  /\ signals = 0
  /\ lag = 0
  /\ rest = [t \in Timers |-> 0]

\* ev_alarm(t, ev_timeout(msecs)), of a timer that is not pending.
Alarm(t, msecs) ==
  /\ ProgramRuns
  /\ ~Queued(t)
  /\ queue' = queue \cup {[value |-> Plus(now, msecs), node |-> t]}
  /\ index' = [index EXCEPT ![t] = "queued"]
  /\ rest' = [rest EXCEPT ![t] = msecs]
  /\ UNCHANGED <<now, step, timeout, left, signals, lag>>

\* The same of a pending one, for which the code has no check: the node is in
\* the heap a second time, and its index leads to one of the two entries.
AlarmTwice(t) ==
  /\ Misuses
  /\ ProgramRuns
  /\ Queued(t)
  /\ step' = "undefined"
  /\ UNCHANGED <<now, queue, index, timeout, left, signals, lag, rest>>

\* ev_stop of a pending timer; of one whose index is HEAP_INVALID it does
\* nothing.
Stop(t) ==
  /\ ProgramRuns
  /\ index[t] = "queued"
  /\ queue' = {e \in queue : e.node # t}
  /\ index' = [index EXCEPT ![t] = "invalid"]
  /\ rest' = [rest EXCEPT ![t] = 0]
  /\ UNCHANGED <<now, step, timeout, left, signals, lag>>

\* ev_stop of a timer that is out of the heap with the index HEAP_HEAD: the
\* entry in that slot is removed.
StopStale(t) ==
  /\ Misuses
  /\ ProgramRuns
  /\ index[t] \in {"stale", "lost"}
  /\ \E e \in queue :
       /\ IsHead(e)
       /\ Remove(e)
       /\ index' = [index EXCEPT ![e.node] = "lost", ![t] = "invalid"]
       /\ rest' = [rest EXCEPT ![e.node] = 0]
  /\ UNCHANGED <<now, step, timeout, left, signals, lag>>

\* The same with no entry in the heap: heap_remove takes the slot 0 for the last
\* entry.
StopEmpty(t) ==
  /\ Misuses
  /\ ProgramRuns
  /\ index[t] \in {"stale", "lost"}
  /\ queue = {}
  /\ step' = "undefined"
  /\ UNCHANGED <<now, queue, index, timeout, left, signals, lag, rest>>

Undefined == step = "undefined" /\ UNCHANGED vars

\* evloop_step up to the first timer that is due, or else up to epoll_wait.
BeginStep ==
  /\ step = "outside"
  /\ IF Due
       THEN /\ step' = "timers"
            /\ UNCHANGED <<timeout, left, signals>>
       ELSE /\ step' = "wait"
            /\ timeout' = NextTimeout
            /\ left' = NextTimeout
            /\ signals' = 0
  /\ UNCHANGED <<now, queue, index, lag, rest>>

\* The loop of ev_step_timers: the head is removed and its function called.
Fire(e) ==
  /\ step = "timers"
  /\ IsHead(e)
  /\ Remove(e)
  /\ index' = [index EXCEPT ![e.node] = "stale"]
  /\ rest' = [rest EXCEPT ![e.node] = 0]
  /\ step' = "callback"
  /\ UNCHANGED <<now, timeout, left, signals, lag>>

\* The function returns; evloop_step returns 0 once no timer is due.
CallbackReturn ==
  /\ step = "callback"
  /\ step' = IF Due THEN "timers" ELSE "outside"
  /\ UNCHANGED <<now, queue, index, timeout, left, signals, lag, rest>>

\* Time passes, everywhere.  Without a time-out the wait may last for ever:
\* there are no deadlines then, and MaxLag only bounds the model.
Tick ==
  /\ step # "undefined"
  /\ IF step # "wait" THEN lag < MaxBusy
     ELSE IF timeout = -1 THEN lag < MaxLag
     ELSE left > -MaxBusy
  /\ lag' = lag + 1
  /\ left' = IF timeout = -1 THEN left ELSE left - 1
  /\ UNCHANGED <<now, queue, index, step, timeout, signals, rest>>

\* Fault: the time-out is added up.
InterruptAdds ==
  /\ step = "wait"
  /\ signals < MaxSignals
  /\ signals' = signals + 1
  /\ left' = timeout + timeout
  /\ UNCHANGED <<now, queue, index, step, timeout, lag, rest>>

\* A signal interrupts epoll_wait: goto try_again, with the same timeout.
Interrupt ==
  /\ step = "wait"
  /\ signals < MaxSignals
  /\ signals' = signals + 1
  /\ left' = timeout
  /\ UNCHANGED <<now, queue, index, step, timeout, lag, rest>>

\* There is no limit to such signals.  As long as they come one after the other,
\* no timer fires.
TooManySignals ==
  /\ step = "wait"
  /\ signals = MaxSignals
  /\ step' = "undefined"
  /\ UNCHANGED <<now, queue, index, timeout, left, signals, lag, rest>>

\* epoll_wait returns and the clock is read.
WaitReturn(place) ==
  /\ step = "wait"
  /\ step' = place
  /\ timeout' = -1 /\ left' = -1 /\ signals' = 0
  /\ ReadClock
  /\ lag' = 0
  /\ rest' = [t \in Timers |-> IF Queued(t) THEN rest[t] - lag ELSE 0]
  /\ UNCHANGED <<queue, index>>

\* With no events.
TimedOut == timeout # -1 /\ left <= 0 /\ WaitReturn("outside")

\* With events.
EventsCome == WaitReturn("dispatch")

\* The last event's callback returns, and evloop_step returns 0.
DispatchReturn ==
  /\ step = "dispatch"
  /\ step' = "outside"
  /\ UNCHANGED <<now, queue, index, timeout, left, signals, lag, rest>>

Loop ==
  \/ BeginStep
  \/ \E e \in queue : Fire(e)
  \/ CallbackReturn
  \/ TimedOut
  \/ DispatchReturn

Next ==
  \/ \E t \in Timers, msecs \in Delays : Alarm(t, msecs)
  \/ \E t \in Timers : Stop(t)
  \/ \E t \in Timers : AlarmTwice(t) \/ StopStale(t) \/ StopEmpty(t)
  \/ Undefined
  \/ Loop
  \/ Tick
  \/ Interrupt
  \/ TooManySignals
  \/ EventsCome

Spec == Init /\ [][Next]_vars

\* The program calls evloop_step again and again and its callbacks return.
\* Time passes even when every step of the loop is cut short by an event, so
\* it is not enough that Tick happens when it stays enabled.
Fairness ==
  /\ WF_vars(BeginStep)
  /\ WF_vars(\E e \in queue : Fire(e))
  /\ WF_vars(CallbackReturn)
  /\ WF_vars(TimedOut)
  /\ WF_vars(DispatchReturn)
  /\ SF_vars(Tick)

FairSpec == Spec /\ Fairness

-----------------------------------------------------------------------------
(* Properties.                                                             *)

\* Every variable has a value of its type in evloop.epoll.h, and time does not
\* pass the bounds.
TypeOK ==
  /\ now \in Values
  /\ queue \subseteq [value : Values, node : Timers]
  /\ index \in [Timers -> {"invalid", "queued", "stale", "lost"}]
  /\ step \in Places
  /\ timeout \in -1..MaxDelay
  /\ left \in Int
  /\ signals \in 0..MaxSignals
  /\ lag \in 0..MaxLag
  /\ rest \in [Timers -> -MaxLag..MaxDelay]

\* All deadlines in the heap are less than half the range apart, as the
\* comparison of heap_less needs, and no further from now, as next_timeout does.
HalfRange ==
  \A e, f \in queue :
    /\ Signed(Minus(e.value, f.value)) = rest[e.node] - rest[f.node]
    /\ Signed(Minus(e.value, now)) = rest[e.node]

\* A wait is set to end at the first deadline: when the loop waits, no timer is
\* due, and no timer is earlier than the time-out of epoll_wait.
WaitsForFirst ==
  step = "wait" =>
    /\ queue = {} <=> timeout = -1
    /\ \A e \in queue : rest[e.node] >= timeout
    /\ queue # {} => timeout > 0 /\ \E e \in queue : rest[e.node] = timeout

\* How late the clock is read after the deadline of a timer: the work before
\* the wait, and the kernel, and what a signal can make of the time-out, which
\* begins anew with it.
MaxLate == 2 * MaxBusy + MaxSignals * (MaxDelay + MaxBusy)

\* No pending timer is later than that, because the loop waits only when none is
\* due: timers and events that come all the time hold up no timer.
NotTooLate ==
  \A t \in Timers : Queued(t) =>
    IF step = "wait" THEN lag - rest[t] <= MaxLate ELSE -rest[t] <= MaxLate

\* A timer fires when the clock was last read at or after its deadline, and
\* before every timer with a later one, wherever the values wrap around.
FiresDueInOrder ==
  [][\A e \in queue :
       step = "timers" /\ e \notin queue' =>
         /\ rest[e.node] <= 0
         /\ \A f \in queue : rest[e.node] <= rest[f.node]]_vars

\* The callbacks stop setting alarms with a delay of 0, which ev_step_timers
\* would run in one call, without reading the clock, for ever.
NoBusyLoop == <>[][\A t \in Timers : ~Alarm(t, 0)]_vars

\* Every alarm fires unless it is stopped by the ev_stop of its own timer,
\* whatever events come, if: the callbacks leave the loop (NoBusyLoop); no more
\* than MaxSignals signals come in one wait, and no timer is set twice or stopped
\* with an empty heap (step # "undefined"); and no ev_stop of another timer takes
\* this one out (index # "lost").
AlarmsFire ==
  NoBusyLoop /\ [](step # "undefined") =>
    \A t \in Timers : [](index[t] # "lost") => (Queued(t) ~> ~Queued(t))

\* The loop gets back to epoll_wait: timers do not keep it from events, if
\* NoBusyLoop.
EventsArePolled ==
  NoBusyLoop => []<>(step \in {"wait", "undefined"})

\* ev_stop takes no other timer out of the heap.
StopsOnlyItself ==
  [][\A e \in queue :
       step # "timers" /\ e \notin queue' => index'[e.node] = "invalid"]_vars

(***************************************************************************)
(* The inductive invariant: how long a wait can last, how late a timer can *)
(* be when it is over, and that the loop of ev_step_timers has one to run. *)
(***************************************************************************)

\* What the label "queued" means; the code has no such test.
LabelsAgree ==
  /\ \A t \in Timers : index[t] = "queued" <=> Queued(t)
  /\ \A e, f \in queue : e.node = f.node => e = f

WaitIsBounded ==
  /\ step = "wait" /\ timeout # -1 =>
       /\ left >= -MaxBusy
       /\ lag <= MaxBusy + signals * (timeout + MaxBusy) + (timeout - left)
  /\ step \notin {"wait", "undefined"} =>
       timeout = -1 /\ left = -1 /\ lag <= MaxBusy

WaitEndedInTime ==
  step # "wait" => \A e \in queue : -rest[e.node] <= MaxLate

TimersAreDue == step = "timers" => \E e \in queue : rest[e.node] <= 0

Inv ==
  /\ TypeOK
  /\ LabelsAgree
  /\ HalfRange
  /\ WaitsForFirst
  /\ WaitIsBounded
  /\ TimersAreDue
  /\ WaitEndedInTime

=============================================================================
