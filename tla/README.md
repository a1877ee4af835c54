# Models and proofs of cthread

cthread is a small C library of cooperative threads: stacks that hand control to
each other explicitly on one OS thread, an event loop with timers (a binary heap of
wrapping 32-bit deadlines) and with descriptors (edge-triggered epoll), and a test
program that puts sleeping, joining threads on that loop. This directory holds TLA+
modules of these parts, the TLC configurations that check them, and TLAPS proofs.

    tlc -config Cthread.cfg MCCthread     # a run; the list is below
    tlapm CthreadProofs.tla               # a module of proofs

## 1. Inventory

The code is single-threaded by design: nothing preempts, so all that is hard comes
from transfers of control (a function that switches stacks returns much later, in a
world that others have changed), from callbacks that change what their caller is
iterating over, from clocks that wrap around, and from the kernel.

| Component | Files | State | Operations | Works with |
|---|---|---|---|---|
| Coroutine core | `cthread.c`, `cthread.h`, `cthread-impl.h`, `cthread.sysv64.s` | per thread: saved stack, `yield_to`, `exit_to`, `finished`; per `cthread_main`: its saved stack, `num_threads`; the current thread (thread-specific value) | start, main_start, call, tailcall, yield, join, exit, altstack | everything that runs on a thread |
| Timer heap | `heap.c`, `heap.h` | array of (deadline, node), size, capacity; the index in each node | insert, remove | timers |
| Timers | `evloop.c` | the heap, `e->now` | `ev_timeout`, `ev_alarm`, `ev_stop`, `ev_step_timers` | heap, loop, program's callbacks |
| Descriptors and loop | `evloop.epoll.c` | hash of descriptors to structs, dirty list, watchers' back pointers; the kernel's interest and ready lists | `ev_watch`, `ev_unwatch`, `ev_close`, `evloop_step` | kernel, timers, callbacks |
| Threads on the loop | `main.c`, `cthread-evloop.c/.h` | a timer on each sleeper's stack | `do_sleep`, `cthread_alarm`, `cthread_stop`, `timer_wakeup`, `main` | core and timers |
| Allocation | `mem.h`, `xmalloc`... in `cthread.c` | none of its own | the C library's functions, run on main's stack by `cthread_altstack` | core |
| Hash table of descriptors | `khash.h`, vendored, as `evloop.epoll.c` instantiates it | sizes and counts, two flag bits per bucket, keys and values in place | `kh_get`, `kh_put` with `kh_resize`, `kh_del`, `kh_destroy` | descriptors |
| Thread-specific storage | `tls.c`, `tls.h` | once flag and key | `create_tls_key` | not in `build.ninja` |
| Windows loop | `evloop.windows.c/.h` | overlapped operations | a fragment without a loop | not in `build.ninja` |
| C11-style wrappers | `cthread-c11threads.h`, `cthread-atomics.h` | mutex and condition variable declared only | `ct_thrd_*`, plain-access atomics | core |
| Debugger, build | `unwinder.py`, `build.ninja`, `test.c` | | | |

What makes each component correct, and what is hard about it:

* **Core.** Exactly one context runs and `cthread_self` names it. `yield_to`, a pointer
  that each call overwrites, must always lead back through the callers that are really
  suspended in a call, down to main. A joiner is woken by the exit it waits for and by
  nothing else. A finished thread is never resumed. `num_threads` is right.
* **Heap.** The head is the earliest deadline although comparison wraps around; the
  index in each node is right while entries move; removal from the middle, which sends
  the entry to the top with a fake value, removes that entry and no other.
* **Timers.** Deadlines stay within half the range; the loop never waits past the first
  one; timers fire when due, in order, and all of them; timers do not starve events.
* **Descriptors.** Callbacks close, open and re-register descriptors while a batch of
  events is handed out: no event may reach freed memory or another descriptor's watcher,
  nothing is leaked, and edge-triggered reporting loses no readiness.
* **Hash table.** Every search ends and finds what is in the table, past deleted buckets and
  after the entries have been moved about in their own arrays.
* **Thread-specific key.** OS threads race to create it, on weakly ordered memory: one of
  them does, and no other uses it too early.
* **Threads on the loop.** `timer_wakeup` resumes a thread whatever it is doing; the loop
  must not sleep for ever while a thread is unfinished; main must return.

The commit does not build as it stands (`ev_alarm` has three parameters in `evloop.c`
and two in `evloop.h`; `evloop.epoll.c` uses `w->poll_data` and `enum ev_event`, which
no header declares any more; `cthread_cancel` is defined twice and calls `ev_cancel`,
which does not exist). The models follow the function bodies, which agree with each
other on what these names mean.

## 2. Modules

| Module | Role |
|---|---|
| `Cthread` | the coroutine core |
| `CallStack` | what the core's linked list of callers promises: a stack |
| `CthreadProofs` | theorems about `Cthread` |
| `Mod32` | wrapping values: difference, sum, comparison, sign |
| `Heap` | the binary heap, one step per loop iteration |
| `TimerQueue` | what the heap promises: a set of entries |
| `HeapProofs` | theorems about `Heap` |
| `Mod32Proofs` | lemmas about wrapping values |
| `EvTimers` | timers and the waiting part of `evloop_step` |
| `EvTimersProofs` | theorems about `EvTimers` |
| `EvPoll` | descriptors and the dispatching part of `evloop_step` |
| `EvPollProofs` | theorems about `EvPoll` |
| `KHash` | the hash table of the descriptors |
| `PollerTable` | what the hash table promises: at most one value per key |
| `KHashProofs` | theorems about `KHash` |
| `Program` | `Cthread` and `EvTimers` composed as `main.c` does |
| `ProgramProofs` | theorems about `Program`, from those about its two parts |
| `TlsOnce` | `create_tls_key` |
| `TlsOnceProofs` | theorems about `TlsOnce` |
| `MC*` | the modules TLC runs on, with symmetry sets where they are sound |

Each module has its constants and their named assumption first, then variables,
operations, specification and properties. Operators whose comment starts with *Fault:*
are wrong variants of the operator that follows them, used to see that the properties
notice such a mistake; no specification refers to them.

### Cthread

A *context* is a thread or main, which the code names by a null pointer. The saved stack
pointer of a context becomes `at[c]`, the place where loading it resumes: `"call"` inside
`cthread_call` or a start function, `"parked"` inside `cthread_yield` or
`cthread_tailcall`, `"join"`, `"exit"`, or `"live"` while it runs and the saved pointer is
stale. `yieldTo`, `exitTo`, `finished`, `numThreads` and `self` are the fields and the
thread-specific value of those names; `joinOf` is the argument of the `cthread_join` frame
on a thread's stack; `alt` is the thread inside `cthread_altstack`.

`Switch` is `set_thread` followed by `cthread_asm_switch`; `DoCall`, `DoYield` and
`DoTailCall` are the three ways the code computes where to go and what `yield_to` becomes,
and every action below uses one: `MainStart`, `Start`, `Call`, `TailCall`, `Yield`, `Join`
(up to the switch), `JoinReturn` (after it), `Exit`, `AltEnter`, `AltReturn`. A function
that gives up control in the middle is two actions. The precondition the code leaves to
its caller, that `cthread_call` and `cthread_tailcall` name a thread that gave up control
by itself, is a guard here, and a property of `Program` (`KeepsThreadRules`). A thread may be joined by
several: `exit_to` has room for one of them, the last, and the exit wakes that one only; the
others stay suspended, and nothing in the code would wake them. `NoLostJoiner` says what does
hold: `exit_to` never names a thread that does not wait while another one does.

`Chain` maps the pointers to the stack of `CallStack`: the one list of all `Callers`, the contexts
that are live or in a call, in which `yieldTo` of each but main is the one before it.

### Heap, TimerQueue

`v`, `size`, `cap` and `index` are the fields. `heap_insert` and `heap_remove` run
uninterrupted, but an invariant of their loops is what makes them right, so one step is
one iteration: `phase` and `pos` say where the loop is, and `leaving` which node
`heap_remove` is sending to the top. Values wrap around at `2 * Half` for any `Half`;
`base` is a moving lower end of the deadlines that can be pending together (`Window`), so
that the model reaches every position of the wrap-around. The window is an assumption about the
callers, which nothing in `heap.c` states; `HalfRange` of `EvTimers` is what bears it out. `Queue` maps the array to the
set of entries of `TimerQueue`, in which an entry appears once and stays until its own
removal.

### EvTimers

The heap is replaced by the set it implements, with ties at the head broken either way.
A node's index is `"invalid"`, `"queued"` (the slot of its entry), or the `HEAP_HEAD` that
`heap_remove` leaves behind: `"stale"` after the timer has fired, `"lost"` after the `ev_stop` of
another timer has taken it out. The last three are labels of the model's: `ev_stop` asks only
whether the index is `HEAP_INVALID`, and takes all of them for a pending timer. `evloop_step` is cut where
the program's code or the kernel runs: `BeginStep` (next_timeout and the decision to wait),
`Fire` and `CallbackReturn` (the loop of `ev_step_timers`), `Interrupt` (EINTR restarts the
wait with the full time-out), `TimedOut`, `EventsCome`, `DispatchReturn`. `Tick` is real
time; it is kept relative to the last reading of the clock (`lag`, and `rest`, the distance
to each deadline), so that the state space is finite although the clock goes round.

The code has no guard against three things, which are actions of their own. The first two are there
where the constant `Misuses` allows them.

* `StopStale` is an `ev_stop` through an index that `heap_remove` left behind. With an empty heap
  (`StopEmpty`) it makes `heap_remove` read slot 0, which is never written, and write through the
  pointer found there.
* `AlarmTwice` is an `ev_alarm` of a timer that is pending: its node is in the heap twice.
* `TooManySignals` is one more signal than `MaxSignals` in one wait. The code takes any number, and
  as long as they come no timer fires.

After `StopEmpty`, `AlarmTwice` and `TooManySignals` the model stops at `"undefined"`: it says nothing
of what comes after, and no property claims anything of it.

### EvPoll

Addresses of `struct evloop_poll` are the members of `Polls`; `live` says which are
allocated, and an address can be allocated again. `pollers` is the hash, `dirty` the dirty
list, `data` the watchers' `poll_data`. The kernel is modelled as `evloop_step` uses it:
`interest` (events and pointer per descriptor), the edge-triggered ready list `armed`, and
`ready`, the conditions that hold. The dispatch of a batch is one action per callback and
per test, so that callbacks can watch, unwatch, close and open in between.

`Accepted` is where the code and the kernel can disagree: `evloop_step` chooses between
`EPOLL_CTL_ADD` and `EPOLL_CTL_MOD` by a flag of the struct and ignores the result, so a choice
that does not fit the interest list would change nothing; the lemma `NoneRefused` says that there is
none. `WaitFails` is an `epoll_wait` that fails
after the dirty list has been emptied. `NothingMissed` speaks of every state, not only of
`epoll_wait`: `OnItsWay` lists the places in which readiness can be on its way to a watcher. As
the loop goes on, each of them leads to the watcher's function.

`Destroy` is the end: `evloop_destroy` frees what the hash names and leaves the structs on
the dirty list, which nothing frees after it.

`Drain` states what edge-triggered reporting asks of a callback, as `do_recv` in `main.c`
does it: it reads or writes until the call would block, or ends or renews its registration.

### KHash, PollerTable

The fields have their names; `flags` and `bucket` are the flag bits and the two arrays. No call is
interrupted, but the order in which `kh_resize` moves entries is what makes it right, so one step
is one entry taken from the old table (`TakeOut`) or put into the new one (`KickOut`), which share
their arrays: `hand` is the entry that has no bucket in between, and `new_flags` says which buckets
the new table has filled. `Probe` is the sequence of buckets a search looks at, and `Stops`, `kh_get`
and `Site` are searches, which change nothing, in one step. The hash of a descriptor is the
descriptor. `Contents` maps the buckets, wherever the entries are, to the function from keys to
values of `PollerTable`, which is also what `EvPoll` takes for `e->pollers`.

The branches for a search that comes back to its start are kept in `kh_get` and `Site`; `ProbesEnd`
shows that they are not taken. The kick-out loop has no such branch. `Sizes` is the set of the sizes
of tables, 4 and its doubles, which `RoundUp` (`kroundup32`) picks from: a constant, so that the
proofs can speak of it without exponents.

### TlsOnce

The threads here are OS threads, which may share a key but not a `cthread_main`. Memory is as
weak as the `memory_order` arguments allow. The flag takes the values 0, 1, 2 in this order;
`seen` is the latest value that each thread has read or written, below which coherence lets it
read no more, and a load may return anything from there on. `views` is the set of threads that
the plain write of `*pkey` happens before: the thread that wrote it, and those that have read the
2 with an acquiring load, because it was stored with release. A failed compare-and-exchange is
relaxed and gives no such order, even when it reads 2: only the load of the loop does.

### Program

Conjoins an action of `Cthread` with one of `EvTimers`. A thread has two timers: the one in the
frame of its `do_sleep` and the one it sets with `cthread_alarm`. `Sleep` is `ev_alarm` of the first
and `cthread_yield` in one; `Fire` is `timer_wakeup`, which does `cthread_call` of the thread *without
any guard*, which is the point. Threads choose freely what to do next among sleeping, setting an
alarm and running on, stopping it, yielding until it fires, starting, joining and exiting.

The constant `StopsAlarms` is a discipline of the threads and not code: whether they stop their alarm
before they sleep, join or exit (`MayLeave`). Without it an alarm can wake a `do_sleep` early, which
leaves a timer in a dead frame, or a join, which is what `ProgramAlarm.cfg` shows. In such a program a
thread that was woken early does not call `do_sleep` again before the timer it left has fired: the
model does not say where the next frame would lie.

`main` is modelled with the value that `cthread_main_start` returns (`handle`). A thread that joins has
the address of its target either from the target itself (`Join`, which several threads may do for one
target), or from `cthread_main_start`, as `join_func` has (`JoinHandle`): that is NULL, and the program
crashes. A thread whose join has been overwritten by a later one is a `LostJoiner`. `LoopAssumption` is
what `EvTimers` asks of the constants.

## 3. Runs

| Run | Configuration | Checks | Bounds |
|---|---|---|---|
| `cthread` | `Cthread.cfg` | `TypeOK`, `OneRunning`, `JoinAssertion`, `NoLostJoiner`, `ThreadCount`, `ImplementsCallStack`, `ExitIsFinal` | 4 threads, symmetric |
| `heap` | `Heap.cfg` | `TypeOK`, `IndexAgrees`, `InBounds`, `HeadIsEarliest`, `ImplementsTimerQueue` | 5 nodes, values 0..7, growth 2 |
| `evtimers` | `EvTimers.cfg` | `NotTooLate`, `TypeOK`, `HalfRange`, `WaitsForFirst`, `FiresDueInOrder`, `AlarmsFire`, `EventsArePolled` | 2 timers, values 0..25, delays 0..2, wake-ups late by 1, 2 signals per wait |
| `evtimers_stop` | `EvTimersStop.cfg` | `StopsOnlyItself`, violated | as `evtimers`, values 0..19, delays 1..2, 1 signal per wait |
| `program` | `Program.cfg` | `TypeOK`, `AlarmsWakeSleepers`, `NeverIdle`, `SleepersInTime`, `KeepsThreadRules`, `Terminates` | 3 threads, 3 sleeps and alarms in all, delays 1..2, 1 signal per wait, the clock about to wrap around |
| `program_alarm` | `ProgramAlarm.cfg` | `JoinAssertion`, violated | 2 threads, 2 sleeps and alarms |
| `program_handle` | `ProgramHandle.cfg` | `StartReturnsThread`, violated | 2 threads, 2 sleeps and alarms |
| `evpoll` | `EvPoll.cfg` | `TypeOK`, `PointersAreLive`, `ClosedAreOnList`, `WatchersOfOpenFds`, `NothingMissed` | 2 descriptors, 3 addresses, 2 watchers, batches of 2 |
| `evpoll_interest` | `EvPollInterest.cfg` | `KernelIsUpdated`, violated | as `evpoll`, smaller |
| `evpoll_unwatch` | `EvPollUnwatch.cfg` | `UnwatchAssertion`, violated | as `evpoll`, smaller |
| `khash` | `KHash.cfg` | `TypeOK`, `ProbesEnd`, `GetFinds`, `ResizeProgresses`, `ImplementsTable` | keys 3, 7, 8, 11, 15, 2 values, up to 8 buckets |
| `tls_once` | `TlsOnce.cfg` | `TypeOK`, `KeyIsVisible`, `OneCreator`, `CallsReturn` | 3 OS threads |

Why the bounds are enough to be of interest. A join, a call and an exit of three different
threads around a fourth is the longest pattern a single pointer (`yield_to`, `exit_to`) can
get wrong. Five heap entries give a slot with two children below another level, so that a
middle removal bubbles past several entries and the last entry bubbles down two levels; a
growth of 2 makes the array grow at the sizes 0 and 1. Two timers are enough for
one to be set, stopped, or overtaken while the other is due, and the order of more is a matter of
pairs; the proofs are for any number. Three OS threads are one that creates the key and two that
are at different values of the flag. Three addresses for two descriptors let an
address be freed and used again while another closed struct is still on the list. Of the five keys,
four fall into the last bucket of a table of 4 and two into the last of a table of 8: searches wrap
around, and `kh_resize` has to kick entries out, both when it doubles a table of 4 and when it only
clears the deleted buckets of one of 8. Tables of 4 and 8 take all of its branches; a larger one adds
no case but the longer searches, for which `Probe` has the same form.
`Half` in the timers is as small as the assumption `MaxDelay + MaxLag < Half` allows or a
little larger, so that the values wrap around after a few steps. The assumption is the
code's own: no delay plus the time the program is away from the clock may reach 2^31 ms.
Three sleeps are those of `test_func` and one more; they are counted together, so that one thread may
have all of them, or each has one. `MCProgram` begins with the last value of the clock: the steps
depend on differences of values only, so that one first value stands for all, and this one wraps
around at the first reading.

`CHECK_DEADLOCK FALSE` appears where the system may stop: in the run of `Cthread`, whose threads
may all have finished, or wait for each other in joins, with nobody left to call; in those of
`EvPoll`, after `evloop_destroy`; and in that of `TlsOnce`, after `abort()`.

### Fairness

`EvTimers!Fairness`: the program calls `evloop_step` again whenever it returned
(`BeginStep`), callbacks return (`CallbackReturn`, `DispatchReturn`), the loop's own steps
are taken (`Fire`, `TimedOut`): all weak. Time passes: `Tick` needs strong fairness because a
loop that is busy with events disables and enables it again and again. `EventsCome`,
`Interrupt`, `Alarm` and `Stop` have none: the kernel and the program need not do anything.
Both liveness properties have the premise `NoBusyLoop`: that callbacks stop setting alarms
with a delay of 0. One that re-arms itself with 0 keeps `ev_step_timers` in its loop, which does
not read the clock, for ever, and neither events nor later timers get their turn. All other
behaviours with delays of 0 are in the run.

`AlarmsFire` has two more premises, each a thing that keeps an alarm from firing in this code.
`[](step # "undefined")`: no wait is interrupted by more than `MaxSignals` signals, since endless
signals restart it for ever, and no timer is set while it is pending or stopped through a stale index
with an empty heap. `[](index[t] # "lost")`: no `ev_stop` of another timer takes this one out (finding
1); the timers that are not taken out fire all the same.

`TlsOnce!Fairness`: every OS thread runs, and a store is not kept from other threads' loads for
ever (weak fairness of `Leave`, which reads the 2). `Spin` and `Again` have none.

`Program!Fairness`: main, the running thread, the loop's steps and time each go on (weak
fairness). Threads have finitely many sleeps (`MaxNaps`) and starts, so each exits in the end
unless it joins one that does not; joins go from later to earlier threads, as `join_func`
gets its target as an argument, so none wait in a circle. `Terminates` names the ends that are not the
wanted one: a joiner that was overwritten, which keeps main in its loop for ever; a join of what
`cthread_main_start` returned, which crashes; and more signals in a wait than the bound. main.c itself,
whose `join_func` is given that NULL, ends in the second way.

## 4. Findings

1. **`ev_stop` of a timer that has fired removes another one** (`evtimers_stop`).
   `heap_remove` does not reset the index, so the guard of `ev_stop`
   (`evloop.c:18`) lets the call through with `HEAP_HEAD`. `do_recv` in `main.c` does exactly
   this after a time-out. With an empty heap `heap_remove` even reads a slot that was never
   written (`StopEmpty`).
2. **A pending alarm wakes a joiner early** (`program_alarm`): `assert(t->finished)`
   (`cthread.c:188`) fails, because `timer_wakeup` calls its thread whatever it is doing.
   With `StopsAlarms` the assertions hold, which is what the run `program` and `AssertionsHold` show;
   main.c needs finding 3 repaired too, and a thread that is joined twice wakes one joiner only.
3. **The start functions do not return the thread** (`program_handle`): they return the data
   of the first transfer back, which is NULL, and `main.c` joins it.
4. **The kernel's interest is not taken back** (`evpoll_interest`): `p->flags` never gets the
   events, so the dirty loop takes the kernel to know none, and a descriptor whose last
   watcher is gone stays registered. It causes spurious wake-ups only: `NothingMissed` holds,
   because every renewed registration is sent to the kernel for the same reason.
5. **`ev_unwatch` after `ev_close`** (`evpoll_unwatch`) trips its assertion or reads freed
   memory, because `ev_close` leaves the watchers' `poll_data`.

## 5. Proofs

TLAPS proves the following for every value of the constants that satisfies the named
assumptions: `ThreadsAssumption`; `HalfAssumption` with `HeapAssumption` or `TimersAssumption`;
`PollAssumption`; `KHashAssumption`; `ProgramAssumption` with `LoopAssumption`; none for `TlsOnce`.

**`CthreadProofs`.** `Invariance`: `Spec => []Inv`, where `Inv` is `TypeOK` together with
`OneRunning`, `JoinAssertion`, `NoLostJoiner`, `ThreadCount` and what they need to be
inductive:

* `CallersWait`: the running thread, and each thread suspended in a call, was called by a
  context that is suspended in a call, and no two by the same one. Without it `DoYield`
  could load the stack of a parked or finished thread, and `OneRunning` would still hold.
* `ExitToJoiner` and `JoinFrames`: `exit_to` names a thread whose `cthread_join` frame is on
  its stack, and one that came out of it did so because of the exit. `JoinAssertion` says the
  same of running threads only, and says nothing about why a suspended joiner is woken.
* `ExitedIffFinished`, `MainNeverParks`: together with `CallersWait` no transfer can lead to a
  finished thread or to nowhere.

From it follow `TypeCorrect`, `SelfIsRunning`, `JoinReturnsAfterExit`, `JoinersKept`,
`CountsThreads` and, as an action property, `ExitNeverReturns`. The proof has three parts. The
lemmas `CallerWaits` and `JoinerWaits` say where `do_yield` and `cthread_exit` go. The pointer
part of the invariant is preserved action by action. The count is a fact about cardinalities of
its own: only a start adds an element to the counted set and only an exit removes one.

`ControlIsStack`: the core implements `CallStack`. `CallersWait` alone allows the callers to go
round in a circle beside the line that ends in main; `HasChain` says that they are all on one line
(`ChainExists`). A line with given pointers and contexts is unique (`SameLine`, by the least place in
which two would differ), so that `Chain` is the line whose existence a step shows, and `CallPushes`,
`YieldPops` and `TailCallReplaces` build it (`LongerLine`, `ShorterLine`) from the one before the step.

**`HeapProofs`.** `Invariance` of `IndexAgrees`, `InBounds`, `TypeOK` and

* `LoopOrder`: while an entry bubbles, only the pair at `pos` may be out of order, and the
  children of `pos` are no earlier than its parent;
* `InWindow`: all deadlines lie in a window of half the range, on which the wrapping comparison
  is the order of the distances `Key` from its start (`Mod32Proofs`: what a difference modulo the
  range is, and that of two values less than half the range apart it tells the order);
* `LeavingFirst`: the entry on its way to the top is strictly first. Its value, the head's minus
  one, may lie just before the window, and `Key` gives it -1.

From it follow `TypeCorrect`, `IndicesAgree`, `StaysInBounds` and `HeadIsFirst`; the last needs
that a tree in which every entry is no earlier than its parent has its minimum at the root,
which is shown by taking the first entry that would be earlier than the root: its parent is a
smaller index.

`HeapIsQueue`: the heap implements `TimerQueue`. While the loops swap entries, the set `Queue` stays
the same (`SwapKeepsQueue`); an insertion adds its entry before it bubbles, and a removal drops the
entry in its slot with its first step: the last entry is cut off, the head is overwritten, one from the
middle gets its fake value and is `leaving`. The steps that follow change nothing. `IndexAgrees` is what makes the entry of a node unique.

**`EvTimersProofs`.** `Invariance` of `HalfRange`, `WaitsForFirst`, `TypeOK` and

* `LabelsAgree`: the label `"queued"` is that of the timers with an entry, and each has one. It says
  what the model's label means, and nothing that the code tests;
* `WaitIsBounded`: after `signals` interruptions, each of which restarts the wait in full, the
  clock has not been read for at most `MaxBusy + signals * (timeout + MaxBusy)` and what has
  passed of the present wait. This is what bounds how far a deadline can fall behind `now`
  (`TypeOK` of `rest`), and with it `HalfRange`: without it, a wait cut by signals might be as long
  as half the range. The lemma `Bounds` is the arithmetic;
* `WaitEndedInTime`: outside of waits no deadline is more than `MaxLate` behind `now`. The loop waits
  only when no timer is due, so a timer is late by what one wait can take beyond the first deadline
  (the lemma `WaitIsNotTooLate`), however many timers and events there are;
* `TimersAreDue`: inside the loop of `ev_step_timers` the head is due, which `FiresInOrder` needs.

The lemma `LessIsEarlier` turns the comparison of wrapped values into that of real distances, and
`DueOrWait` says what `next_timeout` returns in terms of them. From the invariant follow
`TypeCorrect`, `WithinHalfRange`, `NeverWaitsPast`, `TimersAreInTime` and, for each step, `FiresInOrder`.
Misuses are among the steps: the theorems hold with them, up to the point at which the model ends.

**`EvPollProofs`.** `Invariance` of `TypeOK`, `WatchersOfOpenFds`, `PointersAreLive`, `NothingMissed` and

* `StructsAgree`: the hash and the structs name each other, so that a descriptor has one struct, and
  one that was closed has no watchers and is dirty. `ev_close` and the dirty loop rest on it: what the
  loop frees, nothing leads to;
* `KernelAgrees`: the structs with `EPOLLET` are those in the interest list. Without it `epoll_ctl`
  could refuse a call, and the kernel would keep a pointer or never learn of an event (`NoneRefused`);
* `LoopAgrees`: outside of the dispatch no event is in hand, so that what the dirty loop frees is in
  no batch, and in `epoll_wait` the list is empty, so that the kernel knows all that is waited for.

There is a lemma for each action. From the invariant follow `TypeCorrect`, `NoStaleEvent`,
`NoneIsLost`, `WatchersAreRight` and `NothingIsMissed`, for any number of descriptors, structs and
watchers and any size of the batch: the two descriptors and the batch of two of the run are no
restriction. It is proved only as far as `OnItsWay` goes; that the function is then called is
fairness of the loop and of the kernel.

**`TlsOnceProofs`.** `Invariance` of `OneCreator`, `KeyIsVisible`, `TypeOK` and of what each value of
the flag means (`Unclaimed`, `Claimed`, `Published`). From it follow `TypeCorrect`, `KeyVisible` and
`MadeOnce`, for any set of OS threads, finite or not.

**`KHashProofs`.** `Invariance` of `TypeOK` and

* `Room`: the table is never filled beyond `UpperBound`, nor is the one `kh_resize` makes. The lemma
  `NewSize` shows why `kh_put` never goes on to insert into a full table although it tests whether
  `kh_resize` can help: the new size has room whenever the old bound was kept;
* `OnTheirWay`, `Distinct`: each key has one bucket, in the old table or in the new, or is in hand;
* `Searchable`: from its key a search gets to each entry without passing an empty bucket. Deleting
  leaves the bucket occupied, and filling one adds to what is occupied (`StillReaches`); during
  `kh_resize` it is the searches in the new table, whose entries are never moved again.

`SearchesEnd` needs a fact about numbers: the triangular steps of `Probe` come to every bucket of a
table whose size is a power of 2 (`ProbesDiffer`). If two of the first `m` steps `s < t` met,
`(t - s) * (t + s + 1)` would be a multiple of `2 * m`; one of the factors is odd, so the other would
be that multiple (`OddFactorOfSizes`, by a least counterexample among the sizes), and both are
smaller than `2 * m`. With fewer occupied buckets than steps one of them is empty (`SearchEnds`, by the
pigeonhole principle). `LookupsFind` follows with `GetsBucket` and a bijection of the buckets in use
with their keys; `ResizingEnds` from the counts. `HashTableIsTable`: a step of `kh_resize` leaves the
set `Entries` alone, and `Insert`, `Remove` and `Destroy` change it as `PollerTable` does.

**`ProgramProofs`.** About the composition, with the hypothesis `StopsAlarms`, that threads stop their
alarm before they sleep, join or exit: without it `JoinAssertion` is false (run `program_alarm`). `Together` is
the invariants of the two components, `HasChain`, `AlarmsWakeSleepers`, `NeverIdle` and

* `LoopOnMain`: the loop runs while main does. Then nobody else is on the chain of callers
  (`MainAlone`), so that a thread whose timer fires, of either kind, is parked: `timer_wakeup`'s
  unguarded `cthread_call` is one that `Cthread` allows (`FireCalls`);
* `JoinsEarlier`: a thread that joins waits for an earlier one. The first of the unfinished threads
  can therefore join only one that has finished; by `NoLostJoiner` that exit would have woken it, had
  `exit_to` still named it. So it sleeps, or another join has overwritten its own (`SomeSleeper`), and
  only then can the loop wait without a time-out (`NeverIdle`).

Every step is a step of `Cthread` and one of `EvTimers` or leaves it alone (`CoreSteps`, `LoopSteps`),
and the theorems about these, instantiated, keep their invariants. From `Together` follow
`TypeCorrect`, `AlarmsFindSleepers`, `LoopNeverIdles`, `AssertionsHold`, `SleepersWake`, which takes the
bound on lateness from `EvTimersProofs`, and `ThreadRulesKept`: the program keeps the preconditions that
`Cthread` has as guards.

**Model-checked only.** Liveness (`AlarmsFire`, `EventsArePolled`, `Terminates`, `CallsReturn`) is
out of the prover's reach. Every other property of a passing run is a theorem. That
`EvTimers` and `EvPoll` use their queue and hash as `TimerQueue` and `PollerTable` describe is by
their form: they are written with these sets and functions, and no theorem connects the modules.

## 6. Not modelled

* `exit_code`, `exit_data`, `wait_next`, and the data that transfers carry, except what
  `cthread_main_start` returns; the caller frame written for debuggers, which is written wherever
  `yield_to` is; the layout of a new stack; stack overflow.
* Allocation failure: `xmalloc` and its like abort. The memory allocator itself is the C library's.
* What comes after an `ev_alarm` of a pending timer (`AlarmTwice`) or a `heap_remove` of an empty heap
  (`StopEmpty`): misuse that the code does not guard against. The models contain the step, and end
  with it. In `Heap`, whose callers are assumed to insert no node twice and to remove only slots in
  use, neither occurs.
* Signals without end: `TooManySignals` ends the model after the bound.
* A failing `epoll_create1`, which `evloop_init` does not check, and the signal stack, which nothing
  uses. `epoll_wait` fails in `EvPoll` only: with a valid descriptor the kernel has no reason to, and
  `evloop_step` would come back without having read the clock.
* `evloop_destroy` does not free the structs on the dirty list: `Destroy` shows it, and no property
  forbids it, because nothing in the code says that it must.
* Of `khash.h`: `kh_clear` and the shrinking in `kh_resize`, which are never reached; tables for keys
  of other types and their hash functions, which are not instantiated.
* `do_recv`, which waits for a timer and a descriptor at once: it is compiled out (`#if 0`), does not
  agree with the present `ev_alarm` and `ev_watch`, and stops a timer that may have fired (finding 1).
  What it asks of the parts is in them: `Drain` in `EvPoll`, `StopStale` in `EvTimers`.
  `cthread_recv`, `cthread_send` and `cthread_cancel` are unfinished.
* The Windows loop: a fragment without a loop and without its timers, not in the build.
* `cthread-c11threads.h`: it does not compile (`cthread_yield()` without an argument, an unfinished
  `ct_thrd_detach`) and its mutex and condition variable have no operations. What is there calls the
  functions of the core. `cthread-atomics.h` is plain accesses, which no file includes.
* `unwinder.py`, `build.ninja`, `test.c`: no state of the program.

## 7. Plan

Order: what the whole library rests on first.

1. *Done.* `Cthread`/`CallStack`, `Heap`/`TimerQueue`, `EvTimers`, `Program`, `EvPoll`,
   `KHash`/`PollerTable`, `TlsOnce`; the inductive invariants of all of them and the three
   refinements; every safety property of the runs.
2. Prove: that the deadlines `EvTimers` queues satisfy what `Heap` asks of its callers (`Window`), and
   that `EvPoll` uses its hash as `PollerTable` allows, so that the components' theorems compose
   without an appeal to their form.
