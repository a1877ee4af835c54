------------------------------ MODULE Program ------------------------------
(***************************************************************************)
(* Threads that sleep, start, join and exit on the event loop, as the test *)
(* program main.c has them: the coroutine core (Cthread) and the timers    *)
(* (EvTimers) composed through timer_wakeup, which the loop calls on       *)
(* main's stack and which resumes the sleeping thread.                     *)
(*                                                                         *)
(* Every thread has the struct cthread_timer on the stack of its do_sleep, *)
(* and one of its own for cthread_alarm.  No descriptors are watched, so   *)
(* epoll_wait returns only when it times out.                              *)
(***************************************************************************)
EXTENDS Integers, FiniteSets

CONSTANTS
  N,          \* number of threads
  Half, MinDelay, MaxDelay, MaxBusy, MaxSignals,   \* as in EvTimers
  MaxNaps,    \* bound on the sleeps and alarms of all threads
  StopsAlarms \* does a thread stop its alarm before it sleeps, joins or exits?

\* Threads in the order of their starts; 0 is the null pointer.
Threads == 1..N
NULL == 0

\* The timer in do_sleep's frame, and the one that cthread_alarm sets.
Timers == Threads \X {"sleep", "alarm"}

ASSUME ProgramAssumption ==
  /\ N \in Nat
  /\ MaxNaps \in Nat
  /\ StopsAlarms \in BOOLEAN

VARIABLES
  self, at, yieldTo, exitTo, joinOf, finished, numThreads, alt,
  now, queue, index, step, timeout, left, signals, lag, rest,
  main,       \* main() is "starting" its threads, "looping" or has "returned";
              \* "crashed" when the program has followed a null pointer
  starting,   \* the thread of the cthread_main_start that main is inside
  handle,     \* what cthread_main_start returned for each thread, -1 before
  naps        \* the sleeps and alarms so far

C == INSTANCE Cthread
E == INSTANCE EvTimers WITH Misuses <- FALSE

ASSUME LoopAssumption == E!HalfAssumption /\ E!TimersAssumption

cvars == <<self, at, yieldTo, exitTo, joinOf, finished, numThreads, alt>>
evars == <<now, queue, index, step, timeout, left, signals, lag, rest>>
mvars == <<main, starting, handle>>

vars == <<cvars, evars, mvars, naps>>

-----------------------------------------------------------------------------
Init ==
  /\ C!Init
  /\ E!Init
  /\ main = "starting"
  /\ starting = NULL
  /\ handle = [t \in Threads |-> -1]
  /\ naps = 0

\* The thread whose struct is created next.
IsNext(t) == \A u \in Threads : C!Born(u) <=> u < t

-----------------------------------------------------------------------------
(* main().                                                                 *)

\* cthread_main_start, up to the switch to the new thread.
MainStart(t) ==
  /\ main = "starting" /\ starting = NULL
  /\ IsNext(t)
  /\ C!MainStart(t)
  /\ starting' = t
  /\ UNCHANGED <<evars, main, handle, naps>>

\* cthread_main_start returns what cthread_asm_switch does: the data of the
\* transfer that gave control back.  Threads give it back to main in do_sleep,
\* with cthread_yield(NULL), in cthread_join and in cthread_exit, which both
\* call do_yield with NULL.
StartReturns ==
  /\ starting # NULL
  /\ C!Free(NULL)
  /\ handle' = [handle EXCEPT ![starting] = NULL]
  /\ starting' = NULL
  /\ UNCHANGED <<cvars, evars, main, naps>>

\* The while loop begins.
EnterLoop ==
  /\ main = "starting" /\ starting = NULL
  /\ \E t \in Threads : C!Born(t)
  /\ main' = "looping"
  /\ UNCHANGED <<cvars, evars, starting, handle, naps>>

\* while (m.num_threads) evloop_step(&ev).
LoopStep ==
  /\ main = "looping"
  /\ C!Free(NULL)
  /\ numThreads # 0
  /\ E!BeginStep
  /\ UNCHANGED <<cvars, mvars, naps>>

\* The loop ends, and main with it.
Return ==
  /\ main = "looping"
  /\ C!Free(NULL)
  /\ step = "outside"
  /\ numThreads = 0
  /\ main' = "returned"
  /\ UNCHANGED <<cvars, evars, starting, handle, naps>>

-----------------------------------------------------------------------------
(* The event loop.                                                         *)

\* timer_wakeup: cthread_call of the thread that set the alarm, whatever that
\* thread is doing.
Fire(e) ==
  /\ E!Fire(e)
  /\ C!DoCall(e.node[1])
  /\ UNCHANGED <<exitTo, joinOf, finished, numThreads, alt, mvars, naps>>

CallbackReturn ==
  /\ C!Free(NULL)
  /\ E!CallbackReturn
  /\ UNCHANGED <<cvars, mvars, naps>>

TimedOut ==
  /\ E!TimedOut
  /\ UNCHANGED <<cvars, mvars, naps>>

Interrupt ==
  /\ E!Interrupt \/ E!TooManySignals
  /\ UNCHANGED <<cvars, mvars, naps>>

Tick ==
  /\ E!Tick
  /\ UNCHANGED <<cvars, mvars, naps>>

-----------------------------------------------------------------------------
(* The functions of the threads.                                           *)

ThreadRuns == self # NULL /\ main # "crashed"

Start(t) ==
  /\ ThreadRuns
  /\ IsNext(t)
  /\ C!Start(t)
  /\ UNCHANGED <<evars, mvars, naps>>

\* A thread that keeps to the discipline has no alarm pending when it gives up
\* control to wait for something else.  No code checks this.
MayLeave == StopsAlarms => ~E!Queued(<<self, "alarm">>)

\* Fault: the thread gives up control and sets no timer.
SleepNoAlarm(msecs) ==
  /\ ThreadRuns
  /\ naps < MaxNaps
  /\ MayLeave
  /\ ~E!Queued(<<self, "sleep">>)
  /\ C!Yield
  /\ naps' = naps + 1
  /\ UNCHANGED <<evars, mvars>>

\* do_sleep up to the switch of its cthread_yield.
Sleep(msecs) ==
  /\ ThreadRuns
  /\ naps < MaxNaps
  /\ MayLeave
  /\ E!Alarm(<<self, "sleep">>, msecs)
  /\ C!Yield
  /\ naps' = naps + 1
  /\ UNCHANGED mvars

\* cthread_alarm: the thread goes on running while its alarm is pending.
SetAlarm(msecs) ==
  /\ ThreadRuns
  /\ C!Free(self)
  /\ naps < MaxNaps
  /\ E!Alarm(<<self, "alarm">>, msecs)
  /\ naps' = naps + 1
  /\ UNCHANGED <<cvars, mvars>>

\* cthread_stop by the thread itself.
StopAlarm ==
  /\ ThreadRuns
  /\ C!Free(self)
  /\ E!Stop(<<self, "alarm">>)
  /\ UNCHANGED <<cvars, mvars, naps>>

\* cthread_yield, by a thread whose alarm will wake it.
Yield ==
  /\ ThreadRuns
  /\ E!Queued(<<self, "alarm">>)
  /\ C!Yield
  /\ UNCHANGED <<evars, mvars, naps>>

\* cthread_join of a thread that has told its address, cthread_self(), itself.
\* A thread knows threads that were started before it, as join_func does
\* through its argument, and so no two wait for each other.  It may join one
\* that is already being joined.
Join(t) ==
  /\ ThreadRuns
  /\ t < self
  /\ MayLeave
  /\ C!Join(t)
  /\ UNCHANGED <<evars, mvars, naps>>

\* cthread_join of what cthread_main_start returned for t, as join_func does:
\* it reads t->finished through a null pointer.
JoinHandle(t) ==
  /\ ThreadRuns
  /\ C!Free(self)
  /\ t < self
  /\ handle[t] = NULL
  /\ main' = "crashed"
  /\ UNCHANGED <<cvars, evars, starting, handle, naps>>

JoinReturn ==
  /\ ThreadRuns
  /\ C!JoinReturn
  /\ UNCHANGED <<evars, mvars, naps>>

\* cthread_exit.
Exit ==
  /\ ThreadRuns
  /\ MayLeave
  /\ C!Exit
  /\ UNCHANGED <<evars, mvars, naps>>

\* main has returned, the program has crashed, or the model ends or waits with
\* no time-out, where nothing will happen.
Done ==
  /\ \/ main \in {"returned", "crashed"}
     \/ step = "undefined"
     \/ step = "wait" /\ timeout = -1
  /\ UNCHANGED vars

-----------------------------------------------------------------------------
Main ==
  \/ \E t \in Threads : MainStart(t)
  \/ StartReturns
  \/ EnterLoop
  \/ LoopStep
  \/ Return

Thread ==
  \/ \E t \in Threads : Start(t)
  \/ \E msecs \in E!Delays : Sleep(msecs)
  \/ \E msecs \in E!Delays : SetAlarm(msecs)
  \/ StopAlarm
  \/ Yield
  \/ \E t \in Threads : Join(t)
  \/ \E t \in Threads : JoinHandle(t)
  \/ JoinReturn
  \/ Exit

Next ==
  \/ Main
  \/ Thread
  \/ \E e \in queue : Fire(e)
  \/ CallbackReturn
  \/ TimedOut
  \/ Interrupt
  \/ Tick
  \/ Done

Spec == Init /\ [][Next]_vars

\* Nothing runs beside the one OS thread, and a thread's function returns
\* after the sleeps and starts that its bounds allow, so that some step of
\* the program, or time, always goes on.
Fairness ==
  /\ WF_vars(Main)
  /\ WF_vars(Thread)
  /\ WF_vars(CallbackReturn)
  /\ WF_vars(\E e \in queue : Fire(e))
  /\ WF_vars(TimedOut)
  /\ WF_vars(Tick)

-----------------------------------------------------------------------------
(* Properties.                                                             *)

\* The types of main()'s variables, and of the components'.
TypeOK ==
  /\ C!TypeOK
  /\ E!TypeOK
  /\ main \in {"starting", "looping", "returned", "crashed"}
  /\ starting \in Threads \cup {NULL}
  /\ handle \in [Threads -> Threads \cup {NULL, -1}]
  /\ naps \in 0..MaxNaps

\* timer_wakeup never resumes a thread that joins or has exited; no thread is
\* parked without a timer that will wake it; and do_sleep's timer is in the heap
\* only while the frame it lies in is asleep, with nothing else to end the sleep.
AlarmsWakeSleepers ==
  \A t \in Threads :
    /\ at[t] = "parked" => E!Queued(<<t, "sleep">>) \/ E!Queued(<<t, "alarm">>)
    /\ E!Queued(<<t, "sleep">>) => at[t] = "parked" /\ ~E!Queued(<<t, "alarm">>)
    /\ E!Queued(<<t, "alarm">>) => at[t] \in {"parked", "live", "call"}

\* t joins a thread that another one has joined after it: nothing will wake it.
LostJoiner(t) == at[t] = "join" /\ exitTo[joinOf[t]] # t

\* The loop waits without a time-out only for a joiner that was overwritten: as
\* long as any other thread is unfinished some thread sleeps.
NeverIdle ==
  step = "wait" /\ timeout = -1 => \E t \in Threads : LostJoiner(t)

\* A thread in do_sleep, or that waits for its alarm, is resumed in time, whatever
\* the others do: a timer of its own is in the heap, and late by no more than the
\* work of the program and the signals of one wait add up to.
SleepersInTime ==
  \A t \in Threads :
    at[t] = "parked" =>
      \E kind \in {"sleep", "alarm"} :
        /\ E!Queued(<<t, kind>>)
        /\ (IF step = "wait" THEN lag ELSE 0) - rest[<<t, kind>>] <= E!MaxLate

\* The program keeps to what the coroutine core asks of its callers: whatever
\* threads do between an alarm and its firing, timer_wakeup calls a parked one.
KeepsThreadRules == C!Spec

\* main's loop ends, with every thread finished, if no thread is joined twice at
\* a time, none joins what cthread_main_start returned, and signals leave the
\* loop alone long enough.
Terminates ==
  <>(\/ main = "returned" /\ \A t \in Threads : C!Born(t) => finished[t]
     \/ \E t \in Threads : LostJoiner(t)
     \/ main = "crashed"
     \/ step = "undefined")

\* The assertions of cthread_join and cthread_exit.
JoinAssertion == C!JoinAssertion

\* cthread_main_start returns the thread, as its declaration in cthread.h and
\* its use in main.c say.
StartReturnsThread == \A t \in Threads : handle[t] # -1 => handle[t] = t

(***************************************************************************)
(* The inductive invariant, of programs that stop their alarms: the        *)
(* components' invariants, and what ties the components to each other.     *)
(***************************************************************************)

\* evloop_step, inside main's loop, runs on main's stack.
LoopOnMain ==
  /\ step # "outside" => main \in {"looping", "crashed"}
  /\ step \in {"timers", "wait"} => C!Free(NULL)

\* A thread joins one that was started before it.
JoinsEarlier ==
  \A t \in Threads : joinOf[t] # NULL => C!Born(joinOf[t]) /\ joinOf[t] < t

Inv ==
  /\ TypeOK
  /\ C!Inv
  /\ E!Inv
  /\ AlarmsWakeSleepers
  /\ NeverIdle
  /\ LoopOnMain
  /\ JoinsEarlier

=============================================================================
