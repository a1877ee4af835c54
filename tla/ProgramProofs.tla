--------------------------- MODULE ProgramProofs ---------------------------
(***************************************************************************)
(* Proofs about the composed program, for any number of threads, sleeps    *)
(* and starts, and any clock that LoopAssumption allows.  They are about   *)
(* programs that stop their alarms before they sleep, join or exit; of     *)
(* others AlarmsWakeSleepers is false.                                     *)
(*                                                                         *)
(* The argument: the components' invariants and AlarmsWakeSleepers hold    *)
(* together.  When a timer fires, main runs, so that every thread that has *)
(* an alarm is parked (MainAlone), and timer_wakeup is a cthread_call that *)
(* the core allows.  And as every step is a step of the components, their  *)
(* own theorems keep their invariants.                                     *)
(***************************************************************************)
EXTENDS Program, FiniteSetTheorems, TLAPS

CP == INSTANCE CthreadProofs
EP == INSTANCE EvTimersProofs WITH Misuses <- FALSE

\* The components' assumptions on their constants.
LEMMA Assumptions ==
  /\ CP!ThreadsAssumption
  /\ EP!HalfAssumption /\ EP!TimersAssumption
<1>1. IsFiniteSet(Threads) /\ NULL \notin Threads
  BY ProgramAssumption, FS_Interval DEF Threads, NULL
<1>2. CP!IsFiniteSet(Threads)
  BY <1>1 DEF CP!IsFiniteSet, IsFiniteSet
<1> QED
  BY <1>1, <1>2, LoopAssumption DEF E!MaxLag, EP!MaxLag

\* The invariant of the core is the one that its theorems are about.
LEMMA CoreInv ==
  /\ C!Inv <=> CP!Inv
  /\ C!Inv' <=> CP!Inv'
BY DEF C!Inv, C!TypeOK, C!OneRunning, C!CallersWait, C!JoinFrames, C!ExitToJoiner,
       C!ExitedIffFinished, C!MainNeverParks, C!JoinAssertion, C!NoLostJoiner,
       C!ThreadCount, C!Contexts, C!Places, C!OnChain, C!Born,
       C!Cardinality, C!IsFiniteSet,
       CP!Inv, CP!TypeOK, CP!OneRunning, CP!CallersWait, CP!JoinFrames,
       CP!ExitToJoiner, CP!ExitedIffFinished, CP!MainNeverParks, CP!JoinAssertion,
       CP!NoLostJoiner, CP!ThreadCount, CP!Contexts, CP!Places, CP!OnChain, CP!Born,
       CP!Cardinality, CP!IsFiniteSet

\* So are its steps.
LEMMA CoreNext ==
  /\ C!Init <=> CP!Init
  /\ C!vars = CP!vars
  /\ C!Next <=> CP!Next
BY DEF C!Init, C!vars, C!Next, C!MainStart, C!Start, C!Call, C!TailCall, C!Yield,
       C!Join, C!JoinReturn, C!Exit, C!AltEnter, C!AltReturn, C!CreateCthread, C!Leave,
       C!Uncount, C!DoCall, C!DoYield, C!DoTailCall, C!Switch, C!Free, C!Born,
       C!Contexts,
       CP!Init, CP!vars, CP!Next, CP!MainStart, CP!Start, CP!Call, CP!TailCall,
       CP!Yield, CP!Join, CP!JoinReturn, CP!Exit, CP!AltEnter, CP!AltReturn,
       CP!CreateCthread, CP!Leave, CP!Uncount, CP!DoCall, CP!DoYield, CP!DoTailCall,
       CP!Switch, CP!Free, CP!Born, CP!Contexts

\* The invariant of the timers, and their steps, likewise.
LEMMA LoopInv ==
  /\ E!Inv <=> EP!Inv
  /\ E!Inv' <=> EP!Inv'
BY DEF E!Inv, E!TypeOK, E!LabelsAgree, E!HalfRange, E!WaitsForFirst,
       E!WaitIsBounded, E!TimersAreDue, E!WaitEndedInTime, E!Queued, E!Values, E!Places,
       E!MaxLag, E!MaxLate, E!Signed, E!Minus,
       EP!Inv, EP!TypeOK, EP!LabelsAgree, EP!HalfRange, EP!WaitsForFirst,
       EP!WaitIsBounded, EP!TimersAreDue, EP!WaitEndedInTime, EP!Queued, EP!Values,
       EP!Places, EP!MaxLag, EP!MaxLate, EP!Signed, EP!Minus

LEMMA LoopNext ==
  /\ E!Init <=> EP!Init
  /\ E!vars = EP!vars
  /\ E!Next <=> EP!Next
BY DEF E!Init, E!vars, E!Next, E!Loop, E!Alarm, E!AlarmTwice, E!Stop, E!StopStale,
       E!StopEmpty, E!Undefined, E!TooManySignals, E!BeginStep, E!Fire,
       E!CallbackReturn, E!TimedOut, E!DispatchReturn, E!Tick, E!Interrupt,
       E!EventsCome, E!WaitReturn, E!ReadClock, E!Remove, E!IsHead,
       E!ProgramRuns, E!Queued, E!Delays, E!Due, E!NextTimeout, E!HeadValue, E!Values,
       E!Plus, E!Minus, E!Signed, E!Less, E!MaxLag,
       EP!Init, EP!vars, EP!Next, EP!Loop, EP!Alarm, EP!AlarmTwice, EP!Stop,
       EP!StopStale, EP!StopEmpty, EP!Undefined, EP!TooManySignals, EP!BeginStep,
       EP!Fire, EP!CallbackReturn, EP!TimedOut, EP!DispatchReturn, EP!Tick,
       EP!Interrupt, EP!EventsCome, EP!WaitReturn, EP!ReadClock, EP!Remove, EP!IsHead,
       EP!ProgramRuns, EP!Queued,
       EP!Delays, EP!Due, EP!NextTimeout, EP!HeadValue, EP!Values, EP!Plus, EP!Minus,
       EP!Signed, EP!Less, EP!MaxLag

-----------------------------------------------------------------------------
(* The components' theorems, about the program.                            *)

\* A step of the core keeps its invariant, and the callers on one chain.
LEMMA CoreStep ==
  ASSUME C!Inv, CP!HasChain, C!Next \/ UNCHANGED cvars
  PROVE  C!Inv' /\ CP!HasChain'
<1>1. CP!Inv /\ [CP!Next]_(CP!vars)
  BY CoreInv, CoreNext DEF cvars, CP!vars
<1>2. CP!Inv'
  BY <1>1, CP!StepInv, Assumptions
<1>3. CP!HasChain'
  BY <1>1, <1>2, CP!StackStep, Assumptions DEF CP!HasChain
<1> QED
  BY <1>2, <1>3, CoreInv

\* A step of the loop keeps the invariant of the timers.
LEMMA LoopStepInv ==
  ASSUME E!Inv, E!Next \/ UNCHANGED evars
  PROVE  E!Inv'
<1>1. EP!Inv /\ [EP!Next]_(EP!vars)
  BY LoopInv, LoopNext DEF evars, EP!vars
<1>2. EP!Inv'
  BY <1>1, EP!StepInv, Assumptions
<1> QED
  BY <1>2, LoopInv

\* When main runs, every thread has given up control.
LEMMA MainAlone ==
  ASSUME C!Inv, CP!HasChain, C!Free(NULL)
  PROVE  \A t \in Threads : at[t] \notin {"live", "call"}
<1>1. CP!Inv /\ at[NULL] = "live"
  BY CoreInv DEF C!Free
<1>2. \A t \in Threads : ~CP!OnChain(t)
  BY <1>1, CP!MainAlone, Assumptions
<1> QED
  BY <1>2 DEF CP!OnChain

\* A thread that main's loop waits for.
LEMMA SomeUnfinished ==
  ASSUME C!Inv, numThreads # 0
  PROVE  \E t \in Threads : C!Born(t) /\ ~finished[t]
<1>1. \E t \in Threads : CP!Born(t) /\ ~finished[t]
  BY CoreInv, CP!SomeUnfinished, Assumptions
<1> QED
  BY <1>1 DEF C!Born, CP!Born

-----------------------------------------------------------------------------
(* Every step of the program is one of the core and one of the loop.       *)

\* timer_wakeup calls a thread that is parked.
LEMMA FireCalls ==
  ASSUME Inv, CP!HasChain, NEW e \in queue, Fire(e)
  PROVE  /\ e.node[1] \in Threads /\ at[e.node[1]] = "parked"
         /\ C!Call(e.node[1])
<1>1. C!Free(NULL) /\ e.node \in Timers
  BY DEF Fire, E!Fire, Inv, LoopOnMain, E!Inv, E!TypeOK
<1>2. PICK t \in Threads, kind \in {"sleep", "alarm"} : e.node = <<t, kind>>
  BY <1>1 DEF Timers
<1>3. E!Queued(<<t, kind>>)
  BY <1>2 DEF E!Queued
<1>4. at[t] = "parked"
  BY <1>1, <1>3, MainAlone DEF Inv, AlarmsWakeSleepers
<1>5. e.node[1] = t
  BY <1>2
<1> QED
  BY <1>1, <1>4, <1>5 DEF Fire, C!Call, C!Free

LEMMA CoreSteps ==
  ASSUME Inv, CP!HasChain, [Next]_vars
  PROVE  C!Next \/ UNCHANGED cvars
<1>1. CASE Main
  BY <1>1 DEF Main, MainStart, StartReturns, EnterLoop, LoopStep, Return, C!Next
<1>2. CASE Thread
  BY <1>2 DEF Thread, Start, Sleep, SetAlarm, StopAlarm, Yield, Join, JoinHandle,
              JoinReturn, Exit, C!Next
<1>3. CASE \E e \in queue : Fire(e)
  BY <1>3, FireCalls DEF C!Next
<1>4. CASE CallbackReturn \/ TimedOut \/ Interrupt \/ Tick \/ Done \/ UNCHANGED vars
  BY <1>4 DEF CallbackReturn, TimedOut, Interrupt, Tick, Done, vars
<1> QED
  BY <1>1, <1>2, <1>3, <1>4 DEF Next

LEMMA LoopSteps ==
  ASSUME Inv, [Next]_vars
  PROVE  E!Next \/ UNCHANGED evars
<1>1. CASE Main
  BY <1>1 DEF Main, MainStart, StartReturns, EnterLoop, LoopStep, Return, E!Next, E!Loop
<1>2. CASE Thread
  <2>1. self # NULL => <<self, "sleep">> \in Timers /\ <<self, "alarm">> \in Timers
    BY DEF Inv, TypeOK, C!TypeOK, C!Contexts, Timers
  <2>2. ASSUME NEW msecs \in E!Delays, Sleep(msecs) \/ SetAlarm(msecs)
        PROVE  E!Next
    BY <2>1, <2>2 DEF Sleep, SetAlarm, ThreadRuns, E!Next
  <2>3. ASSUME StopAlarm
        PROVE  E!Next
    BY <2>1, <2>3 DEF StopAlarm, ThreadRuns, E!Next
  <2> QED
    BY <1>2, <2>2, <2>3 DEF Thread, Start, Yield, Join, JoinHandle, JoinReturn, Exit
<1>3. CASE \E e \in queue : Fire(e)
  BY <1>3 DEF Fire, E!Next, E!Loop
<1>4. CASE CallbackReturn \/ TimedOut \/ Interrupt \/ Tick \/ Done \/ UNCHANGED vars
  BY <1>4 DEF CallbackReturn, TimedOut, Interrupt, Tick, Done, vars, E!Next, E!Loop
<1> QED
  BY <1>1, <1>2, <1>3, <1>4 DEF Next

-----------------------------------------------------------------------------
(* The invariants of the composition.                                      *)

LEMMA TypeStep ==
  ASSUME Inv, [Next]_vars, C!Inv', E!Inv'
  PROVE  TypeOK'
<1>1. /\ main \in {"starting", "looping", "returned", "crashed"}
      /\ starting \in Threads \cup {NULL}
      /\ handle \in [Threads -> Threads \cup {NULL, -1}]
      /\ naps \in 0..MaxNaps /\ MaxNaps \in Nat
      /\ self # NULL => self \in Threads
  BY ProgramAssumption DEF Inv, TypeOK, C!TypeOK, C!Contexts
<1>2. CASE Main
  BY <1>1, <1>2 DEF Main, MainStart, StartReturns, EnterLoop, LoopStep, Return, mvars,
                    TypeOK, C!Inv, E!Inv
<1>3. CASE Thread
  <2>1. UNCHANGED mvars \/ (main' = "crashed" /\ UNCHANGED <<starting, handle>>)
    BY <1>3 DEF Thread, Start, Sleep, SetAlarm, StopAlarm, Yield, Join, JoinHandle,
                JoinReturn, Exit, mvars
  <2>2. naps' \in 0..MaxNaps
    BY <1>1, <1>3 DEF Thread, Start, Sleep, SetAlarm, StopAlarm, Yield, Join, JoinHandle,
                      JoinReturn, Exit
  <2> QED BY <1>1, <2>1, <2>2 DEF mvars, TypeOK, C!Inv, E!Inv
<1>4. CASE \/ \E e \in queue : Fire(e)
           \/ CallbackReturn \/ TimedOut \/ Interrupt \/ Tick \/ Done \/ UNCHANGED vars
  BY <1>1, <1>4 DEF Fire, CallbackReturn, TimedOut, Interrupt, Tick, Done, vars, mvars,
                    TypeOK, C!Inv, E!Inv
<1> QED
  BY <1>2, <1>3, <1>4 DEF Next

\* Whether a timer is among the entries q.
Has(q, timer) == \E e \in q : e.node = timer

\* The timers of a thread that is at `place', with the entries q in the heap.
TimersFit(q, t, place) ==
  /\ place = "parked" => Has(q, <<t, "sleep">>) \/ Has(q, <<t, "alarm">>)
  /\ Has(q, <<t, "sleep">>) => place = "parked" /\ ~Has(q, <<t, "alarm">>)
  /\ Has(q, <<t, "alarm">>) => place \in {"parked", "live", "call"}

\* AlarmsWakeSleepers, thread by thread.
LEMMA AlarmsFit ==
  /\ AlarmsWakeSleepers <=> \A t \in Threads : TimersFit(queue, t, at[t])
  /\ AlarmsWakeSleepers' <=> \A t \in Threads : TimersFit(queue', t, at'[t])
BY DEF AlarmsWakeSleepers, TimersFit, E!Queued, Has

\* A thread's timers fit where it is if neither has changed.
LEMMA SameTimers ==
  ASSUME NEW q, NEW r, NEW t, NEW place, TimersFit(q, t, place),
         \A kind \in {"sleep", "alarm"} : Has(r, <<t, kind>>) <=> Has(q, <<t, kind>>)
  PROVE  TimersFit(r, t, place)
BY DEF TimersFit

\* A step that takes a context from where it executed to `place', and gives
\* control to `to', keeps the timers right if those of the first one are, and the
\* second one is not asleep.
LEMMA SwitchKeepsAlarms ==
  ASSUME Inv, NEW place, NEW to, C!Switch(self, place, to),
         \A t \in Threads \ {self}, kind \in {"sleep", "alarm"} :
           Has(queue', <<t, kind>>) <=> Has(queue, <<t, kind>>),
         to \in Threads => to # self /\ at[to] # "parked",
         self \in Threads => TimersFit(queue', self, place)
  PROVE  AlarmsWakeSleepers'
<1>1. /\ at \in [C!Contexts -> C!Places]
      /\ at' = [at EXCEPT ![self] = place, ![to] = "live"]
  BY DEF C!Switch, Inv, TypeOK, C!TypeOK
<1>2. \A t \in Threads : t \in C!Contexts
  BY DEF C!Contexts
<1>3. \A t \in Threads : TimersFit(queue, t, at[t])
  BY AlarmsFit DEF Inv
<1>4. ASSUME NEW t \in Threads
      PROVE  TimersFit(queue', t, at'[t])
  <2>1. CASE t = to
    <3>1. at'[t] = "live"
      BY <1>1, <1>2, <2>1
    <3>2. ~Has(queue', <<t, "sleep">>)
      BY <1>3, <2>1 DEF TimersFit
    <3> QED BY <3>1, <3>2 DEF TimersFit
  <2>2. CASE t # to /\ t = self
    BY <1>1, <1>2, <2>2
  <2>3. CASE t # to /\ t # self
    <3>1. at'[t] = at[t]
      BY <1>1, <1>2, <2>3
    <3> QED BY <1>3, <2>3, <3>1, SameTimers
  <2> QED BY <2>1, <2>2, <2>3
<1> QED
  BY <1>4, AlarmsFit

\* A thread that yields, joins or exits gives control to one that waits for that.
LEMMA ResumesWaiting ==
  ASSUME Inv, self \in Threads, C!Free(self)
  PROVE  /\ yieldTo[self] # self /\ at[yieldTo[self]] # "parked"
         /\ exitTo[self] # NULL => exitTo[self] # self /\ at[exitTo[self]] # "parked"
<1>1. at[self] = "live" /\ ~finished[self] /\ joinOf[self] = NULL
  BY DEF C!Free, Inv, C!Inv, C!JoinAssertion
<1>2. at[yieldTo[self]] = "call"
  BY <1>1 DEF Inv, C!Inv, C!CallersWait, C!OnChain
<1>3. ASSUME exitTo[self] # NULL
      PROVE  exitTo[self] # self /\ at[exitTo[self]] # "parked"
  <2>1. exitTo[self] \in Threads /\ joinOf[exitTo[self]] = self /\ self # NULL
    BY <1>3 DEF Inv, C!Inv, C!TypeOK, C!ExitToJoiner, C!Contexts, Threads, NULL
  <2>2. at[exitTo[self]] \in {"join", "live"}
    BY <2>1 DEF Inv, C!Inv, C!JoinFrames
  <2> QED BY <1>1, <2>1, <2>2
<1> QED
  BY <1>1, <1>2, <1>3

\* A new entry for one timer of a thread.
LEMMA NewEntry ==
  ASSUME NEW q, NEW value, NEW timer
  PROVE  LET r == q \cup {[value |-> value, node |-> timer]}
         IN  \A x : Has(r, x) <=> Has(q, x) \/ x = timer
<1> DEFINE new == [value |-> value, node |-> timer]
<1>1. new.node = timer
  OBVIOUS
<1> HIDE DEF new
<1>2. \A x : Has(q \cup {new}, x) <=> Has(q, x) \/ x = timer
  BY <1>1 DEF Has
<1> QED
  BY <1>2 DEF new

\* What a thread has done with its timers when it gives up control is right for
\* the way in which it does.
LEMMA AlarmsStep ==
  ASSUME StopsAlarms, Inv, CP!HasChain, [Next]_vars
  PROVE  AlarmsWakeSleepers'
<1>0. /\ \A x : (queue' = queue) => (Has(queue', x) <=> Has(queue, x))
      /\ self # NULL => self \in Threads
      /\ \A t \in Threads : TimersFit(queue, t, at[t])
  BY AlarmsFit DEF Has, Inv, TypeOK, C!TypeOK, C!Contexts
<1>1. ASSUME NEW t \in Threads, MainStart(t) \/ Start(t)
      PROVE  AlarmsWakeSleepers'
  <2>1. /\ C!Switch(self, "call", t) /\ queue' = queue
        /\ at[t] = "unborn" /\ at[self] = "live"
    BY <1>1 DEF MainStart, Start, C!MainStart, C!Start, C!DoCall, C!CreateCthread, C!Born,
                C!Free, evars
  <2>2. self \in Threads => TimersFit(queue', self, "call")
    BY <1>0, <2>1 DEF TimersFit
  <2> QED BY <1>0, <2>1, <2>2, SwitchKeepsAlarms
<1>2. ASSUME NEW e \in queue, Fire(e)
      PROVE  AlarmsWakeSleepers'
  <2>1. /\ C!Free(NULL) /\ self = NULL /\ e.node \in Timers
        /\ C!Switch(self, "call", e.node[1]) /\ queue' = queue \ {e}
        /\ \A f \in queue : e.node = f.node => e = f
    BY <1>2 DEF Fire, E!Fire, E!Remove, C!DoCall, C!Free, Inv, LoopOnMain, E!Inv,
                E!TypeOK, E!LabelsAgree
  <2>2. PICK u \in Threads, kind \in {"sleep", "alarm"} : e.node = <<u, kind>>
    BY <2>1 DEF Timers
  <2>3. e.node[1] = u /\ Has(queue, <<u, kind>>) /\ ~Has(queue', <<u, kind>>)
    BY <2>1, <2>2 DEF Has
  <2>4. \A x : x # e.node => (Has(queue', x) <=> Has(queue, x))
    BY <2>1 DEF Has
  <2>5. /\ at \in [C!Contexts -> C!Places] /\ NULL \notin Threads
        /\ at' = [at EXCEPT ![NULL] = "call", ![u] = "live"]
    BY <2>1, <2>3 DEF C!Switch, Inv, TypeOK, C!TypeOK, Threads, NULL
  <2>6. at'[u] = "live" /\ \A t \in Threads \ {u} : at'[t] = at[t]
    BY <2>5 DEF C!Contexts
  <2>7. TimersFit(queue', u, "live")
    <3>1. kind = "sleep" => ~Has(queue', <<u, "alarm">>)
      BY <1>0, <2>2, <2>3, <2>4 DEF TimersFit
    <3>2. ~Has(queue', <<u, "sleep">>)
      BY <1>0, <2>2, <2>3, <2>4 DEF TimersFit
    <3> QED BY <3>2 DEF TimersFit
  <2>8. ASSUME NEW t \in Threads
        PROVE  TimersFit(queue', t, at'[t])
    <3>1. CASE t = u
      BY <2>6, <2>7, <3>1
    <3>2. CASE t # u
      <4>1. \A k \in {"sleep", "alarm"} : Has(queue', <<t, k>>) <=> Has(queue, <<t, k>>)
        BY <2>2, <2>4, <3>2
      <4> QED BY <1>0, <2>6, <3>2, <4>1, SameTimers
    <3> QED BY <3>1, <3>2
  <2> QED BY <2>8, AlarmsFit
<1>3. ASSUME NEW msecs \in E!Delays, Sleep(msecs)
      PROVE  AlarmsWakeSleepers'
  <2>1. /\ self \in Threads /\ C!Free(self) /\ ~Has(queue, <<self, "alarm">>)
        /\ queue' = queue \cup
             {[value |-> E!Plus(now, msecs), node |-> <<self, "sleep">>]}
        /\ C!Switch(self, "parked", yieldTo[self])
    BY <1>0, <1>3 DEF Sleep, ThreadRuns, MayLeave, E!Alarm, C!Yield, C!DoYield, E!Queued,
                      Has
  <2>2. \A x : Has(queue', x) <=> Has(queue, x) \/ x = <<self, "sleep">>
    BY <2>1, NewEntry
  <2>3. TimersFit(queue', self, "parked")
    BY <2>1, <2>2 DEF TimersFit
  <2>4. \A t \in Threads \ {self}, kind \in {"sleep", "alarm"} :
          Has(queue', <<t, kind>>) <=> Has(queue, <<t, kind>>)
    BY <2>2
  <2> QED BY <2>1, <2>3, <2>4, ResumesWaiting, SwitchKeepsAlarms
<1>4. ASSUME NEW msecs \in E!Delays, SetAlarm(msecs)
      PROVE  AlarmsWakeSleepers'
  <2>1. /\ self \in Threads /\ at[self] = "live" /\ at' = at
        /\ queue' = queue \cup
             {[value |-> E!Plus(now, msecs), node |-> <<self, "alarm">>]}
    BY <1>0, <1>4 DEF SetAlarm, ThreadRuns, E!Alarm, C!Free, cvars
  <2>2. \A x : Has(queue', x) <=> Has(queue, x) \/ x = <<self, "alarm">>
    BY <2>1, NewEntry
  <2>3. ASSUME NEW t \in Threads
        PROVE  TimersFit(queue', t, at'[t])
    <3>1. CASE t = self
      BY <1>0, <2>1, <2>2, <3>1 DEF TimersFit
    <3>2. CASE t # self
      BY <1>0, <2>1, <2>2, <3>2, SameTimers
    <3> QED BY <3>1, <3>2
  <2> QED BY <2>3, AlarmsFit
<1>5. ASSUME StopAlarm
      PROVE  AlarmsWakeSleepers'
  <2>1. /\ at[self] = "live" /\ at' = at
        /\ queue' = {e \in queue : e.node # <<self, "alarm">>}
    BY <1>5 DEF StopAlarm, E!Stop, C!Free, cvars
  <2>2. \A x : Has(queue', x) <=> Has(queue, x) /\ x # <<self, "alarm">>
    BY <2>1 DEF Has
  <2>3. ASSUME NEW t \in Threads
        PROVE  TimersFit(queue', t, at'[t])
    BY <1>0, <2>1, <2>2 DEF TimersFit
  <2> QED BY <2>3, AlarmsFit
<1>6. ASSUME Yield
      PROVE  AlarmsWakeSleepers'
  <2>1. /\ C!Switch(self, "parked", yieldTo[self]) /\ queue' = queue
        /\ Has(queue, <<self, "alarm">>) /\ self \in Threads /\ C!Free(self)
    BY <1>0, <1>6 DEF Yield, ThreadRuns, C!Yield, C!DoYield, evars, E!Queued, Has
  <2>2. TimersFit(queue', self, "parked")
    BY <1>0, <2>1 DEF TimersFit, C!Free
  <2> QED BY <1>0, <2>1, <2>2, ResumesWaiting, SwitchKeepsAlarms
<1>7. ASSUME NEW t \in Threads, Join(t)
      PROVE  AlarmsWakeSleepers'
  <2>1. /\ C!Switch(self, "join", yieldTo[self]) /\ queue' = queue
        /\ ~Has(queue, <<self, "alarm">>) /\ self \in Threads /\ C!Free(self)
    BY <1>0, <1>7 DEF Join, ThreadRuns, MayLeave, C!Join, C!DoYield, evars, E!Queued, Has
  <2>2. TimersFit(queue', self, "join")
    BY <1>0, <2>1 DEF TimersFit, C!Free
  <2> QED BY <1>0, <2>1, <2>2, ResumesWaiting, SwitchKeepsAlarms
<1>8. ASSUME Exit
      PROVE  AlarmsWakeSleepers'
  <2>1. /\ queue' = queue /\ ~Has(queue, <<self, "alarm">>)
        /\ self \in Threads /\ C!Free(self)
    BY <1>0, <1>8 DEF Exit, ThreadRuns, MayLeave, C!Exit, evars, E!Queued, Has
  <2>2. PICK to : /\ C!Switch(self, "exit", to)
                  /\ to = yieldTo[self] \/ (exitTo[self] # NULL /\ to = exitTo[self])
    BY <1>8 DEF Exit, C!Exit, C!Leave, C!DoYield, C!DoTailCall
  <2>3. to # self /\ at[to] # "parked"
    BY <2>1, <2>2, ResumesWaiting
  <2>4. TimersFit(queue', self, "exit")
    BY <1>0, <2>1 DEF TimersFit, C!Free
  <2> QED BY <1>0, <2>1, <2>2, <2>3, <2>4, SwitchKeepsAlarms
<1>9. CASE StartReturns \/ EnterLoop \/ LoopStep \/ Return \/ JoinReturn
           \/ (\E t \in Threads : JoinHandle(t)) \/ CallbackReturn
           \/ TimedOut \/ Interrupt \/ Tick \/ Done \/ UNCHANGED vars
  <2>1. UNCHANGED <<queue, at>>
    BY <1>9 DEF StartReturns, EnterLoop, LoopStep, Return, JoinReturn, JoinHandle,
                CallbackReturn, TimedOut, Interrupt, Tick, Done, vars, evars, cvars,
                C!JoinReturn, E!BeginStep, E!CallbackReturn, E!TimedOut, E!WaitReturn,
                E!Interrupt, E!TooManySignals, E!Tick
  <2> QED BY <1>0, <2>1, AlarmsFit
<1> QED
  BY <1>1, <1>2, <1>3, <1>4, <1>5, <1>6, <1>7, <1>8, <1>9 DEF Next, Main, Thread

\* Threads run, and main starts them, only where the loop is not in a wait or
\* between timers.
LEMMA LoopOnMainStep ==
  ASSUME Inv, CP!HasChain, [Next]_vars
  PROVE  LoopOnMain'
<1>1. CASE Main
  BY <1>1 DEF Main, MainStart, StartReturns, EnterLoop, LoopStep, Return, evars, cvars,
              mvars, E!BeginStep, C!Free, Inv, LoopOnMain
<1>2. CASE Thread
  <2>1. self # NULL
    BY <1>2 DEF Thread, Start, Sleep, SetAlarm, StopAlarm, Yield, Join, JoinHandle,
                JoinReturn, Exit, ThreadRuns
  <2>2. step \notin {"timers", "wait"}
    BY <2>1 DEF Inv, LoopOnMain, C!Free
  <2>3. step' = step /\ main' \in {main, "crashed"}
    BY <1>2 DEF Thread, Start, Sleep, SetAlarm, StopAlarm, Yield, Join, JoinHandle,
                JoinReturn, Exit, evars, mvars, E!Alarm, E!Stop
  <2> QED BY <2>2, <2>3 DEF Inv, LoopOnMain
<1>3. CASE \E e \in queue : Fire(e)
  BY <1>3 DEF Fire, mvars, E!Fire, Inv, LoopOnMain
<1>4. CASE CallbackReturn
  BY <1>4 DEF CallbackReturn, cvars, mvars, E!CallbackReturn, C!Free, Inv, LoopOnMain
<1>5. CASE TimedOut \/ Interrupt \/ Tick \/ Done \/ UNCHANGED vars
  BY <1>5 DEF TimedOut, Interrupt, Tick, Done, vars, cvars, evars, mvars,
              E!TimedOut, E!WaitReturn, E!Interrupt, E!TooManySignals, E!Tick, C!Free,
              Inv, LoopOnMain
<1> QED
  BY <1>1, <1>2, <1>3, <1>4, <1>5 DEF Next

\* A thread once born stays so.
LEMMA BornStays ==
  ASSUME Inv, NEW place \in C!Places \ {"unborn"}, NEW to, C!Switch(self, place, to),
         NEW t \in Threads, C!Born(t)
  PROVE  at'[t] # "unborn"
<1>1. /\ at \in [C!Contexts -> C!Places] /\ t \in C!Contexts
      /\ at' = [at EXCEPT ![self] = place, ![to] = "live"]
  BY DEF C!Switch, Inv, TypeOK, C!TypeOK, C!Contexts
<1>2. CASE t = to
  <2>1. at'[to] = "live"
    BY <1>1, <1>2
  <2> QED BY <1>2, <2>1
<1>3. CASE t # to
  BY <1>1, <1>3 DEF C!Born
<1> QED
  BY <1>2, <1>3

\* No thread joins a younger one.
LEMMA JoinsEarlierStep ==
  ASSUME Inv, CP!HasChain, [Next]_vars
  PROVE  JoinsEarlier'
<1>0. /\ joinOf \in [C!Contexts -> C!Contexts]
      /\ at \in [C!Contexts -> C!Places] /\ self \in C!Contexts
      /\ C!Contexts = Threads \cup {NULL} /\ NULL \notin Threads
  BY DEF Inv, TypeOK, C!TypeOK, C!Contexts, Threads, NULL
<1>1. ASSUME joinOf' = joinOf,
             \/ at' = at
             \/ \E place \in C!Places \ {"unborn"}, to \in C!Contexts :
                  C!Switch(self, place, to)
      PROVE  JoinsEarlier'
  <2>1. ASSUME NEW t \in Threads, joinOf[t] # NULL
        PROVE  at'[joinOf[t]] # "unborn" /\ joinOf[t] < t
    <3>1. joinOf[t] \in Threads /\ C!Born(joinOf[t]) /\ joinOf[t] < t
      BY <1>0, <2>1 DEF Inv, JoinsEarlier
    <3> QED BY <1>1, <3>1, BornStays DEF C!Born
  <2> QED BY <1>1, <2>1 DEF JoinsEarlier, C!Born
<1>2. ASSUME NEW u \in Threads, Join(u)
      PROVE  JoinsEarlier'
  <2>1. /\ self \in Threads /\ u < self /\ C!Born(u)
        /\ joinOf' = [joinOf EXCEPT ![self] = u]
        /\ C!Switch(self, "join", yieldTo[self]) /\ "join" \in C!Places \ {"unborn"}
    BY <1>0, <1>2 DEF Join, ThreadRuns, C!Join, C!DoYield, C!Places
  <2>2. ASSUME NEW t \in Threads, joinOf'[t] # NULL
        PROVE  at'[joinOf'[t]] # "unborn" /\ joinOf'[t] < t
    <3>1. CASE t = self
      <4>1. joinOf'[t] = u
        BY <1>0, <2>1, <3>1
      <4> QED BY <2>1, <3>1, <4>1, BornStays
    <3>2. CASE t # self
      <4>1. joinOf'[t] = joinOf[t] /\ joinOf[t] \in Threads
        BY <1>0, <2>1, <2>2, <3>2
      <4>2. C!Born(joinOf[t]) /\ joinOf[t] < t
        BY <4>1, <1>0 DEF Inv, JoinsEarlier
      <4> QED BY <2>1, <4>1, <4>2, BornStays
    <3> QED BY <3>1, <3>2
  <2> QED BY <2>2 DEF JoinsEarlier, C!Born
<1>3. ASSUME JoinReturn
      PROVE  JoinsEarlier'
  <2>1. at' = at /\ joinOf' = [joinOf EXCEPT ![self] = NULL]
    BY <1>3 DEF JoinReturn, C!JoinReturn
  <2>2. \A t \in Threads : joinOf'[t] # NULL => joinOf'[t] = joinOf[t]
    BY <1>0, <2>1
  <2> QED BY <2>1, <2>2 DEF Inv, JoinsEarlier, C!Born
<1>4. CASE \E t \in Threads : MainStart(t) \/ Start(t)
  <2>1. PICK t \in Threads : C!Switch(self, "call", t) /\ joinOf' = joinOf
    BY <1>4 DEF MainStart, Start, C!MainStart, C!Start, C!DoCall, C!CreateCthread
  <2>2. "call" \in C!Places \ {"unborn"}
    BY DEF C!Places
  <2> QED BY <1>0, <1>1, <2>1, <2>2
<1>5. CASE Yield \/ \E msecs \in E!Delays : Sleep(msecs)
  <2>1. /\ C!Switch(self, "parked", yieldTo[self]) /\ joinOf' = joinOf
        /\ yieldTo[self] \in C!Contexts
    BY <1>0, <1>5 DEF Yield, Sleep, ThreadRuns, C!Yield, C!DoYield, Inv, TypeOK, C!TypeOK
  <2>2. "parked" \in C!Places \ {"unborn"}
    BY DEF C!Places
  <2> QED BY <1>1, <2>1, <2>2
<1>6. CASE Exit
  <2>1. /\ \E to \in C!Contexts : C!Switch(self, "exit", to)
        /\ joinOf' = joinOf
    BY <1>0, <1>6 DEF Exit, ThreadRuns, C!Exit, C!Leave, C!DoYield, C!DoTailCall, Inv,
               TypeOK, C!TypeOK
  <2>2. "exit" \in C!Places \ {"unborn"}
    BY DEF C!Places
  <2> QED BY <1>1, <2>1, <2>2
<1>7. CASE \E e \in queue : Fire(e)
  <2>1. /\ \E to \in Threads : C!Switch(self, "call", to)
        /\ joinOf' = joinOf
    BY <1>7, FireCalls DEF Fire, C!DoCall
  <2>2. "call" \in C!Places \ {"unborn"}
    BY DEF C!Places
  <2> QED BY <1>0, <1>1, <2>1, <2>2
<1>8. CASE \/ StartReturns \/ EnterLoop \/ LoopStep \/ Return \/ StopAlarm
           \/ (\E msecs \in E!Delays : SetAlarm(msecs))
           \/ (\E t \in Threads : JoinHandle(t))
           \/ CallbackReturn \/ TimedOut \/ Interrupt \/ Tick \/ Done \/ UNCHANGED vars
  <2>1. joinOf' = joinOf /\ at' = at
    BY <1>8 DEF StartReturns, EnterLoop, LoopStep, Return, StopAlarm, SetAlarm,
                JoinHandle, CallbackReturn, TimedOut, Interrupt, Tick, Done, vars, cvars
  <2> QED BY <1>1, <2>1
<1> QED
  BY <1>2, <1>3, <1>4, <1>5, <1>6, <1>7, <1>8 DEF Next, Main, Thread

\* When main runs while a thread is unfinished, some thread sleeps: the oldest
\* unfinished thread can be joining only one that has finished, whose exit would
\* have woken it if no later join had overwritten exit_to.
LEMMA SomeSleeper ==
  ASSUME Inv, CP!HasChain, C!Free(NULL), numThreads # 0
  PROVE  queue # {} \/ \E t \in Threads : LostJoiner(t)
<1> DEFINE Unfinished == {t \in Threads : C!Born(t) /\ ~finished[t]}
<1>1. Unfinished # {} /\ Unfinished \in SUBSET Nat
  BY SomeUnfinished DEF Inv, Threads
<1>2. PICK t \in Unfinished : \A u \in Unfinished : t <= u
  <2> HIDE DEF Unfinished
  <2> QED BY <1>1, EP!LeastNatural, Assumptions
<1>3. /\ t \in Threads /\ C!Born(t) /\ ~finished[t]
      /\ at[t] \in {"unborn", "live", "call", "parked", "join", "exit"}
  BY DEF Inv, TypeOK, C!TypeOK, C!Places, C!Contexts
<1>4. at[t] \in {"parked", "join"}
  BY <1>3, MainAlone DEF Inv, C!Inv, C!ExitedIffFinished, C!Born
<1>5. ASSUME at[t] = "join"
      PROVE  LostJoiner(t)
  <2>1. joinOf[t] \in Threads /\ joinOf[t] # NULL
    BY <1>3, <1>5 DEF Inv, C!Inv, C!JoinFrames, Threads, NULL
  <2>2. C!Born(joinOf[t]) /\ joinOf[t] < t
    BY <1>3, <2>1 DEF Inv, JoinsEarlier
  <2>3. t \in Int /\ joinOf[t] \in Int /\ t # NULL
    BY <1>3, <2>1 DEF Threads, NULL
  <2>4. finished[joinOf[t]]
    BY <1>2, <2>1, <2>2, <2>3
  <2>5. exitTo[joinOf[t]] # t
    BY <1>5, <2>1, <2>3, <2>4 DEF Inv, C!Inv, C!NoLostJoiner
  <2> QED BY <1>5, <2>5 DEF LostJoiner
<1>6. at[t] = "parked" => queue # {}
  BY <1>3 DEF Inv, AlarmsWakeSleepers, E!Queued
<1> QED
  BY <1>3, <1>4, <1>5, <1>6

\* A wait is set up with the first deadline, and keeps its time-out; meanwhile
\* no thread runs.
LEMMA NeverIdleStep ==
  ASSUME Inv, CP!HasChain, [Next]_vars, E!Inv'
  PROVE  NeverIdle'
<1>1. CASE LoopStep
  <2>1. UNCHANGED <<queue, at, exitTo, joinOf>>
    BY <1>1 DEF LoopStep, E!BeginStep, cvars
  <2>2. queue # {} \/ \E t \in Threads : LostJoiner(t)
    BY <1>1, SomeSleeper DEF LoopStep
  <2> QED BY <2>1, <2>2 DEF E!Inv, E!WaitsForFirst, NeverIdle, LostJoiner
<1>2. CASE ~LoopStep
  <2>1. step' = "wait" =>
          step = "wait" /\ timeout' = timeout /\ UNCHANGED <<at, exitTo, joinOf>>
    <3>1. CASE Main
      BY <1>2, <3>1 DEF Main, MainStart, StartReturns, EnterLoop, Return, evars, cvars,
                        Inv, LoopOnMain
    <3>2. CASE Thread
      <4>1. self # NULL
        BY <3>2 DEF Thread, Start, Sleep, SetAlarm, StopAlarm, Yield, Join, JoinHandle,
                    JoinReturn, Exit, ThreadRuns
      <4>2. step' = step
        BY <3>2 DEF Thread, Start, Sleep, SetAlarm, StopAlarm, Yield, Join, JoinHandle,
                    JoinReturn, Exit, evars, E!Alarm, E!Stop
      <4> QED BY <4>1, <4>2 DEF Inv, LoopOnMain, C!Free
    <3>3. CASE \/ \E e \in queue : Fire(e)
               \/ CallbackReturn \/ TimedOut \/ Interrupt \/ Tick \/ Done
               \/ UNCHANGED vars
      BY <3>3 DEF Fire, CallbackReturn, TimedOut, Interrupt, Tick, Done, vars, evars,
                  cvars, E!Fire, E!CallbackReturn, E!TimedOut, E!WaitReturn,
                  E!Interrupt, E!TooManySignals, E!Tick
    <3> QED BY <3>1, <3>2, <3>3 DEF Next
  <2> QED BY <2>1 DEF Inv, NeverIdle, LostJoiner
<1> QED
  BY <1>1, <1>2

-----------------------------------------------------------------------------
(* The theorems.                                                           *)

\* The invariant of the composition, with the chain of callers.
Together == Inv /\ CP!HasChain

\* Before main starts a thread.
LEMMA InitTogether ==
  ASSUME Init
  PROVE  Together
<1>1. C!Inv
  BY CoreInv, CoreNext, CP!InitInv, Assumptions DEF Init
<1>2. E!Inv
  BY LoopInv, LoopNext, EP!InitInv, Assumptions DEF Init
<1>3. CP!HasChain
  BY CoreNext, CP!InitChain, Assumptions DEF Init, CP!HasChain
<1>4. TypeOK
  BY <1>1, <1>2, ProgramAssumption DEF Init, TypeOK, C!Inv, E!Inv
<1>5. \A t \in Threads : at[t] = "unborn" /\ joinOf[t] = NULL
  BY DEF Init, C!Init, C!Contexts, Threads, NULL
<1>6. AlarmsWakeSleepers /\ NeverIdle /\ LoopOnMain /\ JoinsEarlier
  BY <1>5 DEF Init, E!Init, AlarmsWakeSleepers, NeverIdle, LoopOnMain,
              JoinsEarlier, E!Queued
<1> QED
  BY <1>1, <1>2, <1>3, <1>4, <1>6 DEF Together, Inv

\* The components' invariants are kept by their theorems, the rest by the
\* lemmas above.
LEMMA StepTogether ==
  ASSUME StopsAlarms, Together, [Next]_vars
  PROVE  Together'
<1>1. Inv /\ CP!HasChain
  BY DEF Together
<1>2. C!Inv' /\ CP!HasChain'
  BY <1>1, CoreSteps, CoreStep DEF Inv
<1>3. E!Inv'
  BY <1>1, LoopSteps, LoopStepInv DEF Inv
<1>4. TypeOK' /\ AlarmsWakeSleepers' /\ LoopOnMain'
  BY <1>1, <1>2, <1>3, TypeStep, AlarmsStep, LoopOnMainStep
<1>5. JoinsEarlier' /\ NeverIdle'
  BY <1>1, <1>2, <1>3, JoinsEarlierStep, NeverIdleStep
<1> QED
  BY <1>2, <1>3, <1>4, <1>5 DEF Together, Inv

\* The invariant holds in every reachable state of a program that stops its
\* alarms.
THEOREM Invariance ==
  ASSUME StopsAlarms
  PROVE  Spec => []Together
<1>1. Init => Together
  BY InitTogether
<1>2. Together /\ [Next]_vars => Together'
  BY StepTogether
<1> QED
  BY <1>1, <1>2, PTL DEF Spec

\* Type correctness of the program and its components.
THEOREM TypeCorrect ==
  ASSUME StopsAlarms
  PROVE  Spec => []TypeOK
<1>1. Together => TypeOK
  BY DEF Together, Inv
<1> QED
  BY <1>1, Invariance, PTL

\* The timers of a thread wake it from its sleep and from nothing else, and
\* none outlives the sleep it was set for, with any number of threads that
\* sleep, start and join each other.
THEOREM AlarmsFindSleepers ==
  ASSUME StopsAlarms
  PROVE  Spec => []AlarmsWakeSleepers
<1>1. Together => AlarmsWakeSleepers
  BY DEF Together, Inv
<1> QED
  BY <1>1, Invariance, PTL

\* While a thread is unfinished, main's loop waits with a time-out, or some
\* thread waits for a join that another one has overwritten.
THEOREM LoopNeverIdles ==
  ASSUME StopsAlarms
  PROVE  Spec => []NeverIdle
<1>1. Together => NeverIdle
  BY DEF Together, Inv
<1> QED
  BY <1>1, Invariance, PTL

\* A thread that sleeps is resumed in time: it has a timer of its own in the
\* queue, and no timer there is late by more than the bound.
THEOREM SleepersWake ==
  ASSUME StopsAlarms
  PROVE  Spec => []SleepersInTime
<1>1. ASSUME Together PROVE SleepersInTime
  <2> SUFFICES ASSUME NEW t \in Threads, at[t] = "parked"
               PROVE  \E kind \in {"sleep", "alarm"} :
                        /\ E!Queued(<<t, kind>>)
                        /\ (IF step = "wait" THEN lag ELSE 0) - rest[<<t, kind>>]
                             <= E!MaxLate
    BY DEF SleepersInTime
  <2>1. PICK kind \in {"sleep", "alarm"} : E!Queued(<<t, kind>>)
    BY <1>1 DEF Together, Inv, AlarmsWakeSleepers
  <2>2. PICK e \in queue : e.node = <<t, kind>>
    BY <2>1 DEF E!Queued
  <2>3. EP!Inv /\ E!MaxLate = EP!MaxLate
    BY <1>1, LoopInv DEF Together, Inv, E!MaxLate, EP!MaxLate
  <2>4. CASE step = "wait"
    <3>1. lag - rest[e.node] <= EP!MaxLate
      BY <2>3, <2>4, EP!WaitIsNotTooLate, Assumptions DEF EP!Inv
    <3> QED BY <2>1, <2>2, <2>3, <2>4, <3>1
  <2>5. CASE step # "wait"
    <3>1. -rest[e.node] <= EP!MaxLate
      BY <2>3, <2>5 DEF EP!Inv, EP!WaitEndedInTime
    <3>2. rest[e.node] \in Int /\ 0 - rest[e.node] = -rest[e.node]
      BY <2>3, Assumptions DEF EP!Inv, EP!TypeOK
    <3> QED BY <2>1, <2>2, <2>3, <2>5, <3>1, <3>2
  <2> QED BY <2>4, <2>5
<1> QED
  BY <1>1, Invariance, PTL

\* The assertions of cthread_join and cthread_exit hold in a program that stops
\* its alarms; ProgramAlarm shows that they fail in one that does not.
THEOREM AssertionsHold ==
  ASSUME StopsAlarms
  PROVE  Spec => []JoinAssertion
<1>1. Together => JoinAssertion
  BY DEF Together, Inv, C!Inv, JoinAssertion
<1> QED
  BY <1>1, Invariance, PTL

\* Every step of the program is one that the coroutine core allows its callers:
\* what CthreadProofs shows of it holds for this program.
THEOREM ThreadRulesKept ==
  ASSUME StopsAlarms
  PROVE  Spec => KeepsThreadRules
<1>1. Init => C!Init
  BY DEF Init
<1>2. Together /\ [Next]_vars => [C!Next]_(C!vars)
  BY CoreSteps DEF Together, cvars, C!vars
<1> QED
  BY <1>1, <1>2, Invariance, PTL DEF Spec, KeepsThreadRules, C!Spec

=============================================================================
