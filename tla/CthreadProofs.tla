--------------------------- MODULE CthreadProofs ---------------------------
(***************************************************************************)
(* Proofs about the coroutine core, for every finite set of threads and    *)
(* for programs that join threads once or many times.                      *)
(*                                                                         *)
(* The argument: the contexts that are live or in a call form a chain in   *)
(* which every thread's yield_to is suspended in a call and no two threads *)
(* have the same one (CallersWait).  So giving control back to yield_to    *)
(* always finds a context that is waiting for it, and never one that is    *)
(* parked, joining or finished, however stale the yield_to of those is.    *)
(* Adding that the chain is one list back to main (HasChain), calls,       *)
(* yields, tail calls and exits are the push, pop and replace of a stack.  *)
(***************************************************************************)
EXTENDS Cthread, Sequences, FiniteSetTheorems, WellFoundedInduction,
        NaturalsInduction, TLAPS

USE ThreadsAssumption DEF Contexts, Places

\* The conjuncts of the invariant that do not count threads.
Pointers ==
  /\ TypeOK
  /\ OneRunning
  /\ CallersWait
  /\ JoinFrames
  /\ ExitToJoiner
  /\ ExitedIffFinished
  /\ MainNeverParks
  /\ JoinAssertion
  /\ NoLostJoiner

\* The threads that num_threads counts.
Counted == {t \in Threads : Born(t) /\ ~finished[t]}

-----------------------------------------------------------------------------
(* Two facts about the states the actions start from.                      *)

\* A thread that executes program code has a caller that waits for it and for
\* no other thread: do_yield resumes a context that is suspended in a call.
LEMMA CallerWaits ==
  ASSUME Pointers, self # NULL, Free(self)
  PROVE  /\ yieldTo[self] \in Contexts
         /\ at[yieldTo[self]] = "call"
         /\ yieldTo[self] # self
         /\ \A t \in Threads \ {self} : OnChain(t) => yieldTo[t] # yieldTo[self]
BY DEF Pointers, TypeOK, Free, CallersWait, OnChain

\* The thread that exit_to names is suspended in the join of this very thread.
LEMMA JoinerWaits ==
  ASSUME Pointers, self # NULL, Free(self), exitTo[self] # NULL
  PROVE  /\ exitTo[self] \in Threads
         /\ at[exitTo[self]] = "join"
         /\ joinOf[exitTo[self]] = self
<1>1. /\ exitTo[self] \in Threads
      /\ joinOf[exitTo[self]] = self
      /\ at[exitTo[self]] = "live" => finished[self]
  BY DEF Pointers, TypeOK, ExitToJoiner
<1>2. ~finished[self]
  BY DEF Pointers, TypeOK, JoinAssertion, Free
<1> QED
  BY <1>1, <1>2 DEF Pointers, JoinFrames

\* A joiner of an unfinished thread is suspended, and the joiner of a finished
\* one, which runs, gives up no control before it leaves cthread_join: so what
\* exit_to says of joiners survives every switch that is not part of a join.
LEMMA JoinersStay ==
  ASSUME Pointers, Free(self), NEW place \in Places \ {"join"}, NEW to \in Contexts,
         at[to] # "join", Switch(self, place, to), UNCHANGED <<exitTo, joinOf, finished>>
  PROVE  NoLostJoiner'
<1> USE DEF Pointers, TypeOK, Free, Switch
<1>1. \A t \in Threads : finished[t] => exitTo[t] = NULL
  BY DEF NoLostJoiner, OneRunning, ExitToJoiner
<1>2. \A c \in Threads : at'[c] = "join" <=> at[c] = "join"
  OBVIOUS
<1> QED
  BY <1>1, <1>2 DEF NoLostJoiner

-----------------------------------------------------------------------------
(* Every action preserves the meaning of the pointers.                     *)

LEMMA PointersStep ==
  ASSUME Pointers, [Next]_vars, numThreads' \in Nat
  PROVE  Pointers'
<1> USE DEF Pointers, TypeOK, Free, Switch
<1>1. ASSUME NEW t \in Threads, MainStart(t)  PROVE Pointers'
  <2>1. TypeOK' /\ OneRunning' /\ MainNeverParks'
    BY <1>1 DEF MainStart, DoCall, CreateCthread, OneRunning, MainNeverParks, OnChain
  <2>2. CallersWait'
    BY <1>1 DEF MainStart, DoCall, CreateCthread, Born, OneRunning, CallersWait, OnChain
  <2>3. JoinFrames' /\ ExitToJoiner' /\ ExitedIffFinished'
    BY <1>1 DEF MainStart, DoCall, CreateCthread, Born, OneRunning, JoinFrames,
                ExitToJoiner, ExitedIffFinished
  <2>4. JoinAssertion'
    BY <1>1 DEF MainStart, DoCall, CreateCthread, Born, JoinFrames, JoinAssertion,
                ExitedIffFinished
  <2>5. NoLostJoiner'
    BY <1>1, JoinersStay DEF MainStart, DoCall, CreateCthread, Born
  <2> QED BY <2>1, <2>2, <2>3, <2>4, <2>5
<1>2. ASSUME NEW t \in Threads, Start(t)  PROVE Pointers'
  <2>1. TypeOK' /\ OneRunning' /\ MainNeverParks'
    BY <1>2 DEF Start, DoCall, CreateCthread, Born, OneRunning, MainNeverParks, OnChain
  <2>2. CallersWait'
    BY <1>2 DEF Start, DoCall, CreateCthread, Born, OneRunning, CallersWait, OnChain
  <2>3. JoinFrames' /\ ExitToJoiner' /\ ExitedIffFinished'
    BY <1>2 DEF Start, DoCall, CreateCthread, Born, OneRunning, JoinFrames,
                ExitToJoiner, ExitedIffFinished
  <2>4. JoinAssertion'
    BY <1>2 DEF Start, DoCall, CreateCthread, Born, JoinFrames, JoinAssertion,
                ExitedIffFinished
  <2>5. NoLostJoiner'
    BY <1>2, JoinersStay DEF Start, DoCall, CreateCthread, Born
  <2> QED BY <2>1, <2>2, <2>3, <2>4, <2>5
<1>3. ASSUME NEW t \in Threads, Call(t)  PROVE Pointers'
  <2>1. TypeOK' /\ OneRunning' /\ MainNeverParks'
    BY <1>3 DEF Call, DoCall, OneRunning, MainNeverParks, OnChain
  <2>2. CallersWait'
    BY <1>3 DEF Call, DoCall, OneRunning, CallersWait, OnChain
  <2>3. JoinFrames' /\ ExitToJoiner' /\ ExitedIffFinished'
    BY <1>3 DEF Call, DoCall, OneRunning, JoinFrames, ExitToJoiner, ExitedIffFinished
  <2>4. JoinAssertion'
    BY <1>3 DEF Call, DoCall, JoinFrames, JoinAssertion, ExitedIffFinished
  <2>5. NoLostJoiner'
    BY <1>3, JoinersStay DEF Call, DoCall
  <2> QED BY <2>1, <2>2, <2>3, <2>4, <2>5
<1>4. ASSUME NEW t \in Threads, TailCall(t)  PROVE Pointers'
  <2>0. CASE self # NULL /\ Free(self)
    <3>1. TypeOK' /\ OneRunning' /\ MainNeverParks'
      BY <1>4 DEF TailCall, DoTailCall, OneRunning, MainNeverParks, OnChain
    <3>2. CallersWait'
      BY <1>4, <2>0, CallerWaits DEF TailCall, DoTailCall, CallersWait, OnChain
    <3>3. JoinFrames' /\ ExitToJoiner' /\ ExitedIffFinished'
      BY <1>4 DEF TailCall, DoTailCall, OneRunning, JoinFrames, ExitToJoiner,
                  ExitedIffFinished
    <3>4. JoinAssertion'
      BY <1>4 DEF TailCall, DoTailCall, JoinFrames, JoinAssertion, ExitedIffFinished
    <3>5. NoLostJoiner'
      BY <1>4, <2>0, JoinersStay DEF TailCall, DoTailCall
    <3> QED BY <3>1, <3>2, <3>3, <3>4, <3>5
  <2> QED BY <1>4, <2>0 DEF TailCall
<1>5. ASSUME Yield  PROVE Pointers'
  <2>0. self # NULL /\ Free(self)
    BY <1>5 DEF Yield
  <2>1. TypeOK' /\ OneRunning' /\ MainNeverParks'
    BY <1>5, <2>0, CallerWaits DEF Yield, DoYield, OneRunning, MainNeverParks, OnChain
  <2>2. CallersWait'
    BY <1>5, <2>0, CallerWaits DEF Yield, DoYield, CallersWait, OnChain
  <2>3. JoinFrames' /\ ExitToJoiner' /\ ExitedIffFinished'
    BY <1>5, <2>0, CallerWaits DEF Yield, DoYield, OneRunning, JoinFrames,
                                   ExitToJoiner, ExitedIffFinished
  <2>4. JoinAssertion'
    BY <1>5, <2>0, CallerWaits DEF Yield, DoYield, JoinFrames, JoinAssertion,
                                   ExitedIffFinished
  <2>5. NoLostJoiner'
    BY <1>5, <2>0, CallerWaits, JoinersStay DEF Yield, DoYield
  <2> QED BY <2>1, <2>2, <2>3, <2>4, <2>5
<1>6. ASSUME NEW t \in Threads, Join(t)  PROVE Pointers'
  <2>0. self # NULL /\ Free(self)
    BY <1>6 DEF Join
  <2>1. TypeOK' /\ OneRunning' /\ MainNeverParks'
    BY <1>6, <2>0, CallerWaits DEF Join, DoYield, OneRunning, MainNeverParks, OnChain
  <2>2. CallersWait'
    BY <1>6, <2>0, CallerWaits DEF Join, DoYield, CallersWait, OnChain
  <2>3. JoinFrames' /\ ExitToJoiner' /\ ExitedIffFinished'
    BY <1>6, <2>0, CallerWaits DEF Join, DoYield, OneRunning, JoinFrames,
                                   ExitToJoiner, ExitedIffFinished
  <2>4. JoinAssertion'
    BY <1>6, <2>0, CallerWaits DEF Join, DoYield, JoinFrames, JoinAssertion,
                                   ExitedIffFinished
  <2>5. NoLostJoiner'
    <3>1. \A u \in Threads : finished[u] => exitTo[u] = NULL
      BY <2>0 DEF NoLostJoiner, OneRunning, ExitToJoiner
    <3>2. /\ \A c \in Threads \ {self} : at'[c] = "join" <=> at[c] = "join"
          /\ at'[self] = "join" /\ joinOf'[self] = t /\ exitTo'[t] = self
          /\ ~finished[t] /\ self \in Threads
      BY <1>6, <2>0, CallerWaits DEF Join, DoYield
    <3>3. \A u \in Threads \ {t} : exitTo'[u] = exitTo[u]
      BY <1>6 DEF Join
    <3>4. \A c \in Threads \ {self} : joinOf'[c] = joinOf[c]
      BY <1>6 DEF Join
    <3>5. finished' = finished
      BY <1>6 DEF Join
    <3> QED BY <2>0, <3>1, <3>2, <3>3, <3>4, <3>5 DEF NoLostJoiner
  <2> QED BY <2>1, <2>2, <2>3, <2>4, <2>5
<1>7. ASSUME JoinReturn  PROVE Pointers'
  <2>1. TypeOK' /\ OneRunning' /\ MainNeverParks' /\ CallersWait'
    BY <1>7 DEF JoinReturn, OneRunning, MainNeverParks, OnChain, CallersWait
  <2>2. JoinFrames' /\ ExitToJoiner' /\ ExitedIffFinished'
    BY <1>7 DEF JoinReturn, OneRunning, JoinFrames, ExitToJoiner, ExitedIffFinished
  <2>3. JoinAssertion'
    BY <1>7 DEF JoinReturn, JoinFrames, JoinAssertion
  <2>4. NoLostJoiner'
    <3>1. /\ self \in Threads /\ at[self] = "live"
          /\ joinOf[self] \in Threads /\ finished[joinOf[self]]
      BY <1>7 DEF JoinReturn, JoinAssertion, JoinFrames
    <3> QED BY <1>7, <3>1 DEF JoinReturn, NoLostJoiner
  <2> QED BY <2>1, <2>2, <2>3, <2>4
<1>8. ASSUME Exit  PROVE Pointers'
  <2>0. self # NULL /\ Free(self)
    BY <1>8 DEF Exit
  <2>1. CASE exitTo[self] # NULL
    <3>1. TypeOK' /\ OneRunning' /\ MainNeverParks'
      BY <1>8, <2>0, <2>1, JoinerWaits
         DEF Exit, Leave, Uncount, DoTailCall, OneRunning, MainNeverParks, OnChain
    <3>2. CallersWait'
      BY <1>8, <2>0, <2>1, CallerWaits, JoinerWaits
         DEF Exit, Leave, Uncount, DoTailCall, CallersWait, OnChain
    <3>3. JoinFrames' /\ ExitToJoiner' /\ ExitedIffFinished'
      BY <1>8, <2>0, <2>1, JoinerWaits
         DEF Exit, Leave, Uncount, DoTailCall, OneRunning, JoinFrames,
             ExitToJoiner, ExitedIffFinished
    <3>4. JoinAssertion'
      BY <1>8, <2>0, <2>1, JoinerWaits
         DEF Exit, Leave, Uncount, DoTailCall, JoinFrames, JoinAssertion,
             ExitedIffFinished
    <3>5. NoLostJoiner'
      <4>1. \A t \in Threads : finished[t] => exitTo[t] = NULL
        BY <2>0 DEF NoLostJoiner, OneRunning, ExitToJoiner
      <4>2. /\ \A c \in Threads \ {exitTo[self]} : at'[c] = "join" <=> at[c] = "join"
            /\ at'[exitTo[self]] = "live" /\ joinOf[exitTo[self]] = self
            /\ \A t \in Threads \ {self} : finished'[t] = finished[t]
            /\ finished'[self] /\ exitTo' = exitTo /\ joinOf' = joinOf
        BY <1>8, <2>0, <2>1, JoinerWaits DEF Exit, Leave, Uncount, DoTailCall
      <4> QED BY <2>0, <4>1, <4>2 DEF NoLostJoiner
    <3> QED BY <3>1, <3>2, <3>3, <3>4, <3>5
  <2>2. CASE exitTo[self] = NULL
    <3>1. TypeOK' /\ OneRunning' /\ MainNeverParks'
      BY <1>8, <2>0, <2>2, CallerWaits
         DEF Exit, Leave, Uncount, DoYield, OneRunning, MainNeverParks, OnChain
    <3>2. CallersWait'
      BY <1>8, <2>0, <2>2, CallerWaits DEF Exit, Leave, Uncount, DoYield, CallersWait, OnChain
    <3>3. JoinFrames' /\ ExitToJoiner' /\ ExitedIffFinished'
      BY <1>8, <2>0, <2>2, CallerWaits
         DEF Exit, Leave, Uncount, DoYield, OneRunning, JoinFrames,
             ExitToJoiner, ExitedIffFinished
    <3>4. JoinAssertion'
      BY <1>8, <2>0, <2>2, CallerWaits
         DEF Exit, Leave, Uncount, DoYield, JoinFrames, JoinAssertion,
             ExitedIffFinished
    <3>5. NoLostJoiner'
      <4>1. \A t \in Threads : finished[t] => exitTo[t] = NULL
        BY <2>0 DEF NoLostJoiner, OneRunning, ExitToJoiner
      <4>2. /\ \A c \in Threads : at'[c] = "join" <=> at[c] = "join"
            /\ \A t \in Threads \ {self} : finished'[t] = finished[t]
            /\ exitTo' = exitTo /\ joinOf' = joinOf
        BY <1>8, <2>0, <2>2, CallerWaits DEF Exit, Leave, Uncount, DoYield
      <4>3. \A t \in Threads : finished'[t] /\ exitTo'[t] # NULL => FALSE
        BY <2>2, <4>1, <4>2
      <4>4. ASSUME NEW t \in Threads, ~finished'[t],
                   \E c \in Threads : at'[c] = "join" /\ joinOf'[c] = t
            PROVE  exitTo'[t] # NULL /\ at'[exitTo'[t]] = "join" /\ joinOf'[exitTo'[t]] = t
        <5>1. ~finished[t]
          BY <1>8, <4>4 DEF Exit
        <5>2. exitTo[t] # NULL /\ at[exitTo[t]] = "join" /\ joinOf[exitTo[t]] = t
          BY <4>2, <4>4, <5>1 DEF NoLostJoiner
        <5> QED BY <4>2, <5>2
      <4> QED BY <4>3, <4>4 DEF NoLostJoiner
    <3> QED BY <3>1, <3>2, <3>3, <3>4, <3>5
  <2> QED BY <2>1, <2>2
<1>9. ASSUME AltEnter  PROVE Pointers'
  BY <1>9 DEF AltEnter, OneRunning, MainNeverParks, OnChain, CallersWait, JoinFrames,
              ExitToJoiner, ExitedIffFinished, JoinAssertion, NoLostJoiner
<1>10. ASSUME AltReturn  PROVE Pointers'
  BY <1>10 DEF AltReturn, OneRunning, MainNeverParks, OnChain, CallersWait, JoinFrames,
               ExitToJoiner, ExitedIffFinished, JoinAssertion, NoLostJoiner
<1>11. CASE UNCHANGED vars
  BY <1>11 DEF vars, OneRunning, MainNeverParks, OnChain, CallersWait, JoinFrames,
               ExitToJoiner, ExitedIffFinished, JoinAssertion, NoLostJoiner
<1> QED
  BY <1>1, <1>2, <1>3, <1>4, <1>5, <1>6, <1>7, <1>8, <1>9, <1>10, <1>11 DEF Next

-----------------------------------------------------------------------------
(* num_threads counts the threads that started and did not finish.         *)

LEMMA CountedFinite == IsFiniteSet(Counted) /\ Cardinality(Counted) \in Nat
BY FS_Subset, FS_CardinalityType DEF Counted

\* A start adds one thread to the counted ones.
LEMMA CountStart ==
  ASSUME Pointers, ThreadCount, NEW t \in Threads, NEW from \in Contexts,
         from # t, at[from] = "live", CreateCthread(t), Switch(from, "call", t)
  PROVE  ThreadCount'
<1>1. Counted' = Counted \cup {t} /\ t \notin Counted
  BY DEF Pointers, TypeOK, ExitedIffFinished, CreateCthread, Switch, Counted, Born
<1>2. Cardinality(Counted') = Cardinality(Counted) + 1
  BY <1>1, CountedFinite, FS_AddElement
<1> QED
  BY <1>2 DEF ThreadCount, Counted, CreateCthread

\* An exit removes the thread that exits, whichever way control goes.
LEMMA CountExit ==
  ASSUME Pointers, ThreadCount, Exit
  PROVE  ThreadCount'
<1>1. PICK to \in Contexts : to # self /\ at[to] # "unborn" /\ Switch(self, "exit", to)
  <2>1. self # NULL /\ Free(self) /\ at[self] = "live"
    BY DEF Exit, Leave, Uncount, Free
  <2>2. CASE exitTo[self] # NULL
    BY <2>1, <2>2, JoinerWaits DEF Exit, Leave, Uncount, DoTailCall
  <2>3. CASE exitTo[self] = NULL
    BY <2>1, <2>3, CallerWaits DEF Exit, Leave, Uncount, DoYield
  <2> QED BY <2>2, <2>3
<1>2. Counted' = Counted \ {self} /\ self \in Counted
  BY <1>1 DEF Exit, Uncount, Pointers, TypeOK, JoinAssertion, Free, Switch, Counted, Born
<1>3. Cardinality(Counted') = Cardinality(Counted) - 1
  BY <1>2, CountedFinite, FS_RemoveElement
<1> QED
  BY <1>3 DEF ThreadCount, Counted, Exit, Uncount

\* Every other transfer of control leaves the counted threads alone.
LEMMA CountSwitch ==
  ASSUME Pointers, ThreadCount, NEW place \in Places, place # "unborn",
         NEW from \in Contexts, NEW to \in Contexts, at[from] = "live",
         at[to] # "unborn", Switch(from, place, to), UNCHANGED <<finished, numThreads>>
  PROVE  ThreadCount'
<1>1. Counted' = Counted
  BY DEF Pointers, TypeOK, Switch, Counted, Born
<1> QED
  BY <1>1 DEF ThreadCount, Counted

LEMMA CountStep ==
  ASSUME Pointers, ThreadCount, [Next]_vars
  PROVE  ThreadCount'
<1> USE DEF Pointers, TypeOK, Free
<1>1. ASSUME NEW t \in Threads, MainStart(t)  PROVE ThreadCount'
  BY <1>1, CountStart DEF MainStart, DoCall
<1>2. ASSUME NEW t \in Threads, Start(t)  PROVE ThreadCount'
  BY <1>2, CountStart DEF Start, DoCall, CreateCthread, Born
<1>3. ASSUME NEW t \in Threads, Call(t)  PROVE ThreadCount'
  BY <1>3, CountSwitch DEF Call, DoCall
<1>4. ASSUME NEW t \in Threads, TailCall(t)  PROVE ThreadCount'
  BY <1>4, CountSwitch DEF TailCall, DoTailCall
<1>5. ASSUME Yield  PROVE ThreadCount'
  BY <1>5, CallerWaits, CountSwitch DEF Yield, DoYield
<1>6. ASSUME NEW t \in Threads, Join(t)  PROVE ThreadCount'
  BY <1>6, CallerWaits, CountSwitch DEF Join, DoYield
<1>7. CASE Exit
  BY <1>7, CountExit
<1>8. CASE JoinReturn \/ AltEnter \/ AltReturn \/ UNCHANGED vars
  BY <1>8 DEF JoinReturn, AltEnter, AltReturn, vars, ThreadCount, Born
<1> QED
  BY <1>1, <1>2, <1>3, <1>4, <1>5, <1>6, <1>7, <1>8 DEF Next

-----------------------------------------------------------------------------
(* The theorems.                                                           *)

\* It holds before main starts a thread.
LEMMA InitInv ==
  ASSUME Init
  PROVE  Inv
<1>1. Pointers
  BY DEF Init, Pointers, TypeOK, OneRunning, CallersWait, OnChain, JoinFrames,
         ExitToJoiner, ExitedIffFinished, MainNeverParks, JoinAssertion, NoLostJoiner
<1>2. Counted = {}
  BY DEF Init, Counted, Born
<1>3. ThreadCount
  BY <1>2, FS_EmptySet DEF Init, ThreadCount, Counted
<1> QED
  BY <1>1, <1>3 DEF Inv, Pointers

\* The count stays right without the pointers, and the pointers with it.
LEMMA StepInv ==
  ASSUME Inv, [Next]_vars
  PROVE  Inv'
<1>1. Pointers /\ ThreadCount
  BY DEF Inv, Pointers
<1>2. ThreadCount'
  BY <1>1, CountStep
<1>3. numThreads' \in Nat
  <2>1. IsFiniteSet(Counted') /\ Cardinality(Counted') \in Nat
    BY FS_Subset, FS_CardinalityType DEF Counted
  <2> QED
    BY <1>2, <2>1 DEF ThreadCount, Counted
<1>4. Pointers'
  BY <1>1, <1>3, PointersStep
<1> QED
  BY <1>2, <1>4 DEF Inv, Pointers

\* The invariant of the core: who waits for whom, and how many threads there
\* are, in every reachable state.
THEOREM Invariance == Spec => []Inv
<1>1. Init => Inv
  BY InitInv
<1>2. Inv /\ [Next]_vars => Inv'
  BY StepInv
<1> QED
  BY <1>1, <1>2, PTL DEF Spec

\* Type correctness; in particular num_threads never falls below zero.
THEOREM TypeCorrect == Spec => []TypeOK
<1>1. Inv => TypeOK
  BY DEF Inv
<1> QED
  BY <1>1, Invariance, PTL

\* cthread_self() names the one context that executes.
THEOREM SelfIsRunning == Spec => []OneRunning
<1>1. Inv => OneRunning
  BY DEF Inv
<1> QED
  BY <1>1, Invariance, PTL

\* The assertion in cthread_join never fails.
THEOREM JoinReturnsAfterExit == Spec => []JoinAssertion
<1>1. Inv => JoinAssertion
  BY DEF Inv
<1> QED
  BY <1>1, Invariance, PTL

\* The exit of a thread resumes the last one that joined it, however many did.
THEOREM JoinersKept == Spec => []NoLostJoiner
<1>1. Inv => NoLostJoiner
  BY DEF Inv
<1> QED
  BY <1>1, Invariance, PTL

\* Main's loop ends exactly when no started thread is unfinished.
THEOREM CountsThreads == Spec => []ThreadCount
<1>1. Inv => ThreadCount
  BY DEF Inv
<1> QED
  BY <1>1, Invariance, PTL

\* cthread_exit never returns.
THEOREM ExitNeverReturns == Spec => ExitIsFinal
<1> DEFINE Stays == \A t \in Threads : finished[t] => at'[t] = "exit"
<1>1. Inv /\ [Next]_vars => [Stays]_vars
  <2> SUFFICES ASSUME Inv, Next PROVE Stays
    BY DEF vars
  <2> SUFFICES ASSUME NEW t \in Threads, finished[t] PROVE at'[t] = "exit"
    OBVIOUS
  <2>1. Pointers
    BY DEF Inv, Pointers
  <2>2. at[t] = "exit"
    BY <2>1 DEF Pointers, ExitedIffFinished
  <2> USE DEF Pointers, TypeOK, Free, Switch
  <2>3. CASE Yield \/ (\E u \in Threads : Join(u)) \/ Exit
    BY <2>1, <2>2, <2>3, CallerWaits, JoinerWaits
       DEF Yield, Join, Exit, Leave, Uncount, DoYield, DoTailCall
  <2>4. CASE \E u \in Threads : MainStart(u) \/ Start(u) \/ Call(u) \/ TailCall(u)
    BY <2>1, <2>2, <2>4
       DEF MainStart, DoCall, Start, Call, TailCall, CreateCthread, Born, DoTailCall
  <2>5. CASE JoinReturn \/ AltEnter \/ AltReturn
    BY <2>2, <2>5 DEF JoinReturn, AltEnter, AltReturn
  <2> QED
    BY <2>3, <2>4, <2>5 DEF Next
<1> QED
  BY <1>1, Invariance, PTL DEF Spec, ExitIsFinal

-----------------------------------------------------------------------------
(* Lists of contexts linked by pointers y from the last one, top, back to   *)
(* main, with every context of the set C in them.                          *)

IsLine(s, n, C, y, top) ==
  /\ s \in [1..n -> C]
  /\ s[1] = NULL
  /\ \A i \in 2..n : s[i] # NULL /\ y[s[i]] = s[i - 1]
  /\ s[n] = top
  /\ \A c \in C : \E i \in 1..n : s[i] = c

\* Two such lists are equal: they would differ at a last place.
LEMMA SameLine ==
  ASSUME NEW n \in Nat \ {0}, NEW C, NEW y, NEW top, NEW s, NEW t,
         IsLine(s, n, C, y, top), IsLine(t, n, C, y, top)
  PROVE  s = t
<1> DEFINE Differ(k) == k < n /\ s[n - k] # t[n - k]
<1>0. /\ s \in [1..n -> C] /\ t \in [1..n -> C] /\ s[n] = top /\ t[n] = top
      /\ \A i \in 2..n : y[s[i]] = s[i - 1] /\ y[t[i]] = t[i - 1]
  BY DEF IsLine
<1>1. SUFFICES ASSUME {k \in Nat : Differ(k)} # {} PROVE FALSE
  <2>1. \A i \in 1..n : n - i \in Nat /\ n - i < n /\ n - (n - i) = i
    OBVIOUS
  <2>2. \A i \in 1..n : s[i] = t[i]
    BY <1>1, <2>1
  <2> QED BY <1>0, <2>2
<1> DEFINE R == OpToRel(<, Nat)
<1>2. IsWellFoundedOn(R, Nat)
  BY NatLessThanWellFounded
<1>3. \A i, j \in Nat : <<i, j>> \in R <=> i < j
  BY DEF OpToRel
<1> HIDE DEF R
<1>4. PICK k \in {j \in Nat : Differ(j)} :
             \A j \in {q \in Nat : Differ(q)} : ~(<<j, k>> \in R)
  BY <1>1, <1>2, WFMin, Zenon
<1>5. k \in Nat /\ k < n /\ s[n - k] # t[n - k]
  BY <1>4
<1>6. k # 0
  BY <1>0, <1>5
<1>7. k - 1 \in Nat /\ k - 1 < n /\ n - k + 1 \in 2..n /\ k - 1 < k
  BY <1>5, <1>6
<1>8. ~Differ(k - 1)
  BY <1>3, <1>4, <1>7
<1>9. s[n - k + 1] = t[n - k + 1] /\ n - k + 1 - 1 = n - k
  BY <1>5, <1>7, <1>8
<1>10. s[n - k] = y[s[n - k + 1]] /\ t[n - k] = y[t[n - k + 1]]
  <2>1. \A i \in 2..n : s[i - 1] = y[s[i]] /\ t[i - 1] = y[t[i]]
    BY <1>0
  <2> QED BY <1>7, <1>9, <2>1
<1> QED BY <1>5, <1>9, <1>10

\* A context whose pointer is the last one becomes the last one.
LEMMA LongerLine ==
  ASSUME NEW n \in Nat \ {0}, NEW C, NEW y, NEW top, NEW s,
         IsLine(s, n, C, y, top), NEW z, NEW t,
         t \notin C, t # NULL, z[t] = top, \A c \in C \ {NULL} : z[c] = y[c]
  PROVE  IsLine(Append(s, t), n + 1, C \cup {t}, z, t)
<1> DEFINE r == Append(s, t)
<1>1. /\ s \in [1..n -> C] /\ s[1] = NULL /\ s[n] = top
      /\ \A i \in 2..n : s[i] # NULL /\ y[s[i]] = s[i - 1]
      /\ \A c \in C : \E i \in 1..n : s[i] = c
  BY DEF IsLine
<1>2. s \in Seq(C) /\ Len(s) = n
  BY <1>1
<1>3. r \in Seq(C \cup {t}) /\ Len(r) = n + 1
  BY <1>2
<1>4. (\A i \in 1..n : r[i] = s[i]) /\ r[n + 1] = t
  BY <1>2
<1> HIDE DEF r
<1>5. r \in [1..(n + 1) -> C \cup {t}]
  BY <1>3
<1>6. ASSUME NEW i \in 2..(n + 1)
      PROVE  r[i] # NULL /\ z[r[i]] = r[i - 1]
  <2>1. CASE i = n + 1
    BY <1>1, <1>4, <2>1
  <2>2. CASE i \in 2..n
    <3>1. r[i] = s[i] /\ r[i - 1] = s[i - 1] /\ s[i] \in C
      BY <1>1, <1>4, <2>2
    <3> QED BY <1>1, <2>2, <3>1
  <2> QED BY <2>1, <2>2
<1>7. \A c \in C \cup {t} : \E i \in 1..(n + 1) : r[i] = c
  <2>1. \A c \in C : \E i \in 1..n : r[i] = c
    BY <1>1, <1>4
  <2>2. n + 1 \in 1..(n + 1) /\ \A i \in 1..n : i \in 1..(n + 1)
    OBVIOUS
  <2> QED BY <1>4, <2>1, <2>2
<1>8. r[1] = NULL
  BY <1>1, <1>4
<1> QED
  BY <1>4, <1>5, <1>6, <1>7, <1>8 DEF IsLine, r

\* Without its last context it is a line that ends where that one points.
LEMMA ShorterLine ==
  ASSUME NEW n \in Nat \ {0}, NEW C, NEW y, NEW top, NEW s,
         IsLine(s, n, C, y, top), top # NULL, \A i \in 1..(n - 1) : s[i] # top
  PROVE  /\ n - 1 \in Nat \ {0}
         /\ IsLine(SubSeq(s, 1, n - 1), n - 1, C \ {top}, y, y[top])
<1> DEFINE r == SubSeq(s, 1, n - 1)
<1>1. /\ s \in [1..n -> C] /\ s[1] = NULL /\ s[n] = top
      /\ \A i \in 2..n : s[i] # NULL /\ y[s[i]] = s[i - 1]
      /\ \A c \in C : \E i \in 1..n : s[i] = c
  BY DEF IsLine
<1>2. n > 1 /\ n - 1 \in Nat \ {0}
  BY <1>1
<1>3. s \in Seq(C) /\ Len(s) = n
  BY <1>1
<1>4. r \in Seq(C) /\ Len(r) = n - 1 /\ \A i \in 1..(n - 1) : r[i] = s[i]
  BY <1>2, <1>3
<1> HIDE DEF r
<1>5. r \in [1..(n - 1) -> C \ {top}]
  BY <1>1, <1>4
<1>6. r[1] = NULL /\ r[n - 1] = y[top]
  BY <1>1, <1>2, <1>4
<1>7. ASSUME NEW i \in 2..(n - 1)
      PROVE  r[i] # NULL /\ y[r[i]] = r[i - 1]
  <2>1. r[i] = s[i] /\ r[i - 1] = s[i - 1] /\ i \in 2..n
    BY <1>2, <1>4
  <2> QED BY <1>1, <2>1
<1>8. ASSUME NEW c \in C \ {top}
      PROVE  \E i \in 1..(n - 1) : r[i] = c
  <2>1. PICK i \in 1..n : s[i] = c
    BY <1>1
  <2>2. i \in 1..(n - 1)
    BY <1>1, <2>1
  <2> QED BY <1>4, <2>1, <2>2
<1> QED
  BY <1>2, <1>5, <1>6, <1>7, <1>8 DEF IsLine, r

-----------------------------------------------------------------------------
(* The callers form one line, the stack of CallStack.                      *)

Running == IF alt = NULL THEN self ELSE alt

\* There are finitely many callers, and main is always one.
LEMMA CallersFinite ==
  ASSUME Pointers
  PROVE  /\ IsFiniteSet(Callers)
         /\ Cardinality(Callers) \in Nat \ {0}
<1>1. Callers \in SUBSET Contexts /\ NULL \in Callers
  BY DEF Callers, Pointers, MainNeverParks
<1>2. IsFiniteSet(Contexts)
  BY FS_AddElement
<1> QED
  BY <1>1, <1>2, FS_Subset, FS_CardinalityType, FS_EmptySet

\* A chain is a line from the context that runs.
LEMMA ChainIsLine ==
  ASSUME Pointers, NEW s
  PROVE  s \in Chains <=> IsLine(s, Cardinality(Callers), Callers, yieldTo, Running)
<1>1. Cardinality(Callers) \in Nat \ {0}
  BY CallersFinite
<1>2. \A c \in Callers : at[c] = "live" <=> c = Running
  BY DEF Callers, Running, Pointers, OneRunning
<1> DEFINE n == Cardinality(Callers)
<1>3. s \in [1..n -> Callers] => s[n] \in Callers
  BY <1>1
<1> QED
  BY <1>2, <1>3 DEF Chains, IsChain, Depth, IsLine

\* There is no choice in Chain.
LEMMA ChainIs == Pointers => \A s \in Chains : Chain = s
<1> SUFFICES ASSUME Pointers, NEW s \in Chains, NEW t \in Chains
             PROVE  s = t
  BY DEF Chain
<1> QED
  BY CallersFinite, ChainIsLine, SameLine

\* The line of the callers is the stack that Calls sees.
LEMMA ChainIsStack ==
  Pointers => \A s : IsLine(s, Cardinality(Callers), Callers, yieldTo, Running) =>
                       Chains # {} /\ Chain = s
BY ChainIsLine, ChainIs

\* What it is like: a line of all callers, with the running context only at
\* its end.
LEMMA StackIsChain ==
  ASSUME Pointers, Chains # {}
  PROVE  /\ IsLine(Chain, Cardinality(Callers), Callers, yieldTo, Running)
         /\ Chain \in Seq(Callers) /\ Len(Chain) = Cardinality(Callers)
         /\ Calls!OnStack = Callers
         /\ \A i \in 1..(Cardinality(Callers) - 1) : Chain[i] # Running
<1> DEFINE n == Cardinality(Callers)
<1>1. IsLine(Chain, n, Callers, yieldTo, Running) /\ n \in Nat \ {0}
  BY ChainIs, ChainIsLine, CallersFinite
<1> HIDE DEF n
<1>2. /\ Chain \in [1..n -> Callers]
      /\ \A i \in 2..n : Chain[i] # NULL /\ yieldTo[Chain[i]] = Chain[i - 1]
      /\ \A c \in Callers : \E i \in 1..n : Chain[i] = c
  BY <1>1 DEF IsLine
<1>3. Chain \in Seq(Callers) /\ Len(Chain) = n
  BY <1>1, <1>2
<1>4. Calls!OnStack = Callers
  BY <1>1, <1>2 DEF Calls!OnStack
<1>5. ASSUME NEW i \in 1..(n - 1)
      PROVE  Chain[i] # Running
  <2>1. i + 1 \in 2..n /\ i + 1 - 1 = i
    BY <1>1
  <2>2. Chain[i + 1] \in Callers /\ Chain[i + 1] # NULL /\ yieldTo[Chain[i + 1]] = Chain[i]
    BY <1>1, <1>2, <2>1
  <2>3. at[Chain[i]] = "call"
    BY <2>2 DEF Callers, Pointers, CallersWait
  <2> QED BY <2>3 DEF Running, Pointers, OneRunning, TypeOK
<1> QED
  BY <1>1, <1>3, <1>4, <1>5 DEF n

\* cthread_call and the starts push the thread they resume.
LEMMA CallPushes ==
  ASSUME Pointers, Pointers', Chains # {}, NEW t \in Threads, Free(self),
         at[t] \in {"unborn", "parked"}, DoCall(t)
  PROVE  Chains' # {} /\ Calls!Push(t)
<1>1. /\ IsLine(Chain, Cardinality(Callers), Callers, yieldTo, self)
      /\ Calls!OnStack = Callers
      /\ Cardinality(Callers) \in Nat \ {0} /\ IsFiniteSet(Callers)
  BY StackIsChain, CallersFinite DEF Running, Pointers, OneRunning, Free
<1>2. /\ at \in [Contexts -> Places] /\ yieldTo \in [Threads -> Contexts]
      /\ self \in Contexts /\ at[t] \notin {"live", "call", "exit", "join"}
      /\ at' = [at EXCEPT ![self] = "call", ![t] = "live"]
      /\ yieldTo' = [yieldTo EXCEPT ![t] = self]
      /\ at[self] = "live"
  BY DEF Pointers, TypeOK, Free, DoCall, Switch
<1>3. Callers' = Callers \cup {t} /\ t \notin Callers
  BY <1>2 DEF Callers, OnChain
<1>4. Cardinality(Callers') = Cardinality(Callers) + 1
  BY <1>1, <1>3, FS_AddElement
<1>5. yieldTo'[t] = self /\ \A c \in Callers \ {NULL} : yieldTo'[c] = yieldTo[c]
  BY <1>2, <1>3 DEF Callers
<1>6. IsLine(Append(Chain, t), Cardinality(Callers) + 1, Callers \cup {t}, yieldTo', t)
  BY <1>1, <1>3, <1>5, LongerLine
<1>7. Running' = t
  BY <1>2 DEF Pointers, OneRunning, Running, Free, DoCall, Switch
<1>8. Chains' # {} /\ Chain' = Append(Chain, t)
  <2>1. Pointers' =>
          (\A s : IsLine(s, Cardinality(Callers), Callers, yieldTo, Running) =>
                    Chains # {} /\ Chain = s)'
    BY ChainIsStack, PTL
  <2> QED BY <1>3, <1>4, <1>6, <1>7, <2>1
<1>9. /\ {u \in Threads : at'[u] \in {"parked", "join"}}
           = {u \in Threads : at[u] \in {"parked", "join"}} \ {t}
      /\ {u \in Threads : at'[u] = "exit"} = {u \in Threads : at[u] = "exit"}
  BY <1>2
<1> QED
  BY <1>1, <1>2, <1>3, <1>8, <1>9 DEF Calls!Push

\* Giving control to yield_to takes the running thread off the stack.
LEMMA YieldPops ==
  ASSUME Pointers, Pointers', Chains # {}, self # NULL, Free(self),
         NEW place \in {"parked", "join", "exit"}, DoYield(place)
  PROVE  /\ Chains' # {}
         /\ Len(Chain) > 1 /\ Chain' = Calls!Front /\ Calls!Top = self
<1>1. /\ IsLine(Chain, Cardinality(Callers), Callers, yieldTo, self)
      /\ Chain \in Seq(Callers) /\ Len(Chain) = Cardinality(Callers)
      /\ \A i \in 1..(Cardinality(Callers) - 1) : Chain[i] # self
      /\ Cardinality(Callers) \in Nat \ {0} /\ IsFiniteSet(Callers)
  BY StackIsChain, CallersFinite DEF Running, Pointers, OneRunning, Free
<1>2. /\ at \in [Contexts -> Places] /\ self \in Threads
      /\ yieldTo[self] \in Contexts \ {self} /\ at[yieldTo[self]] = "call"
      /\ at' = [at EXCEPT ![self] = place, ![yieldTo[self]] = "live"]
      /\ yieldTo' = yieldTo /\ at[self] = "live"
  BY CallerWaits DEF Pointers, TypeOK, Free, DoYield, Switch
<1>3. Callers' = Callers \ {self} /\ self \in Callers
  BY <1>2 DEF Callers, OnChain
<1>4. Cardinality(Callers') = Cardinality(Callers) - 1
  BY <1>1, <1>3, FS_RemoveElement
<1>5. /\ Cardinality(Callers) - 1 \in Nat \ {0}
      /\ IsLine(SubSeq(Chain, 1, Cardinality(Callers) - 1), Cardinality(Callers) - 1,
                Callers \ {self}, yieldTo, yieldTo[self])
  BY <1>1, ShorterLine
<1>6. Running' = yieldTo[self]
  BY <1>2 DEF Pointers, OneRunning, Running, Free, DoYield, Switch
<1>7. Chains' # {} /\ Chain' = SubSeq(Chain, 1, Cardinality(Callers) - 1)
  <2>1. Pointers' =>
          (\A s : IsLine(s, Cardinality(Callers), Callers, yieldTo, Running) =>
                    Chains # {} /\ Chain = s)'
    BY ChainIsStack, PTL
  <2> QED BY <1>2, <1>3, <1>4, <1>5, <1>6, <2>1
<1>8. Chain[Cardinality(Callers)] = self
  BY <1>1 DEF IsLine
<1> QED
  BY <1>1, <1>5, <1>7, <1>8 DEF Calls!Front, Calls!Top

\* A thread that takes over yield_to takes the place on top of the stack.
LEMMA TailCallReplaces ==
  ASSUME Pointers, Pointers', Chains # {}, self # NULL, Free(self),
         NEW place \in {"parked", "exit"},
         NEW t \in Threads, at[t] \in {"parked", "join"}, DoTailCall(place, t)
  PROVE  /\ Chains' # {}
         /\ Len(Chain) > 1 /\ Chain' = Append(Calls!Front, t) /\ Calls!Top = self
<1>1. /\ IsLine(Chain, Cardinality(Callers), Callers, yieldTo, self)
      /\ Chain \in Seq(Callers) /\ Len(Chain) = Cardinality(Callers)
      /\ \A i \in 1..(Cardinality(Callers) - 1) : Chain[i] # self
      /\ Cardinality(Callers) \in Nat \ {0} /\ IsFiniteSet(Callers)
  BY StackIsChain, CallersFinite DEF Running, Pointers, OneRunning, Free
<1>2. /\ at \in [Contexts -> Places] /\ yieldTo \in [Threads -> Contexts]
      /\ self \in Threads
      /\ t # self /\ at[t] \notin {"live", "call"}
      /\ at' = [at EXCEPT ![self] = place, ![t] = "live"]
      /\ yieldTo' = [yieldTo EXCEPT ![t] = yieldTo[self]] /\ at[self] = "live"
  BY DEF Pointers, TypeOK, Free, DoTailCall, Switch
<1>3. /\ Callers' = (Callers \ {self}) \cup {t} /\ self \in Callers /\ t \notin Callers
      /\ t # NULL
  BY <1>2 DEF Callers, OnChain
<1>4. Cardinality(Callers') = Cardinality(Callers)
  <2>1. /\ IsFiniteSet(Callers \ {self})
        /\ Cardinality(Callers \ {self}) = Cardinality(Callers) - 1
    BY <1>1, <1>3, FS_RemoveElement
  <2>2. Cardinality(Callers') = Cardinality(Callers) - 1 + 1
    BY <1>3, <2>1, FS_AddElement
  <2> QED BY <1>1, <2>2
<1>5. /\ Cardinality(Callers) - 1 \in Nat \ {0}
      /\ IsLine(SubSeq(Chain, 1, Cardinality(Callers) - 1), Cardinality(Callers) - 1,
                Callers \ {self}, yieldTo, yieldTo[self])
  BY <1>1, ShorterLine
<1>6. /\ yieldTo'[t] = yieldTo[self]
      /\ \A c \in (Callers \ {self}) \ {NULL} : yieldTo'[c] = yieldTo[c]
  BY <1>2, <1>3 DEF Callers
<1>7. IsLine(Append(SubSeq(Chain, 1, Cardinality(Callers) - 1), t),
             Cardinality(Callers) - 1 + 1, (Callers \ {self}) \cup {t}, yieldTo', t)
  BY <1>3, <1>5, <1>6, LongerLine
<1>8. Cardinality(Callers) - 1 + 1 = Cardinality(Callers')
  BY <1>1, <1>4
<1>9. Running' = t
  BY <1>2 DEF Pointers, OneRunning, Running, Free, DoTailCall, Switch
<1>10. /\ Chains' # {}
       /\ Chain' = Append(SubSeq(Chain, 1, Cardinality(Callers) - 1), t)
  <2>1. Pointers' =>
          (\A s : IsLine(s, Cardinality(Callers), Callers, yieldTo, Running) =>
                    Chains # {} /\ Chain = s)'
    BY ChainIsStack, PTL
  <2> QED BY <1>3, <1>7, <1>8, <1>9, <2>1
<1>11. Chain[Cardinality(Callers)] = self
  BY <1>1 DEF IsLine
<1> QED
  BY <1>1, <1>5, <1>10, <1>11 DEF Calls!Front, Calls!Top

\* Every step of the core is a step of the stack, or none, and leaves a chain.
LEMMA StackStep ==
  ASSUME Inv, Inv', Chains # {}, [Next]_vars
  PROVE  Chains' # {} /\ [Calls!Next]_(Calls!vars)
<1> DEFINE Aside == {u \in Threads : at[u] \in {"parked", "join"}}
           Done == {u \in Threads : at[u] = "exit"}
<1>1. Pointers /\ Pointers'
  BY DEF Inv, Pointers
<1>2. at \in [Contexts -> Places]
  BY DEF Inv, TypeOK
<1>3. ASSUME NEW t \in Threads, MainStart(t) \/ Start(t) \/ Call(t)
      PROVE  Chains' # {} /\ Calls!Push(t)
  <2>1. Free(self) /\ at[t] \in {"unborn", "parked"} /\ DoCall(t)
    BY <1>3 DEF MainStart, Start, Call, CreateCthread, Born, Free
  <2> QED BY <1>1, <2>1, CallPushes
<1>4. ASSUME NEW t \in Threads, TailCall(t)
      PROVE  Chains' # {} /\ Calls!Replace(t)
  <2>1. /\ Free(self) /\ self # NULL /\ at[t] = "parked" /\ DoTailCall("parked", t)
        /\ self \in Threads
    BY <1>4 DEF TailCall, Inv, TypeOK
  <2>2. /\ Chains' # {}
        /\ Len(Chain) > 1 /\ Chain' = Append(Calls!Front, t) /\ Calls!Top = self
    BY <1>1, <2>1, TailCallReplaces
  <2>3. Aside' = (Aside \ {t}) \cup {self} /\ Done' = Done /\ t \in Aside
    BY <1>2, <2>1 DEF DoTailCall, Switch, Free
  <2> QED BY <2>2, <2>3 DEF Calls!Replace
<1>5. ASSUME Yield \/ \E t \in Threads : Join(t)
      PROVE  Chains' # {} /\ Calls!StepAside
  <2>1. PICK place \in {"parked", "join"} :
          Free(self) /\ self \in Threads /\ self # NULL /\ DoYield(place)
    BY <1>5 DEF Yield, Join, Inv, TypeOK
  <2>2. /\ Chains' # {}
        /\ Len(Chain) > 1 /\ Chain' = Calls!Front /\ Calls!Top = self
    BY <1>1, <2>1, YieldPops
  <2>3. yieldTo[self] \in Contexts \ {self} /\ at[yieldTo[self]] = "call"
    BY <1>1, <2>1, CallerWaits
  <2>4. Aside' = Aside \cup {self} /\ Done' = Done
    BY <1>2, <2>1, <2>3 DEF DoYield, Switch, Free
  <2> QED BY <2>2, <2>4 DEF Calls!StepAside
<1>6. ASSUME Exit
      PROVE  Chains' # {} /\ Calls!Finish
  <2>1. Free(self) /\ self # NULL /\ Leave /\ self \in Threads
    BY <1>6 DEF Exit, Inv, TypeOK
  <2>2. CASE exitTo[self] = NULL
    <3>1. DoYield("exit")
      BY <2>1, <2>2 DEF Leave
    <3>2. /\ Chains' # {}
          /\ Len(Chain) > 1 /\ Chain' = Calls!Front /\ Calls!Top = self
      BY <1>1, <2>1, <3>1, YieldPops
    <3>3. yieldTo[self] \in Contexts \ {self} /\ at[yieldTo[self]] = "call"
      BY <1>1, <2>1, CallerWaits
    <3>4. Aside' = Aside /\ Done' = Done \cup {self}
      BY <1>2, <2>1, <3>1, <3>3 DEF DoYield, Switch, Free
    <3> QED BY <3>2, <3>4 DEF Calls!Finish
  <2>3. CASE exitTo[self] # NULL
    <3>1. /\ exitTo[self] \in Threads /\ at[exitTo[self]] = "join"
          /\ DoTailCall("exit", exitTo[self])
      BY <1>1, <2>1, <2>3, JoinerWaits DEF Leave
    <3>2. /\ Chains' # {}
          /\ Len(Chain) > 1 /\ Chain' = Append(Calls!Front, exitTo[self])
          /\ Calls!Top = self
      BY <1>1, <2>1, <3>1, TailCallReplaces
    <3>3. /\ Aside' = Aside \ {exitTo[self]} /\ Done' = Done \cup {self}
          /\ exitTo[self] \in Aside
      BY <1>2, <2>1, <3>1 DEF DoTailCall, Switch, Free
    <3> QED BY <3>2, <3>3 DEF Calls!Finish
  <2> QED BY <2>2, <2>3
<1>7. CASE JoinReturn \/ AltEnter \/ AltReturn \/ UNCHANGED vars
  <2>1. UNCHANGED <<at, yieldTo>>
    BY <1>7 DEF JoinReturn, AltEnter, AltReturn, vars
  <2>2. Chain' = Chain /\ Chains' = Chains
    BY <2>1 DEF Chain, Chains, IsChain, Depth, Callers, OnChain
  <2> QED BY <2>1, <2>2 DEF Calls!vars
<1> QED
  BY <1>3, <1>4, <1>5, <1>6, <1>7 DEF Next, Calls!Next

HasChain == Chains # {}

\* At first the chain is main alone.
LEMMA InitChain ==
  ASSUME Init
  PROVE  Chains = {<<NULL>>}
<1>1. Callers = {NULL} /\ Depth = 1
  BY FS_Singleton DEF Init, Callers, OnChain, Depth
<1>2. \A s \in [1..1 -> {NULL}] : s = <<NULL>>
  OBVIOUS
<1>3. <<NULL>> \in [1..1 -> {NULL}] /\ <<NULL>>[1] = NULL /\ at[NULL] = "live"
  BY DEF Init
<1> QED
  BY <1>1, <1>2, <1>3 DEF Chains, IsChain

\* The callers of the running context always form one list, back to main.
THEOREM ChainExists == Spec => []HasChain
<1>1. Init => HasChain
  BY InitChain DEF HasChain
<1>2. Inv /\ Inv' /\ HasChain /\ [Next]_vars => HasChain'
  BY StackStep DEF HasChain
<1> QED
  BY <1>1, <1>2, Invariance, PTL DEF Spec

\* For every number of threads, control moves as on a stack: call and start
\* push, yield and join pop, tailcall replaces, exit pops or replaces by the
\* joiner; no context is skipped, resumed twice or left behind.
THEOREM ControlIsStack == Spec => ImplementsCallStack
<1>1. Init => Calls!Init
  BY InitChain DEF Chain, Init, Calls!Init
<1>2. Inv /\ Inv' /\ HasChain /\ [Next]_vars => [Calls!Next]_(Calls!vars)
  BY StackStep DEF HasChain
<1> QED
  BY <1>1, <1>2, Invariance, ChainExists, PTL
     DEF Spec, ImplementsCallStack, Calls!Spec

-----------------------------------------------------------------------------
(* What a program that composes the core with callbacks relies on.         *)

\* When main runs, no thread is in a call: every other context has given up
\* control and is parked, joining or finished.
LEMMA MainAlone ==
  ASSUME Inv, HasChain, at[NULL] = "live"
  PROVE  \A t \in Threads : ~OnChain(t)
<1>1. Pointers
  BY DEF Inv, Pointers
<1>2. /\ IsLine(Chain, Cardinality(Callers), Callers, yieldTo, Running)
      /\ Cardinality(Callers) \in Nat \ {0}
  BY <1>1, StackIsChain, CallersFinite DEF HasChain
<1>3. Running = NULL
  BY DEF Running, Inv, OneRunning
<1>4. Cardinality(Callers) = 1
  BY <1>2, <1>3 DEF IsLine
<1>5. \A c \in Callers : c = NULL
  BY <1>2, <1>4 DEF IsLine
<1> QED
  BY <1>5 DEF Callers

\* While the count is not zero there is a thread to wait for.
LEMMA SomeUnfinished ==
  ASSUME Inv, numThreads # 0
  PROVE  \E t \in Threads : Born(t) /\ ~finished[t]
<1>1. Counted # {}
  BY FS_EmptySet DEF Inv, ThreadCount, Counted
<1> QED
  BY <1>1 DEF Counted

=============================================================================
