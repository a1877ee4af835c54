--------------------------- MODULE EvTimersProofs --------------------------
(***************************************************************************)
(* Proofs about the timers, for any set of them and any range of the clock *)
(* that TimersAssumption allows.                                           *)
(*                                                                         *)
(* The argument: no wait is longer than MaxLag, because every signal       *)
(* restarts it at most once and no time-out is longer than the first       *)
(* deadline, so that no deadline gets further behind the clock than        *)
(* MaxLag.  Then differences of wrapped values are the real ones, and the  *)
(* head of the heap is the timer with the least time to go.                *)
(***************************************************************************)
EXTENDS EvTimers, Mod32Proofs, TLAPS

USE TimersAssumption, HalfAssumption

\* The bounds are numbers, and a wait that every signal restarts stays in them.
LEMMA Bounds ==
  /\ MaxLag \in Nat /\ MaxBusy <= MaxLag
  /\ \A s \in 0..MaxSignals, p \in 0..(MaxDelay + MaxBusy) :
       s * p \in Nat /\ MaxBusy + s * p + p <= MaxLag
<1> DEFINE Q == MaxDelay + MaxBusy
<1>1. Q \in Nat /\ MaxSignals \in Nat
  OBVIOUS
<1>2. \A k, m \in Nat : k * m \in Nat
  OBVIOUS
<1>3. \A k, m, n \in Nat : m <= n => k * m <= k * n /\ m * k <= n * k
  OBVIOUS
<1>4. \A s \in 0..MaxSignals, p \in 0..Q : s * p + p <= (MaxSignals + 1) * Q
  <2> TAKE s \in 0..MaxSignals, p \in 0..Q
  <2>1. s * p + p = (s + 1) * p
    OBVIOUS
  <2>2. (s + 1) * p <= (s + 1) * Q
    BY <1>1, <1>3
  <2>3. (s + 1) * Q <= (MaxSignals + 1) * Q
    BY <1>1, <1>3
  <2>4. s + 1 \in Nat /\ (s + 1) * p \in Nat /\ (s + 1) * Q \in Nat /\ (MaxSignals + 1) * Q \in Nat
    BY <1>1, <1>2
  <2> HIDE DEF Q
  <2> QED BY <2>1, <2>2, <2>3, <2>4
<1>5. (MaxSignals + 1) * Q \in Nat
  BY <1>1, <1>2
<1> QED
  BY <1>2, <1>4, <1>5 DEF MaxLag

\* What signals can add to a wait is within MaxLate.
LEMMA LateBounds ==
  /\ MaxLate \in Nat
  /\ \A s \in 0..MaxSignals, p \in 0..(MaxDelay + MaxBusy) :
       2 * MaxBusy + s * p <= MaxLate
<1> DEFINE Q == MaxDelay + MaxBusy
<1>1. Q \in Nat /\ MaxSignals \in Nat
  OBVIOUS
<1>2. \A k, m \in Nat : k * m \in Nat
  OBVIOUS
<1>3. \A k, m, n \in Nat : m <= n => k * m <= k * n /\ m * k <= n * k
  OBVIOUS
<1>4. \A s \in 0..MaxSignals, p \in 0..Q : s * p \in Nat /\ s * p <= MaxSignals * Q
  <2> TAKE s \in 0..MaxSignals, p \in 0..Q
  <2>1. s * p <= s * Q /\ s * Q <= MaxSignals * Q
    BY <1>1, <1>3
  <2>2. s * p \in Nat /\ s * Q \in Nat /\ MaxSignals * Q \in Nat
    BY <1>1, <1>2
  <2> HIDE DEF Q
  <2> QED BY <2>1, <2>2
<1>5. MaxSignals * Q \in Nat
  BY <1>1, <1>2
<1>6. MaxLate = 2 * MaxBusy + MaxSignals * Q
  BY DEF MaxLate
<1> HIDE DEF Q
<1>7. \A s \in 0..MaxSignals, p \in 0..Q : 2 * MaxBusy + s * p <= MaxLate
  BY <1>4, <1>5, <1>6
<1> QED
  BY <1>5, <1>6, <1>7 DEF Q

\* A wait ends, or goes on, no later than MaxLate after the first deadline.
LEMMA WaitIsNotTooLate ==
  ASSUME TypeOK, WaitsForFirst, WaitIsBounded, step = "wait", NEW e \in queue
  PROVE  lag - rest[e.node] <= MaxLate
<1> DEFINE p == timeout + MaxBusy
           sp == signals * p
<1>1. /\ timeout \in 1..MaxDelay /\ signals \in 0..MaxSignals /\ lag \in Nat
      /\ left \in Int /\ left >= -MaxBusy /\ lag <= MaxBusy + sp + (timeout - left)
      /\ rest[e.node] >= timeout /\ rest[e.node] \in Int
  BY Bounds DEF TypeOK, WaitsForFirst, WaitIsBounded
<1>2. p \in 0..(MaxDelay + MaxBusy)
  BY <1>1
<1>3. sp \in Nat /\ 2 * MaxBusy + sp <= MaxLate
  <2> HIDE DEF p
  <2> QED BY <1>1, <1>2, LateBounds, Bounds
<1> HIDE DEF sp
<1> QED
  BY <1>1, <1>3, LateBounds

\* Deadlines that are no further from the clock than the bounds allow differ by
\* their real distance.
LEMMA Close ==
  ASSUME NEW a \in Values, NEW b \in Values, NEW c \in Values,
         Signed(Minus(a, c)) \in -MaxLag..MaxDelay, Signed(Minus(b, c)) \in -MaxLag..MaxDelay
  PROVE  Signed(Minus(a, b)) = Signed(Minus(a, c)) - Signed(Minus(b, c))
<1> DEFINE x == Signed(Minus(a, c))
           y == Signed(Minus(b, c))
<1>1. x - y \in -Half..(Half - 1)
  <2> HIDE DEF x, y
  <2>1. x \in -MaxLag..MaxDelay /\ y \in -MaxLag..MaxDelay
    BY DEF x, y
  <2> QED BY <2>1, Bounds
<1> QED BY <1>1, Apart

-----------------------------------------------------------------------------
(* The head of the heap.                                                   *)

\* heap_less on the entries compares the real times to their deadlines.
LEMMA LessIsEarlier ==
  ASSUME Inv, NEW e \in queue, NEW f \in queue
  PROVE  /\ e.value \in Values /\ e.node \in Timers /\ rest[e.node] \in Int
         /\ Less(e.value, f.value) <=> rest[e.node] < rest[f.node]
<1>1. /\ e.value \in Values /\ f.value \in Values
      /\ e.node \in Timers /\ f.node \in Timers
  BY DEF Inv, TypeOK
<1>2. Signed(Minus(e.value, f.value)) = rest[e.node] - rest[f.node]
  BY DEF Inv, HalfRange
<1>3. rest[e.node] \in Int /\ rest[f.node] \in Int
  BY <1>1, Bounds DEF Inv, TypeOK
<1> QED
  BY <1>1, <1>2, <1>3, Wrapping

\* Some entry has the least time to go, and next_timeout computes that time.
LEMMA HeadIsFirst ==
  ASSUME Inv, queue # {}
  PROVE  \E e \in queue :
           /\ \A f \in queue : rest[e.node] <= rest[f.node]
           /\ NextTimeout = IF rest[e.node] > 0 THEN rest[e.node] ELSE 0
<1>1. \A e \in queue : e.node \in Timers /\ rest[e.node] \in -MaxLag..MaxDelay
  BY DEF Inv, TypeOK
<1>2. PICK e \in queue : \A f \in queue : rest[e.node] <= rest[f.node]
  <2> DEFINE S == {rest[e.node] + MaxLag : e \in queue}
  <2>1. S \in SUBSET Nat /\ S # {}
    BY <1>1, Bounds
  <2>2. PICK m \in S : \A n \in S : m <= n
    <3> HIDE DEF S
    <3> QED BY <2>1, LeastNatural
  <2>3. PICK e \in queue : m = rest[e.node] + MaxLag
    OBVIOUS
  <2>4. \A f \in queue : rest[e.node] + MaxLag <= rest[f.node] + MaxLag
    BY <2>2, <2>3
  <2>5. \A f \in queue : rest[e.node] <= rest[f.node]
    BY <1>1, <2>4, Bounds
  <2> QED BY <2>5
<1>3. e.value = HeadValue
  <2> DEFINE First(x) == x \in {f.value : f \in queue} /\ \A f \in queue : ~Less(f.value, x)
  <2>1. First(e.value)
    BY <1>1, <1>2, LessIsEarlier
  <2>2. ASSUME NEW g \in queue, First(g.value)  PROVE g.value = e.value
    <3>1. rest[g.node] = rest[e.node]
      BY <1>2, <2>2, LessIsEarlier
    <3>2. Signed(Minus(g.value, e.value)) = 0 /\ g.value \in Values /\ e.value \in Values
      BY <3>1, LessIsEarlier DEF Inv, HalfRange
    <3> QED BY <3>2 DEF Signed, Minus, Values
  <2>3. HeadValue = CHOOSE x \in {f.value : f \in queue} : \A f \in queue : ~Less(f.value, x)
    BY DEF HeadValue
  <2> QED BY <2>1, <2>2, <2>3
<1>4. Signed(Minus(HeadValue, now)) = rest[e.node]
  BY <1>3 DEF Inv, HalfRange
<1>5. NextTimeout = IF rest[e.node] > 0 THEN rest[e.node] ELSE 0
  BY <1>4 DEF NextTimeout
<1> QED BY <1>2, <1>5

\* A timer is due when some entry has no time to go; else the time-out is the
\* time to the first deadline.
LEMMA DueOrWait ==
  ASSUME Inv
  PROVE  /\ Due => \E e \in queue : rest[e.node] <= 0
         /\ ~Due => \/ queue = {} /\ NextTimeout = -1
                    \/ /\ queue # {} /\ NextTimeout \in 1..MaxDelay
                       /\ \A e \in queue : rest[e.node] >= NextTimeout
                       /\ \E e \in queue : rest[e.node] = NextTimeout
<1>1. CASE queue = {}
  BY <1>1 DEF Due, NextTimeout
<1>2. CASE queue # {}
  <2>1. PICK e \in queue : /\ \A f \in queue : rest[e.node] <= rest[f.node]
                           /\ NextTimeout = IF rest[e.node] > 0 THEN rest[e.node] ELSE 0
    BY <1>2, HeadIsFirst
  <2>2. rest[e.node] \in -MaxLag..MaxDelay
    BY DEF Inv, TypeOK
  <2>3. rest[e.node] \in Int
    BY <2>2, Bounds
  <2> QED BY <1>2, <2>1, <2>2, <2>3, Bounds DEF Due
<1> QED BY <1>1, <1>2

-----------------------------------------------------------------------------
(* Every action preserves the invariant.                                   *)

LEMMA InitInv == Init => Inv
BY Bounds DEF Init, Inv, TypeOK, Places, LabelsAgree, Queued, HalfRange,
              WaitsForFirst, WaitIsBounded, TimersAreDue, WaitEndedInTime

LEMMA AlarmInv ==
  ASSUME Inv, NEW t \in Timers, NEW msecs \in Delays, Alarm(t, msecs)
  PROVE  Inv'
<1> DEFINE new == [value |-> Plus(now, msecs), node |-> t]
<1>1. /\ msecs \in 0..MaxDelay /\ msecs \in 0..(Half - 1) /\ now \in Values
      /\ new.value \in Values /\ Signed(Minus(new.value, now)) = msecs
  BY Bounds, PlusIsAhead DEF Delays, Inv, TypeOK
<1>2. /\ queue' = queue \cup {new} /\ now' = now /\ rest'[t] = msecs
      /\ \A e \in queue : e.node # t /\ e.node \in Timers /\ rest'[e.node] = rest[e.node]
  BY DEF Alarm, Queued, Inv, TypeOK
<1>3. TypeOK'
  BY <1>1, Bounds DEF Alarm, Inv, TypeOK
<1>4. LabelsAgree'
  <2>1. /\ index'[t] = "queued"
        /\ \A u \in Timers \ {t} : index'[u] = index[u]
    BY DEF Alarm, Inv, TypeOK
  <2>2. new.node = t /\ new \in queue'
    BY <1>2
  <2> HIDE DEF new
  <2> QED BY <1>2, <2>1, <2>2 DEF Inv, LabelsAgree, Queued
<1>5. \A e \in queue' : /\ e.value \in Values /\ rest'[e.node] \in -MaxLag..MaxDelay
                        /\ Signed(Minus(e.value, now)) = rest'[e.node]
  <2>1. \A e \in queue : /\ e.value \in Values /\ rest[e.node] \in -MaxLag..MaxDelay
                         /\ Signed(Minus(e.value, now)) = rest[e.node]
    BY <1>2 DEF Inv, TypeOK, HalfRange
  <2>2. /\ new.value \in Values /\ rest'[new.node] \in -MaxLag..MaxDelay
        /\ Signed(Minus(new.value, now)) = rest'[new.node]
    BY <1>1, <1>2, Bounds
  <2> HIDE DEF new
  <2> QED BY <1>2, <2>1, <2>2
<1>6. HalfRange'
  <2> HIDE DEF new
  <2> QED BY <1>1, <1>2, <1>5, Close DEF HalfRange
<1>7. WaitsForFirst' /\ WaitIsBounded' /\ TimersAreDue'
  BY DEF Alarm, ProgramRuns, Inv, WaitsForFirst, WaitIsBounded, TimersAreDue
<1>8. WaitEndedInTime'
  <2> SUFFICES ASSUME NEW e \in queue'
               PROVE  -rest'[e.node] <= MaxLate
    BY DEF WaitEndedInTime
  <2>1. CASE e \in queue
    BY <1>2, <2>1 DEF Alarm, ProgramRuns, Inv, WaitEndedInTime
  <2>2. CASE e = new
    <3>1. rest'[e.node] = msecs
      BY <1>2, <2>2
    <3> QED BY <1>1, <3>1, LateBounds
  <2> QED BY <1>2, <2>1, <2>2
<1> QED BY <1>3, <1>4, <1>6, <1>7, <1>8 DEF Inv

\* Taking an entry out leaves the others, and their distances, alone.
LEMMA TakenOut ==
  ASSUME Inv, NEW e \in queue, queue' = queue \ {e},
         rest' = [rest EXCEPT ![e.node] = 0], UNCHANGED now
  PROVE  /\ \A f \in queue' : f \in queue /\ f.node # e.node /\ rest'[f.node] = rest[f.node]
         /\ rest' \in [Timers -> -MaxLag..MaxDelay]
         /\ HalfRange'
<1>1. \A f \in queue' : f \in queue /\ f.node \in Timers /\ f.node # e.node
  BY DEF Inv, TypeOK, LabelsAgree
<1>2. rest' \in [Timers -> -MaxLag..MaxDelay]
  <2>1. 0 \in -MaxLag..MaxDelay
    BY Bounds
  <2> QED BY <2>1 DEF Inv, TypeOK
<1>3. \A f \in queue' : rest'[f.node] = rest[f.node]
  BY <1>1 DEF Inv, TypeOK
<1>4. HalfRange'
  BY <1>1, <1>3 DEF Inv, HalfRange
<1> QED
  BY <1>1, <1>2, <1>3, <1>4

LEMMA StopInv ==
  ASSUME Inv, NEW t \in Timers, Stop(t) \/ StopStale(t)
  PROVE  Inv'
<1>1. PICK e \in queue : /\ queue' = queue \ {e} /\ rest' = [rest EXCEPT ![e.node] = 0]
                         /\ UNCHANGED <<now, step, timeout, left, signals, lag>>
                         /\ step \notin {"wait", "timers", "undefined"}
                         /\ Stop(t) => e.node = t
                         /\ StopStale(t) => index' = [index EXCEPT ![e.node] = "lost",
                                                                   ![t] = "invalid"]
  <2>1. CASE Stop(t)
    <3>1. PICK e \in queue : e.node = t
      BY <2>1 DEF Stop, Inv, LabelsAgree, Queued
    <3>2. queue' = queue \ {e}
      BY <2>1, <3>1 DEF Stop, Inv, LabelsAgree
    <3>3. ~StopStale(t)
      BY <2>1 DEF Stop, StopStale
    <3> QED BY <2>1, <3>1, <3>2, <3>3 DEF Stop, ProgramRuns
  <2>2. CASE StopStale(t)
    BY <2>2 DEF Stop, StopStale, Remove, ProgramRuns
  <2> QED BY <2>1, <2>2
<1>2. /\ \A f \in queue' : f \in queue /\ f.node # e.node /\ rest'[f.node] = rest[f.node]
      /\ rest' \in [Timers -> -MaxLag..MaxDelay]
      /\ HalfRange'
  BY <1>1, TakenOut
<1>3. e.node \in Timers
  BY DEF Inv, TypeOK
<1>4. TypeOK' /\ LabelsAgree'
  <2>1. CASE Stop(t)
    <3>1. e.node = t /\ index' = [index EXCEPT ![t] = "invalid"]
      BY <1>1, <2>1 DEF Stop
    <3>2. TypeOK'
      BY <1>1, <1>2, <3>1 DEF Inv, TypeOK
    <3>3. LabelsAgree'
      BY <1>1, <1>2, <3>1 DEF Inv, TypeOK, LabelsAgree, Queued
    <3> QED BY <3>2, <3>3
  <2>2. CASE StopStale(t)
    <3>1. index' = [index EXCEPT ![e.node] = "lost", ![t] = "invalid"] /\ ~Queued(t)
      BY <1>1, <2>2 DEF StopStale, Inv, LabelsAgree
    <3>2. TypeOK'
      BY <1>1, <1>2, <1>3, <3>1 DEF Inv, TypeOK
    <3>3. LabelsAgree'
      BY <1>1, <1>2, <1>3, <3>1 DEF Inv, TypeOK, LabelsAgree, Queued
    <3> QED BY <3>2, <3>3
  <2> QED BY <2>1, <2>2
<1>5. WaitEndedInTime'
  BY <1>1, <1>2 DEF Inv, WaitEndedInTime
<1>6. WaitsForFirst' /\ WaitIsBounded' /\ TimersAreDue'
  BY <1>1 DEF Inv, WaitsForFirst, WaitIsBounded, TimersAreDue
<1> QED BY <1>2, <1>4, <1>5, <1>6 DEF Inv

\* The model ends where the program runs.
LEMMA MisuseInv ==
  ASSUME Inv, NEW t \in Timers, StopEmpty(t) \/ AlarmTwice(t)
  PROVE  Inv'
<1>1. /\ UNCHANGED <<now, queue, index, timeout, left, signals, lag, rest>>
      /\ step # "wait" /\ step' = "undefined"
  BY DEF StopEmpty, AlarmTwice, ProgramRuns
<1>2. TypeOK' /\ LabelsAgree' /\ HalfRange'
  BY <1>1 DEF Inv, TypeOK, Places, LabelsAgree, Queued, HalfRange
<1>3. WaitsForFirst' /\ WaitIsBounded' /\ TimersAreDue' /\ WaitEndedInTime'
  BY <1>1 DEF Inv, WaitsForFirst, WaitIsBounded, TimersAreDue, WaitEndedInTime
<1> QED BY <1>2, <1>3 DEF Inv

LEMMA BeginStepInv ==
  ASSUME Inv, BeginStep
  PROVE  Inv'
<1>1. UNCHANGED <<now, queue, index, lag, rest>> /\ step = "outside"
  BY DEF BeginStep
<1>2. LabelsAgree' /\ HalfRange'
  BY <1>1 DEF Inv, LabelsAgree, Queued, HalfRange
<1>3. CASE Due
  BY <1>1, <1>2, <1>3, DueOrWait
     DEF BeginStep, Inv, TypeOK, Places, WaitsForFirst, WaitIsBounded, TimersAreDue,
         WaitEndedInTime
<1>4. CASE ~Due
  <2>1. /\ step' = "wait" /\ timeout' = NextTimeout /\ left' = NextTimeout /\ signals' = 0
        /\ lag <= MaxBusy /\ lag \in 0..MaxLag
    BY <1>4 DEF BeginStep, Inv, TypeOK, WaitIsBounded
  <2>2. NextTimeout \in -1..MaxDelay
    BY <1>4, DueOrWait, Bounds
  <2>3. TypeOK'
    BY <1>1, <2>1, <2>2, Bounds DEF Inv, TypeOK, Places
  <2>4. WaitsForFirst'
    BY <1>1, <1>4, <2>1, DueOrWait DEF WaitsForFirst
  <2>5. WaitIsBounded'
    BY <1>1, <1>4, <2>1, <2>2, DueOrWait, Bounds DEF WaitIsBounded
  <2>6. TimersAreDue'
    BY <2>1 DEF TimersAreDue
  <2>7. WaitEndedInTime'
    BY <2>1 DEF WaitEndedInTime
  <2> QED BY <1>2, <2>3, <2>4, <2>5, <2>6, <2>7 DEF Inv
<1> QED BY <1>3, <1>4

LEMMA FireInv ==
  ASSUME Inv, NEW e \in queue, Fire(e)
  PROVE  Inv'
<1>1. /\ queue' = queue \ {e} /\ rest' = [rest EXCEPT ![e.node] = 0]
      /\ index' = [index EXCEPT ![e.node] = "stale"]
      /\ step = "timers" /\ step' = "callback"
      /\ UNCHANGED <<now, timeout, left, signals, lag>>
  BY DEF Fire, Remove
<1>2. /\ \A f \in queue' : f \in queue /\ f.node # e.node /\ rest'[f.node] = rest[f.node]
      /\ rest' \in [Timers -> -MaxLag..MaxDelay]
      /\ HalfRange'
  BY <1>1, TakenOut
<1>3. e.node \in Timers
  BY DEF Inv, TypeOK
<1>4. TypeOK'
  BY <1>1, <1>2, <1>3 DEF Inv, TypeOK, Places
<1>5. LabelsAgree'
  BY <1>1, <1>2, <1>3 DEF Inv, TypeOK, LabelsAgree, Queued
<1>6. WaitEndedInTime'
  BY <1>1, <1>2 DEF Inv, WaitEndedInTime
<1>7. WaitsForFirst' /\ WaitIsBounded' /\ TimersAreDue'
  BY <1>1 DEF Inv, WaitsForFirst, WaitIsBounded, TimersAreDue
<1> QED BY <1>2, <1>4, <1>5, <1>6, <1>7 DEF Inv

\* The functions that the loop calls return.
LEMMA ReturnInv ==
  ASSUME Inv, CallbackReturn \/ DispatchReturn
  PROVE  Inv'
<1>1. TypeOK' /\ LabelsAgree' /\ HalfRange'
  BY DEF CallbackReturn, DispatchReturn, Inv, TypeOK, Places, LabelsAgree, Queued,
         HalfRange
<1>2. WaitsForFirst' /\ WaitIsBounded' /\ WaitEndedInTime'
  BY DEF CallbackReturn, DispatchReturn, Inv, WaitsForFirst, WaitIsBounded, WaitEndedInTime
<1>3. TimersAreDue'
  BY DueOrWait DEF CallbackReturn, DispatchReturn, TimersAreDue
<1> QED BY <1>1, <1>2, <1>3 DEF Inv

\* epoll_wait returns: the deadlines come closer by the time it took, and none
\* was behind the clock when the wait began.
LEMMA WaitReturnInv ==
  ASSUME Inv, NEW place \in {"outside", "dispatch"}, WaitReturn(place)
  PROVE  Inv'
<1>1. /\ step = "wait" /\ step' = place /\ timeout' = -1 /\ left' = -1 /\ signals' = 0
      /\ now' = Plus(now, lag) /\ lag' = 0 /\ queue' = queue /\ index' = index
      /\ rest' = [t \in Timers |-> IF Queued(t) THEN rest[t] - lag ELSE 0]
  BY DEF WaitReturn, ReadClock
<1>2. /\ lag \in 0..MaxLag /\ lag \in 0..(Half - 1) /\ now \in Values
      /\ now' \in Values
  BY <1>1, Bounds, PlusIsAhead DEF Inv, TypeOK
<1>3. \A e \in queue : /\ e.value \in Values /\ e.node \in Timers
                       /\ rest[e.node] \in 1..MaxDelay
                       /\ Signed(Minus(e.value, now)) = rest[e.node]
  <2>1. \A e \in queue : /\ e.value \in Values /\ e.node \in Timers
                         /\ rest[e.node] \in -MaxLag..MaxDelay
                         /\ Signed(Minus(e.value, now)) = rest[e.node]
    BY DEF Inv, TypeOK, HalfRange
  <2>2. \A e \in queue : timeout \in Int /\ timeout > 0 /\ rest[e.node] >= timeout
    BY <1>1 DEF Inv, TypeOK, WaitsForFirst
  <2> QED BY <2>1, <2>2, Bounds
<1>4. \A e \in queue : /\ rest'[e.node] = rest[e.node] - lag
                       /\ rest'[e.node] \in -MaxLag..MaxDelay
                       /\ Signed(Minus(e.value, now')) = rest'[e.node]
  <2> TAKE e \in queue
  <2>1. rest'[e.node] = rest[e.node] - lag
    BY <1>1, <1>3 DEF Queued
  <2>2. rest'[e.node] \in -MaxLag..MaxDelay /\ rest[e.node] - lag >= -Half
    BY <1>2, <1>3, <2>1, Bounds
  <2>3. Signed(Minus(e.value, now')) = rest[e.node] - lag
    BY <1>1, <1>2, <1>3, <2>2, Closer
  <2> QED BY <2>1, <2>2, <2>3
<1>5. TypeOK'
  <2>1. rest' \in [Timers -> -MaxLag..MaxDelay]
    <3> SUFFICES ASSUME NEW t \in Timers
                 PROVE  (IF Queued(t) THEN rest[t] - lag ELSE 0) \in -MaxLag..MaxDelay
      BY <1>1
    <3>1. CASE Queued(t)
      BY <1>1, <1>4, <3>1 DEF Queued
    <3>2. CASE ~Queued(t)
      BY <3>2, Bounds
    <3> QED BY <3>1, <3>2
  <2> QED BY <1>1, <1>2, <2>1, Bounds DEF Inv, TypeOK, Places
<1>6. LabelsAgree'
  BY <1>1 DEF Inv, LabelsAgree, Queued
<1>7. HalfRange'
  BY <1>1, <1>2, <1>3, <1>4, Close DEF HalfRange
<1>8. WaitsForFirst' /\ WaitIsBounded' /\ TimersAreDue'
  BY <1>1, Bounds DEF WaitsForFirst, WaitIsBounded, TimersAreDue
<1>9. WaitEndedInTime'
  <2> SUFFICES ASSUME NEW e \in queue
               PROVE  -rest'[e.node] <= MaxLate
    BY <1>1 DEF WaitEndedInTime
  <2>1. lag - rest[e.node] <= MaxLate
    BY <1>1, WaitIsNotTooLate DEF Inv
  <2> QED BY <1>2, <1>3, <1>4, <2>1, LateBounds, Bounds
<1> QED BY <1>5, <1>6, <1>7, <1>8, <1>9 DEF Inv

\* Time passes and signals come, within the bounds.
LEMMA TickInv ==
  ASSUME Inv, Tick
  PROVE  Inv'
<1>1. /\ lag' = lag + 1 /\ left' = IF timeout = -1 THEN left ELSE left - 1
      /\ UNCHANGED <<now, queue, index, step, timeout, signals, rest>>
      /\ lag \in Nat /\ timeout \in -1..MaxDelay /\ left \in Int
      /\ signals \in 0..MaxSignals
  BY Bounds DEF Tick, Inv, TypeOK
<1>2. lag' <= MaxLag /\ WaitIsBounded'
  <2>1. CASE step # "wait"
    <3>1. lag < MaxBusy
      BY <2>1 DEF Tick
    <3>2. timeout = -1 /\ left = -1
      BY <2>1 DEF Tick, Inv, WaitIsBounded
    <3>3. left' = -1 /\ timeout' = -1 /\ step' # "wait" /\ lag' <= MaxBusy
      BY <1>1, <2>1, <3>1, <3>2
    <3>4. WaitIsBounded'
      BY <3>3 DEF WaitIsBounded
    <3> QED BY <1>1, <3>3, <3>4, Bounds
  <2>2. CASE step = "wait" /\ timeout = -1
    <3>1. lag < MaxLag
      BY <2>2 DEF Tick
    <3>2. lag' <= MaxLag
      BY <1>1, <3>1, Bounds
    <3>3. WaitIsBounded'
      BY <1>1, <2>2 DEF WaitIsBounded
    <3> QED BY <3>2, <3>3
  <2>3. CASE step = "wait" /\ timeout # -1
    <3> DEFINE p == timeout + MaxBusy
               sp == signals * p
    <3>1. p \in 0..(MaxDelay + MaxBusy) /\ sp \in Nat /\ MaxBusy + sp + p <= MaxLag
      <4>1. p \in 0..(MaxDelay + MaxBusy)
        BY <1>1, <2>3
      <4> HIDE DEF p
      <4> QED BY <1>1, <4>1, Bounds
    <3>2. left > -MaxBusy /\ lag <= MaxBusy + sp + (timeout - left)
      BY <2>3 DEF Tick, Inv, WaitIsBounded
    <3>3. /\ left' = left - 1 /\ left' >= -MaxBusy
          /\ lag' <= MaxBusy + sp + (timeout - left')
      <4> HIDE DEF sp
      <4> QED BY <1>1, <2>3, <3>1, <3>2
    <3>4. lag' <= MaxLag
      <4>1. timeout - left' <= p
        BY <1>1, <3>3
      <4> HIDE DEF sp, p
      <4> QED BY <1>1, <3>1, <3>3, <4>1, Bounds
    <3>5. WaitIsBounded'
      BY <1>1, <2>3, <3>3 DEF WaitIsBounded
    <3> QED BY <1>1, <3>4, <3>5
  <2> QED BY <2>1, <2>2, <2>3
<1>3. TypeOK'
  BY <1>1, <1>2, Bounds DEF Inv, TypeOK
<1>4. LabelsAgree' /\ HalfRange' /\ WaitsForFirst' /\ TimersAreDue'
  BY <1>1 DEF Inv, LabelsAgree, Queued, HalfRange, WaitsForFirst, TimersAreDue
<1>5. WaitEndedInTime'
  BY <1>1 DEF Inv, WaitEndedInTime
<1> QED BY <1>2, <1>3, <1>4, <1>5 DEF Inv

\* The model ends inside a wait, before any deadline.
LEMMA TooManyInv ==
  ASSUME Inv, TooManySignals
  PROVE  Inv'
<1>1. /\ step = "wait" /\ step' = "undefined"
      /\ UNCHANGED <<now, queue, index, timeout, left, signals, lag, rest>>
  BY DEF TooManySignals
<1>2. TypeOK' /\ LabelsAgree' /\ HalfRange'
  BY <1>1 DEF Inv, TypeOK, Places, LabelsAgree, Queued, HalfRange
<1>3. WaitsForFirst' /\ WaitIsBounded' /\ TimersAreDue'
  BY <1>1 DEF WaitsForFirst, WaitIsBounded, TimersAreDue
<1>4. WaitEndedInTime'
  <2> SUFFICES ASSUME NEW e \in queue
               PROVE  -rest[e.node] <= MaxLate
    BY <1>1 DEF WaitEndedInTime
  <2>1. /\ timeout \in Int /\ timeout > 0 /\ rest[e.node] >= timeout
        /\ rest[e.node] \in Int
    BY <1>1, Bounds DEF Inv, TypeOK, WaitsForFirst
  <2> QED BY <2>1, LateBounds
<1> QED BY <1>2, <1>3, <1>4 DEF Inv

LEMMA InterruptInv ==
  ASSUME Inv, Interrupt
  PROVE  Inv'
<1>1. /\ step = "wait" /\ signals < MaxSignals /\ signals' = signals + 1
      /\ left' = timeout /\ UNCHANGED <<now, queue, index, step, timeout, lag, rest>>
      /\ signals \in 0..MaxSignals /\ timeout \in -1..MaxDelay
  BY DEF Interrupt, Inv, TypeOK
<1>2. TypeOK'
  BY <1>1, Bounds DEF Inv, TypeOK
<1>3. WaitIsBounded'
  <2> SUFFICES ASSUME timeout # -1
               PROVE  left' >= -MaxBusy /\
                      lag <= MaxBusy + signals' * (timeout + MaxBusy) + (timeout - left')
    BY <1>1 DEF WaitIsBounded
  <2> DEFINE p == timeout + MaxBusy
             sp == signals * p
  <2>1. p \in Nat /\ sp \in Nat /\ left >= -MaxBusy /\ left \in Int /\ lag \in Int
    BY <1>1, Bounds DEF Inv, TypeOK, WaitIsBounded
  <2>2. lag <= MaxBusy + sp + (timeout - left)
    BY <1>1 DEF Inv, WaitIsBounded
  <2>3. signals' * p = sp + p
    BY <1>1, <2>1
  <2>4. timeout - left <= p
    BY <1>1, <2>1
  <2>5. left' = timeout
    BY <1>1
  <2>6. lag <= MaxBusy + (sp + p)
    <3> HIDE DEF sp, p
    <3> QED BY <1>1, <2>1, <2>2, <2>4
  <2>7. lag <= MaxBusy + signals' * p
    BY <2>3, <2>6
  <2> QED BY <1>1, <2>3, <2>5, <2>6
<1>4. LabelsAgree' /\ HalfRange' /\ WaitsForFirst' /\ TimersAreDue'
  BY <1>1 DEF Inv, LabelsAgree, Queued, HalfRange, WaitsForFirst, TimersAreDue
<1>5. WaitEndedInTime'
  BY <1>1 DEF Inv, WaitEndedInTime
<1> QED BY <1>2, <1>3, <1>4, <1>5 DEF Inv

-----------------------------------------------------------------------------
(* The theorems.                                                           *)

\* One case for each action of the loop, the program and the kernel.
LEMMA StepInv ==
  ASSUME Inv, [Next]_vars
  PROVE  Inv'
<1>1. ASSUME NEW t \in Timers, NEW msecs \in Delays, Alarm(t, msecs)  PROVE Inv'
  BY <1>1, AlarmInv
<1>2. ASSUME NEW t \in Timers, Stop(t) \/ StopStale(t) \/ StopEmpty(t) \/ AlarmTwice(t)
      PROVE  Inv'
  BY <1>2, StopInv, MisuseInv
<1>3. ASSUME Loop  PROVE Inv'
  BY <1>3, BeginStepInv, FireInv, ReturnInv, WaitReturnInv DEF Loop, TimedOut
<1>4. ASSUME Tick \/ Interrupt \/ TooManySignals \/ EventsCome  PROVE Inv'
  BY <1>4, TickInv, InterruptInv, TooManyInv, WaitReturnInv DEF EventsCome
<1>5. CASE UNCHANGED vars
  BY <1>5 DEF vars, Inv, TypeOK, LabelsAgree, Queued, HalfRange, WaitsForFirst,
              WaitIsBounded, TimersAreDue, WaitEndedInTime
<1> QED BY <1>1, <1>2, <1>3, <1>4, <1>5 DEF Next, Undefined

\* Deadlines stay close to the clock, and waits end at the first of them, at
\* every step of the loop and of the program.
THEOREM Invariance == Spec => []Inv
<1>1. Inv /\ [Next]_vars => Inv'
  BY StepInv
<1> QED
  BY InitInv, <1>1, PTL DEF Spec

\* Type correctness; in particular no deadline falls further behind the clock
\* than the longest wait.
THEOREM TypeCorrect == Spec => []TypeOK
<1>1. Inv => TypeOK
  BY DEF Inv
<1> QED
  BY <1>1, Invariance, PTL

\* Wrapped differences are the real ones: heap_less and next_timeout may be used.
THEOREM WithinHalfRange == Spec => []HalfRange
<1>1. Inv => HalfRange
  BY DEF Inv
<1> QED
  BY <1>1, Invariance, PTL

\* epoll_wait is given the time to the first deadline, and that is not over.
THEOREM NeverWaitsPast == Spec => []WaitsForFirst
<1>1. Inv => WaitsForFirst
  BY DEF Inv
<1> QED
  BY <1>1, Invariance, PTL

\* No pending timer is later than MaxLate when the clock is read, with any number
\* of timers and events, and up to MaxSignals signals in a step.
THEOREM TimersAreInTime == Spec => []NotTooLate
<1>1. Inv => NotTooLate
  BY WaitIsNotTooLate DEF Inv, WaitEndedInTime, NotTooLate, Queued
<1> QED
  BY <1>1, Invariance, PTL

\* Timers fire when they are due and in the order of their deadlines.
THEOREM FiresInOrder == Spec => FiresDueInOrder
<1> DEFINE InOrder == \A e \in queue :
             step = "timers" /\ e \notin queue' =>
               /\ rest[e.node] <= 0
               /\ \A f \in queue : rest[e.node] <= rest[f.node]
<1>1. Inv /\ [Next]_vars => [InOrder]_vars
  <2> SUFFICES ASSUME Inv, Next, NEW e \in queue, step = "timers", e \notin queue'
               PROVE  /\ rest[e.node] <= 0
                      /\ \A f \in queue : rest[e.node] <= rest[f.node]
    BY DEF vars
  <2>1. IsHead(e)
    <3>1. ~ProgramRuns /\ step # "wait"
      BY DEF ProgramRuns
    <3>2. queue' # queue
      OBVIOUS
    <3>3. ASSUME NEW t \in Timers, NEW msecs \in Delays PROVE ~Alarm(t, msecs)
      BY <3>1 DEF Alarm
    <3>4. ASSUME NEW t \in Timers
          PROVE  ~Stop(t) /\ ~StopStale(t) /\ ~StopEmpty(t) /\ ~AlarmTwice(t)
      BY <3>1 DEF Stop, StopStale, StopEmpty, AlarmTwice
    <3>5. ~BeginStep /\ ~CallbackReturn /\ ~DispatchReturn
      BY <3>2 DEF BeginStep, CallbackReturn, DispatchReturn
    <3>6. /\ ~TimedOut /\ ~EventsCome /\ ~Tick /\ ~Interrupt /\ ~TooManySignals
          /\ ~Undefined
      BY <3>2 DEF TimedOut, EventsCome, WaitReturn, Tick, Interrupt, TooManySignals,
                  Undefined, vars
    <3>7. PICK h \in queue : Fire(h)
      BY <3>3, <3>4, <3>5, <3>6 DEF Next, Loop
    <3> QED BY <3>7 DEF Fire, Remove
  <2>2. \A f \in queue : rest[f.node] \in Int
    BY LessIsEarlier
  <2>3. \A f \in queue : rest[e.node] <= rest[f.node]
    <3> TAKE f \in queue
    <3>1. ~(rest[f.node] < rest[e.node])
      BY <2>1, LessIsEarlier DEF IsHead
    <3> QED BY <2>2, <3>1
  <2>4. PICK g \in queue : rest[g.node] <= 0
    BY DEF Inv, TimersAreDue
  <2> QED BY <2>2, <2>3, <2>4
<1> QED
  BY <1>1, Invariance, PTL DEF Spec, FiresDueInOrder

=============================================================================
