------------------------------ MODULE Cthread ------------------------------
(***************************************************************************)
(* The coroutine core of cthread.c and cthread.sysv64.s: threads that hand *)
(* control to each other explicitly on one OS thread.                      *)
(*                                                                         *)
(* A context is a thread or the OS thread's own stack, which the code      *)
(* calls main and names by a NULL cthread_t pointer.  The saved stack      *)
(* pointer of a context (c->stack, m->stack) is abstracted to the place    *)
(* where loading it would resume: at[c].                                   *)
(***************************************************************************)
EXTENDS Integers, FiniteSets

CONSTANTS
  Threads,     \* the struct cthread objects of one struct cthread_main
  NULL         \* the null cthread_t pointer; as a context, main

ASSUME ThreadsAssumption ==
  /\ IsFiniteSet(Threads)
  /\ NULL \notin Threads

Contexts == Threads \cup {NULL}

VARIABLES
  self,        \* the thread-specific value read by cthread_self()
  at,          \* where the saved stack of each context resumes
  yieldTo,     \* c->yield_to
  exitTo,      \* c->exit_to
  joinOf,      \* the argument of the cthread_join frame on c's stack, or NULL
  finished,    \* c->finished
  numThreads,  \* m->num_threads
  alt          \* the thread inside cthread_altstack, or NULL

vars == <<self, at, yieldTo, exitTo, joinOf, finished, numThreads, alt>>

(***************************************************************************)
(* The places a context can be:                                            *)
(*   "unborn"  its struct has not been created                             *)
(*   "live"    it is executing; its saved stack pointer is stale           *)
(*   "call"    inside cthread_call or a start function, waiting for the    *)
(*             thread it resumed to give control back                      *)
(*   "parked"  inside cthread_yield or cthread_tailcall                    *)
(*   "join"    inside the do_yield of cthread_join                         *)
(*   "exit"    inside cthread_exit, which must never be resumed            *)
(***************************************************************************)
Places == {"unborn", "live", "call", "parked", "join", "exit"}

Born(t) == at[t] # "unborn"

\* c executes program code: not a fn of cthread_altstack, and not the part of
\* cthread_join that follows its do_yield.
Free(c) == self = c /\ at[c] = "live" /\ joinOf[c] = NULL

-----------------------------------------------------------------------------
(* Transfers of control.                                                   *)

\* set_thread(to), then cthread_asm_switch: store the context of `from' so
\* that it will resume at `place', load the saved stack of `to'.
Switch(from, place, to) ==
  /\ self' = to
  /\ at' = [at EXCEPT ![from] = place, ![to] = "live"]

\* cthread_call and the end of the start functions: `to' will give control
\* back to the context that runs now.
DoCall(to) ==
  /\ yieldTo' = [yieldTo EXCEPT ![to] = self]
  /\ Switch(self, "call", to)

\* do_yield: control goes to yield_to, which is main when it is NULL.
DoYield(place) ==
  /\ Switch(self, place, yieldTo[self])
  /\ UNCHANGED yieldTo

\* Fault: the copy of yield_to is forgotten, `to' keeps its old one.
DoTailCallKeepsOldCaller(place, to) ==
  /\ UNCHANGED yieldTo
  /\ Switch(self, place, to)

\* Fault: yield_to is set as cthread_call does, to the replaced thread.
DoTailCallAsCall(place, to) ==
  /\ yieldTo' = [yieldTo EXCEPT ![to] = self]
  /\ Switch(self, place, to)

\* cthread_tailcall: `to' takes the caller's place in the chain of callers.
DoTailCall(place, to) ==
  /\ yieldTo' = [yieldTo EXCEPT ![to] = yieldTo[self]]
  /\ Switch(self, place, to)

-----------------------------------------------------------------------------
Init ==
  /\ self = NULL
  /\ at = [c \in Contexts |-> IF c = NULL THEN "live" ELSE "unborn"]
  /\ yieldTo = [t \in Threads |-> NULL]
  /\ exitTo = [t \in Threads |-> NULL]
  /\ joinOf = [c \in Contexts |-> NULL]
  /\ finished = [t \in Threads |-> FALSE]
  /\ numThreads = 0
  /\ alt = NULL

\* create_cthread zeroes the struct of t, which no one has used before, and
\* counts it; the stack it builds starts at the thread's function.
CreateCthread(t) ==
  /\ ~Born(t)
  /\ numThreads' = numThreads + 1
  /\ UNCHANGED <<exitTo, joinOf, finished, alt>>

\* cthread_main_start, which asserts that it runs on main.
MainStart(t) ==
  /\ Free(NULL)
  /\ CreateCthread(t)
  /\ DoCall(t)

\* cthread_start, called by a thread: it reads from->main.
Start(t) ==
  /\ self # NULL
  /\ Free(self)
  /\ CreateCthread(t)
  /\ DoCall(t)

\* cthread_call from main (an event loop callback) or from a thread.  The
\* program resumes only a thread that gave up control by itself: the code has
\* no check, and the callbacks of cthread-evloop.c name such threads.
Call(t) ==
  /\ Free(self)
  /\ at[t] = "parked"
  /\ DoCall(t)
  /\ UNCHANGED <<exitTo, joinOf, finished, numThreads, alt>>

\* cthread_tailcall made by a thread that stays resumable.
TailCall(t) ==
  /\ self # NULL
  /\ Free(self)
  /\ at[t] = "parked"
  /\ DoTailCall("parked", t)
  /\ UNCHANGED <<exitTo, joinOf, finished, numThreads, alt>>

\* cthread_yield.
Yield ==
  /\ self # NULL
  /\ Free(self)
  /\ DoYield("parked")
  /\ UNCHANGED <<exitTo, joinOf, finished, numThreads, alt>>

\* cthread_join(t) up to its do_yield, when t has not finished; a join of a
\* finished thread reads exit_code and changes nothing.
Join(t) ==
  /\ self # NULL
  /\ Free(self)
  /\ Born(t) /\ t # self
  /\ ~finished[t]
  /\ exitTo' = [exitTo EXCEPT ![t] = self]
  /\ joinOf' = [joinOf EXCEPT ![self] = t]
  /\ DoYield("join")
  /\ UNCHANGED <<finished, numThreads, alt>>

\* The rest of cthread_join, once its do_yield has returned: the assertion
\* t->finished (JoinAssertion below), then t->exit_to = NULL.
JoinReturn ==
  /\ self # NULL
  /\ at[self] = "live"
  /\ joinOf[self] # NULL
  /\ exitTo' = [exitTo EXCEPT ![joinOf[self]] = NULL]
  /\ joinOf' = [joinOf EXCEPT ![self] = NULL]
  /\ UNCHANGED <<self, at, yieldTo, finished, numThreads, alt>>

\* Fault: a waiting joiner is ignored.
LeaveToCaller == DoYield("exit")

\* The last switch of a thread: to its joiner, in its caller's place, or back
\* to its caller.
Leave ==
  IF exitTo[self] # NULL
    THEN DoTailCall("exit", exitTo[self])
    ELSE DoYield("exit")

\* Fault: the thread is uncounted a second time on behalf of its joiner.
UncountJoiner == numThreads' = numThreads - IF exitTo[self] # NULL THEN 2 ELSE 1

\* Fault: the count is lowered after the switch, which does not return.
UncountLate == numThreads' = numThreads - IF exitTo[self] # NULL THEN 0 ELSE 1

Uncount == numThreads' = numThreads - 1

\* cthread_exit, called by the program or by __morestack when the thread's
\* function returns.
Exit ==
  /\ self # NULL
  /\ Free(self)
  /\ Uncount
  /\ finished' = [finished EXCEPT ![self] = TRUE]
  /\ Leave
  /\ UNCHANGED <<exitTo, joinOf, alt>>

\* cthread_altstack called by a thread, up to the call of fn: fn runs on the
\* part of main's stack below m->stack, with no current thread.  On main the
\* function is a plain call of fn.  The fn are malloc, calloc, realloc and
\* free, which call nothing of this module.
AltEnter ==
  /\ self # NULL
  /\ Free(self)
  /\ alt' = self
  /\ self' = NULL
  /\ UNCHANGED <<at, yieldTo, exitTo, joinOf, finished, numThreads>>

\* Fault: set_thread(c) is left out.
AltReturnForgetsThread ==
  /\ alt # NULL
  /\ alt' = NULL
  /\ UNCHANGED <<self, at, yieldTo, exitTo, joinOf, finished, numThreads>>

\* The rest of cthread_altstack: set_thread(c).
AltReturn ==
  /\ alt # NULL
  /\ self' = alt
  /\ alt' = NULL
  /\ UNCHANGED <<at, yieldTo, exitTo, joinOf, finished, numThreads>>

Next ==
  \/ \E t \in Threads : MainStart(t)
  \/ \E t \in Threads : Start(t)
  \/ \E t \in Threads : Call(t)
  \/ \E t \in Threads : TailCall(t)
  \/ Yield
  \/ \E t \in Threads : Join(t)
  \/ JoinReturn
  \/ Exit
  \/ AltEnter
  \/ AltReturn

Spec == Init /\ [][Next]_vars

-----------------------------------------------------------------------------
(* Properties.                                                             *)

\* Every variable has a value of its type in cthread-impl.h.
TypeOK ==
  /\ self \in Contexts
  /\ at \in [Contexts -> Places]
  /\ yieldTo \in [Threads -> Contexts]
  /\ exitTo \in [Threads -> Contexts]
  /\ joinOf \in [Contexts -> Contexts]
  /\ finished \in [Threads -> BOOLEAN]
  /\ numThreads \in Nat
  /\ alt \in Contexts

\* Exactly one context executes, and cthread_self() names it; inside
\* cthread_altstack it names no thread, and the stack that fn borrows belongs
\* to a main that is suspended.
OneRunning ==
  /\ \A c \in Contexts : at[c] = "live" <=> c = (IF alt = NULL THEN self ELSE alt)
  /\ alt # NULL => self = NULL /\ at[NULL] = "call"

\* The assertions of cthread_join and cthread_exit: a thread comes out of the
\* do_yield of cthread_join only when the thread it joins has finished, and a
\* thread that is running has not finished.
JoinAssertion ==
  \A t \in Threads :
    at[t] = "live" =>
      /\ joinOf[t] # NULL => finished[joinOf[t]]
      /\ ~finished[t]

\* As long as some thread waits for the exit of another one, exit_to names a
\* thread that waits for it, and that thread runs as soon as the exit has
\* happened.  Only a joiner that another join has overwritten is never woken.
NoLostJoiner ==
  \A t \in Threads :
    /\ ~finished[t] /\ (\E c \in Threads : at[c] = "join" /\ joinOf[c] = t) =>
         exitTo[t] # NULL /\ at[exitTo[t]] = "join" /\ joinOf[exitTo[t]] = t
    /\ finished[t] /\ exitTo[t] # NULL => at[exitTo[t]] = "live"

\* num_threads, on which main's loop ends, counts the threads that have
\* started and not finished.
ThreadCount ==
  numThreads = Cardinality({t \in Threads : Born(t) /\ ~finished[t]})

\* cthread_exit does not return: no transfer of control ever loads the stack
\* of a thread that has finished, whatever yield_to and exit_to still name it.
ExitIsFinal == [][\A t \in Threads : finished[t] => at'[t] = "exit"]_vars

(***************************************************************************)
(* The inductive invariant: what the pointers of suspended threads mean.   *)
(***************************************************************************)
OnChain(c) == at[c] \in {"live", "call"}

\* The thread that is live, and each thread it waits to return to, was called
\* by a context that is suspended in that call; no two have the same caller.
CallersWait ==
  /\ \A t \in Threads : OnChain(t) => at[yieldTo[t]] = "call"
  /\ \A t, u \in Threads :
       OnChain(t) /\ OnChain(u) /\ yieldTo[t] = yieldTo[u] => t = u

\* A cthread_join frame is on the stack of a thread that is suspended in it or
\* has just come out of it.
JoinFrames ==
  /\ \A t \in Threads : at[t] = "join" => joinOf[t] \in Threads
  /\ \A t \in Threads : joinOf[t] # NULL => at[t] \in {"join", "live"}
  /\ joinOf[NULL] = NULL
  /\ alt # NULL => joinOf[alt] = NULL

\* exit_to names a thread that is joining this one, and a joiner that is out of
\* its do_yield was resumed by the exit.
ExitToJoiner ==
  \A t \in Threads :
    exitTo[t] # NULL =>
      /\ joinOf[exitTo[t]] = t
      /\ at[exitTo[t]] = "live" => finished[t]

ExitedIffFinished == \A t \in Threads : finished[t] <=> at[t] = "exit"

MainNeverParks == OnChain(NULL)

Inv ==
  /\ TypeOK
  /\ OneRunning
  /\ CallersWait
  /\ JoinFrames
  /\ ExitToJoiner
  /\ ExitedIffFinished
  /\ MainNeverParks
  /\ JoinAssertion
  /\ NoLostJoiner
  /\ ThreadCount

(***************************************************************************)
(* The linked list yield_to implements a call stack: the contexts that are *)
(* suspended in a call and the one that executes, each after the one that  *)
(* its yield_to names, with main at the bottom.                            *)
(***************************************************************************)
Callers == {c \in Contexts : OnChain(c)}

Depth == Cardinality(Callers)

IsChain(s) ==
  /\ s[1] = NULL
  /\ \A i \in 2..Depth : s[i] # NULL /\ yieldTo[s[i]] = s[i - 1]
  /\ at[s[Depth]] = "live"
  /\ \A c \in Callers : \E i \in 1..Depth : s[i] = c

Chains == {s \in [1..Depth -> Callers] : IsChain(s)}

\* There is at most one, and none if the list has a cycle.
Chain == IF Chains = {} THEN <<>> ELSE CHOOSE s \in Chains : TRUE

Calls == INSTANCE CallStack WITH
  Bottom <- NULL,
  stack  <- Chain,
  aside  <- {t \in Threads : at[t] \in {"parked", "join"}},
  done   <- {t \in Threads : at[t] = "exit"}

\* Following yield_to from the running thread is a stack of callers with main
\* at its bottom, and call, yield, tailcall, join and exit are its push, pop
\* and replace: no context is skipped, resumed twice or left behind.
ImplementsCallStack == Calls!Spec

=============================================================================
