----------------------------- MODULE CallStack -----------------------------
(***************************************************************************)
(* What the coroutine core promises: control moves between contexts as on  *)
(* a stack.  Main is at the bottom, the context on top has control, and a  *)
(* context leaves the stack only from the top: it steps aside (and may be  *)
(* pushed again), it is replaced, or it finishes and never comes back.     *)
(***************************************************************************)
EXTENDS Integers, Sequences

CONSTANTS
  Threads,  \* the threads
  Bottom    \* main, the context that owns the OS thread

VARIABLES
  stack,    \* from main to the context that has control
  aside,    \* threads that gave up control and may get it back
  done      \* threads that finished

vars == <<stack, aside, done>>

Front == SubSeq(stack, 1, Len(stack) - 1)
Top == stack[Len(stack)]
OnStack == {stack[i] : i \in DOMAIN stack}

Init ==
  /\ stack = <<Bottom>>
  /\ aside = {}
  /\ done = {}

\* A new thread, or one that stepped aside, is given control and will give it
\* back to the present top.
Push(t) ==
  /\ t \notin OnStack \cup done
  /\ stack' = Append(stack, t)
  /\ aside' = aside \ {t}
  /\ UNCHANGED done

\* The top steps aside in favour of the context below it.
StepAside ==
  /\ Len(stack) > 1
  /\ stack' = Front
  /\ aside' = aside \cup {Top}
  /\ UNCHANGED done

\* The top steps aside in favour of a thread that takes its place.
Replace(t) ==
  /\ Len(stack) > 1
  /\ t \in aside
  /\ stack' = Append(Front, t)
  /\ aside' = (aside \ {t}) \cup {Top}
  /\ UNCHANGED done

\* The top finishes; the context below it, or a thread that takes its place,
\* gets control.
Finish ==
  /\ Len(stack) > 1
  /\ done' = done \cup {Top}
  /\ \/ /\ stack' = Front
        /\ UNCHANGED aside
     \/ \E t \in aside :
          /\ stack' = Append(Front, t)
          /\ aside' = aside \ {t}

Next ==
  \/ \E t \in Threads : Push(t)
  \/ StepAside
  \/ \E t \in Threads : Replace(t)
  \/ Finish

Spec == Init /\ [][Next]_vars

=============================================================================
