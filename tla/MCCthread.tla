----------------------------- MODULE MCCthread -----------------------------
(* The coroutine core on a small set of threads.                           *)
EXTENDS Cthread, TLC

\* Threads and the program's choices among them are interchangeable; sound:
\* the properties name none, and those of behaviours are safety properties.
Symmetry == Permutations(Threads)

=============================================================================
