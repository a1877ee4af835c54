----------------------------- MODULE MCProgram -----------------------------
(* A few threads that sleep a little, on a clock that is about to wrap     *)
(* around: only differences of its values matter, so that one first value  *)
(* stands for all.                                                         *)
EXTENDS Program

MCInit == Init /\ now = 2 * Half - 1

MCSpec == MCInit /\ [][Next]_vars

MCFairSpec == MCSpec /\ Fairness

=============================================================================
