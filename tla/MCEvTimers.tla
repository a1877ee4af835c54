----------------------------- MODULE MCEvTimers -----------------------------
(* The timers on a few objects and a clock that wraps around.              *)
EXTENDS EvTimers

=============================================================================
