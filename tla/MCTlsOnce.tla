------------------------------ MODULE MCTlsOnce -----------------------------
(* The race on a few OS threads.                                           *)
EXTENDS TlsOnce

=============================================================================
