------------------------------ MODULE MCEvPoll ------------------------------
(* The poller on a few descriptors.                                        *)
EXTENDS EvPoll, TLC

\* Descriptors, addresses and watchers are interchangeable; sound because the
\* runs have no temporal properties.
Symmetry == Permutations(Fds) \cup Permutations(Polls) \cup Permutations(Watchers)

=============================================================================
