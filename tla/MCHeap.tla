------------------------------- MODULE MCHeap ------------------------------
(* The heap on a small set of nodes with deadlines that wrap around.       *)
EXTENDS Heap, TLC

\* Nodes are interchangeable; sound: the properties name none, and those of
\* behaviours are safety properties.
Symmetry == Permutations(Nodes)

=============================================================================
