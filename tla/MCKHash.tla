------------------------------ MODULE MCKHash ------------------------------
(* The hash table with keys that meet in its buckets.                      *)
EXTENDS KHash, TLC

\* Values are interchangeable; sound: the property of behaviours is a safety
\* property.
Symmetry == Permutations(Values)

=============================================================================
