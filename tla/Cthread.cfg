SPECIFICATION Spec
CONSTANTS
  Threads = {t1, t2, t3, t4}
  NULL = NULL
SYMMETRY Symmetry
INVARIANTS
  TypeOK
  OneRunning
  JoinAssertion
  NoLostJoiner
  ThreadCount
PROPERTIES
  ImplementsCallStack
  ExitIsFinal
\* Every thread may have finished or be waiting in a join of another one.
CHECK_DEADLOCK FALSE
