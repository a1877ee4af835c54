SPECIFICATION Spec
CONSTANTS
  Fds = {f1, f2}
  Polls = {p1, p2}
  Watchers = {w1, w2}
  NONE = NONE
  MaxEvents = 2
SYMMETRY Symmetry
INVARIANTS
  KernelIsUpdated
CHECK_DEADLOCK FALSE
