SPECIFICATION Spec
CONSTANTS
  Fds = {f1, f2}
  Polls = {p1, p2, p3}
  Watchers = {w1, w2}
  NONE = NONE
  MaxEvents = 2
SYMMETRY Symmetry
INVARIANTS
  TypeOK
  PointersAreLive
  ClosedAreOnList
  WatchersOfOpenFds
  NothingMissed
CHECK_DEADLOCK FALSE
