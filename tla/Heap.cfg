SPECIFICATION Spec
CONSTANTS
  Nodes = {n1, n2, n3, n4, n5}
  NONE = NONE
  Half = 4
  Slack = 2
  MaxSize = 5
SYMMETRY Symmetry
INVARIANTS
  TypeOK
  IndexAgrees
  InBounds
  HeadIsEarliest
PROPERTIES
  ImplementsTimerQueue
