SPECIFICATION Spec
CONSTANTS
  Keys = {3, 7, 8, 11, 15}
  Values = {v1, v2}
  NONE = NONE
  Sizes = {4, 8, 16}
  MaxBuckets = 8
SYMMETRY Symmetry
INVARIANTS
  TypeOK
  ProbesEnd
  GetFinds
PROPERTIES
  ResizeProgresses
  ImplementsTable
CHECK_DEADLOCK FALSE
