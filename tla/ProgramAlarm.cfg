SPECIFICATION MCSpec
CONSTANTS
  N = 2
  Half = 5
  MinDelay = 1
  MaxDelay = 2
  MaxBusy = 0
  MaxSignals = 0
  MaxNaps = 2
  StopsAlarms = FALSE
INVARIANTS
  JoinAssertion
