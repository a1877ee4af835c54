SPECIFICATION Spec
CONSTANTS
  Timers = {a, b}
  Half = 10
  MinDelay = 1
  MaxDelay = 2
  MaxBusy = 1
  MaxSignals = 1
  Misuses = TRUE
PROPERTIES
  StopsOnlyItself
