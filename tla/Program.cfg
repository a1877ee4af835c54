SPECIFICATION MCFairSpec
CONSTANTS
  N = 3
  Half = 7
  MinDelay = 1
  MaxDelay = 2
  MaxBusy = 0
  MaxSignals = 1
  MaxNaps = 3
  StopsAlarms = TRUE
INVARIANTS
  TypeOK
  AlarmsWakeSleepers
  NeverIdle
  SleepersInTime
PROPERTIES
  KeepsThreadRules
  Terminates
