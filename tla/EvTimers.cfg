SPECIFICATION FairSpec
CONSTANTS
  Timers = {a, b}
  Half = 13
  MinDelay = 0
  MaxDelay = 2
  MaxBusy = 1
  MaxSignals = 2
  Misuses = TRUE
INVARIANTS
  NotTooLate
  TypeOK
  HalfRange
  WaitsForFirst
PROPERTIES
  FiresDueInOrder
  AlarmsFire
  EventsArePolled
