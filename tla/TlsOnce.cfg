SPECIFICATION FairSpec
CONSTANTS
  Threads = {t1, t2, t3}
INVARIANTS
  TypeOK
  KeyIsVisible
  OneCreator
PROPERTIES
  CallsReturn
\* After abort() nothing happens any more.
CHECK_DEADLOCK FALSE
