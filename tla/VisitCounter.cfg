SPECIFICATION FairSpec
CONSTANTS
  Threads = {t1, t2, t3}
  BUMPS = 3
  Free = Free
  MaxCrashes = 1
INVARIANTS
  TypeOK
  RetriesAreEarned
PROPERTIES
  ImplementsCounter
  EveryWorkerEnds
CHECK_DEADLOCK FALSE
