\* Two workers log; main, once it has joined them, or a signal, at any time,
\* may stop the log thread.
CONSTANTS
  NumWorkers = 2
  Batch = 2
  MaxPending = 3
  MaxSem = 2
SPECIFICATION FairSpec
INVARIANTS
  TypeOK
  NoneStranded
  DrainedOrSignalled
  StopDrains
PROPERTIES
  EveryQueueServed
  StopEnds
CHECK_DEADLOCK FALSE
