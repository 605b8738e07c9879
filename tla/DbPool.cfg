\* Three threads compete for two connections.
CONSTANTS
  None = None
  Thread = {t1, t2, t3}
  NumConns = 2
  MaxTry = 2
SPECIFICATION FairSpec
INVARIANTS
  Exclusive
  BusyIsHeld
  NeverOnNull
PROPERTIES
  ImplementsLease
  EveryCallReturns
\* Nothing happens after db_end or a db_init that failed.
CHECK_DEADLOCK FALSE
