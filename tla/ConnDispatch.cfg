\* Two workers, three clients, descriptors for two of them.
CONSTANTS
  NoSock = NoSock
  NumThreads = 2
  Sock = {s1, s2, s3}
  FdLimit = 2
  ReservedFds = 1
  MaxConns = 4
  MaxConnsFast = TRUE
  MaxWriteFails = 1
  FlakyThreads = {0}
SPECIFICATION FairSpec
INVARIANTS
  EveryItemAnnounced
  CurrConnsExact
  QueuedOnce
  PollsUntilListening
PROPERTIES
  EverySocketServed
  ResumesWhenAllowed
