\* A descriptor is freed by thread_libevent_process, not by conn_close.
CONSTANTS
  NoSock = NoSock
  NumThreads = 2
  Sock = {s1, s2}
  FdLimit = 1
  ReservedFds = 1
  MaxConns = 5
  MaxConnsFast = FALSE
  MaxWriteFails = 0
  FlakyThreads = {}
SPECIFICATION FairSpec
PROPERTIES
  ListensAgain
