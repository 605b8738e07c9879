\* A conn_close overtakes the main thread's allow_new_conns = false.
CONSTANTS
  NoSock = NoSock
  NumThreads = 2
  Sock = {s1, s2}
  FdLimit = 1
  ReservedFds = 1
  MaxConns = 5
  MaxConnsFast = FALSE
  MaxWriteFails = 0
  FlakyThreads = {}
SPECIFICATION FairSpec
PROPERTIES
  CloseReopens
