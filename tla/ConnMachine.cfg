\* A connection object, two clients.
CONSTANTS
  BufSize = 2
  MaxAllocs = 1
  LineMax = 1
  Requests = 1
  ReplyLen = 3
  Mtu = 2
  Room = 2
  MaxSent = 4
  MaxClients = 2
  MaxFails = 1
SPECIFICATION FairSpec
INVARIANTS
  AnswersInOrder
  NothingLeftWaiting
  StoppedIsArmed
  EventBounded
PROPERTIES
  EveryRequestAnswered
  ClosedAfterLeave
CHECK_DEADLOCK FALSE
