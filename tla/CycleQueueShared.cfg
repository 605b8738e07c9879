\* Pusher and popper are different threads (connection and log queues).
CONSTANTS
  Size = 2
  MaxBuckets = 2
  Tags = 7
  OneThread = FALSE
  NULL = NULL
SPECIFICATION Spec
INVARIANTS
  RingIntact
  NothingLost
  FreeNodesBlank
  BufferInUseKept
PROPERTIES
  FifoSteps
CONSTRAINT Undamaged
