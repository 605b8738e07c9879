\* A ring that is never extended, shared by two threads.
CONSTANTS
  Size = 4
  MaxBuckets = 0
  Tags = 5
  OneThread = FALSE
  NULL = NULL
SPECIFICATION Spec
PROPERTIES
  ImplementsFifo
