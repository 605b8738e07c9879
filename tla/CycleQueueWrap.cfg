\* One thread pushes and pops; the push after eg_cq_dec can wrap the ring.
CONSTANTS
  Size = 2
  MaxBuckets = 2
  Tags = 7
  OneThread = TRUE
  NULL = NULL
SPECIFICATION Spec
INVARIANTS
  PopReturnsHead
