\* Two threads; eg_cq_dec can free the node a pop stands on.
CONSTANTS
  Size = 2
  MaxBuckets = 2
  Tags = 7
  OneThread = FALSE
  NULL = NULL
SPECIFICATION Spec
PROPERTIES
  PopRemovesHead
