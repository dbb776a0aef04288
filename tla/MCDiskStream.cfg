\* The stream's uses on small files: buffers of three items and pages of two, so
\* that a buffer ends inside a page as often as at its end.
SPECIFICATION FairSpec
CONSTANTS
  Kinds = {"updates", "edges", "vertices", "ingested"}
  SuperPartitionCounts = {1, 2}
  NumBuffers = 2
  BufferSize = 3
  PageSize = 2
  MaxItems = 7
  Cycles = 1
  NULL = NULL
  APPEND = APPEND
INVARIANTS StreamInv Delivered
PROPERTIES BusyBuffersHeld StreamEnds
CHECK_DEADLOCK FALSE
