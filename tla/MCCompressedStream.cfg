CONSTANTS
  SuperPartitions = 1
  Buffers <- Appended
  BufferItems = 2
  Ratio = 3
  Scans = 1
  NULL = NULL
SPECIFICATION FairSpec
INVARIANTS ReadBack
\* The stream is read.
CHECK_DEADLOCK FALSE
