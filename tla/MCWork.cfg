CONSTANTS
  Processors = 2
  MaxEmit = 3
  OutMax = 2
  Cap = 2
  NumBuffers = 2
  SuperPartitionCounts = {1, 2}
  Superp = 0
  ForceBuffers = FALSE
  NULL = NULL
SPECIFICATION FairSpec
INVARIANTS WorkInv EveryUpdateOnce
PROPERTIES WorkEnds
\* The work item is over when every thread has passed the last barrier.
CHECK_DEADLOCK FALSE
