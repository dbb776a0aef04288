CONSTANTS
  Inputs <- Small
  BlockSize = 2
  Blocks = 2
  StmBlocks = 2
  KMerge = 2
  Merges = 2
  MaxFiles = 7
  SplitPreempted = FALSE
  ClosePreempted = FALSE
  NULL = NULL
SPECIFICATION FairSpec
INVARIANTS SortInv
PROPERTIES SortEnds
\* The sort ends.
CHECK_DEADLOCK FALSE
