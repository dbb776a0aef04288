SPECIFICATION FairSpec
CONSTANTS
  NumVertices = 4
  CachedPartitions = 2
  Processors = 1
  Root = 0
  BufferPages = 1
  VertexSize = 2
  BlockSize = 3
  MaxEdges = 4
  Settings <- Both
  TOMBSTONE = TOMBSTONE
  NONE = NONE
INVARIANTS DriverInv
PROPERTIES StoreComplete SearchEnds ImplementsBFS
CHECK_DEADLOCK FALSE
