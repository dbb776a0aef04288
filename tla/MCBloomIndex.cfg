CONSTANTS
    Sources = {0, 1, 2}
    TOMBSTONE = TOMBSTONE
    SuperPartitionCounts = {1, 2}
    EdgesPerPage = 2
    SimdLen = 2
    EdgeBytes = 8
    IdBits = 3
    Bits = {0, 1, 2}
    Hash <- MCHash
    MaxEdges = 5
    MaxDeletes = 1
    Wrap = 1000
SPECIFICATION Spec
INVARIANTS IndexInv NoPageMissed UpdateIsRebuild
