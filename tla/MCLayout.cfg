SPECIFICATION Spec
CONSTANTS
    DiskPageSize = 2
    OptimumStreamUnit = 8
    Word = 4096
    NumSubrequests = 2
    SubBufSize = 2
    MaxWrite = 2
    BlockSize = 2
    NONE = NONE
    FileBytes = 9
    Src <- MCSrc
    Dest <- MCDest
    Machines <- MCMachines
INVARIANTS LayoutInv IndexExact EachEdgeOnce StateStored
PROPERTIES PipelineEnds
CHECK_DEADLOCK FALSE
