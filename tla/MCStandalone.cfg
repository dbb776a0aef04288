SPECIFICATION FairSpec
CONSTANTS
    NumVertices = 4
    Niters = 3
    Source = 0
    Scale = 120
    NONE = NONE
    Leftovers = {1, 9}
    Jobs <- MCJobs
INVARIANTS StandaloneInv ForestExact ComponentsExact CountsExact
PROPERTIES ProgramEnds
CHECK_DEADLOCK FALSE
