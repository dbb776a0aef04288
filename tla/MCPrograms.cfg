SPECIFICATION FairSpec
CONSTANTS
    NumVertices = 4
    Root = 0
    Niters = 3
    Unit = 64000
    NONE = NONE
    CachedPartitions = 2
    Jenkins <- MCJenkins
    Jobs <- MCJobs
INVARIANTS ProgramsInv MaximalIndependent LabelsExact SumsExact
PROPERTIES ProgramEnds
CHECK_DEADLOCK FALSE
