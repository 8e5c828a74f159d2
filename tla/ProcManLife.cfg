SPECIFICATION FairSpec
CONSTANTS
    FdMax = 10
    RefCountMax = 8
    PidMax = 3
    MaxFds = 3
    PipeMax = 1
    PipeSize = 1
    Programs = {0}
    UserFiles = {}
    ProgramPaths <- MCUserPaths
    Ops <- LifeOps
    Success = {TRUE}
    Paths <- AllPaths
    SharedPaths <- MCShared
    NoPath = NoPath
INVARIANTS
    TypeOK
    WaitersHaveTargets
PROPERTIES
    WaitpidTruthful
    TimedWaitsEnd
