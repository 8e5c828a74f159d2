SPECIFICATION FairSpec
CONSTANTS
    FdMax = 12
    RefCountMax = 2
    PidMax = 2
    MaxFds = 4
    PipeMax = 2
    PipeSize = 1
    Programs = {0}
    UserFiles = {}
    ProgramPaths <- MCUserPaths
    Ops <- PipeOps
    Success = {TRUE, FALSE}
    Paths <- AllPaths
    SharedPaths <- MCShared
    NoPath = NoPath
INVARIANTS
    PipeLifetime
    RefCountsExact
    WaitedFdsAreHeld
PROPERTIES
    OthersFdsAreStable
    ReadersAreServed
