SPECIFICATION Spec
CONSTANTS
    FdMax = 8
    RefCountMax = 2
    PidMax = 2
    MaxFds = 3
    PipeMax = 1
    PipeSize = 1
    Programs = {0}
    UserFiles = {0}
    ProgramPaths <- MCUserPaths
    Ops <- ExecOps
    Success = {TRUE, FALSE}
    Paths <- AllPaths
    SharedPaths <- MCShared
    NoPath = NoPath
INVARIANTS
    PrivateFiles
    DeadLeaveNothingUnlessStale
