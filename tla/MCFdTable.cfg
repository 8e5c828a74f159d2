SPECIFICATION Spec
CONSTANTS
    FdMax = 4
    RefCountMax = 3
    excl = excl
    shared = shared
    Paths <- MCPaths
    SharedPaths <- MCShared
    NoPath = NoPath
INVARIANTS
    RefCountsAreHeld
    ExclusiveFilesOpenOnce
    OpenFilesExist
