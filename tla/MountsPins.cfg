SPECIFICATION Spec
CONSTANTS
    FdMax = 4
    RefCountMax = 2
    Paths <- PinPaths
    SharedPaths = {}
    NoPath = NoPath
    DevMax = 10
    MountMax = 2
    BootDevices <- PinDevices
    InitStores <- MCInitStores
    Requests <- MCRequests
    Opened <- PinOpened
    Unmounted <- MCUnmounted
    Deleted <- MCDeleted
    Created <- MCCreated
    Room <- MCRoom
    Sizes <- MCSizes
    ByteValues = 6
    Data = {1}
    Pushes <- MCPushes
    Lost = Lost
    MaxRemovals = 1
INVARIANT OpenFilesAreServed
CHECK_DEADLOCK FALSE
