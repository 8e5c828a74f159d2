SPECIFICATION Spec
CONSTANTS
    FdMax = 4
    RefCountMax = 2
    Paths <- MCPaths
    SharedPaths = {}
    NoPath = NoPath
    DevMax = 8
    MountMax = 2
    BootDevices <- MCBootDevices
    InitStores <- MCInitStores
    Requests <- MCRequests
    Opened <- MCOpened
    Unmounted <- MCUnmounted
    Deleted <- MCDeleted
    Created <- MCCreated
    Room <- MCRoom
    Sizes <- MCSizes
    ByteValues = 6
    Data = {1}
    Pushes <- MCPushes
    Lost = Lost
    MaxRemovals = 1
INVARIANTS TypeOK RingHoldsWhatWasSent MountedVolumesIntact
PROPERTIES ServedUntilRemoved RemountKeepsFiles OrphansHaveACause
CHECK_DEADLOCK FALSE
