SPECIFICATION Spec
CONSTANTS
    Ids = {0, 1}
    Pins = {1, 2, 3, 4, 5}
    ReservedPins = {5}
    Requests <- MCRequests
    Mounts = {m, n}
    NoPath = NoPath
    NumBlocks = 2
    BlockSize = 2
    Touched = {1, 2}
    Values = {0, 1}
    Keys <- MCKeys
    RingSize = 2
    MaxLen = 2
    MaxIo = 4
INVARIANTS TypeOK PinsHeldByDevices PoweredWhileUsed WrittenIsKept
CHECK_DEADLOCK FALSE
