CONSTANTS
    Starts <- MCStarts
    EnvData <- MCEnvData
    RamLens = {0, 4}
    Rooms = {8, 40}
    Fills = {0, 192}
    MaxSteps = 3
SPECIFICATION Spec
INVARIANTS EncodingRoundTrips EmulatorAgrees PrefetchIsFresh
CHECK_DEADLOCK FALSE
