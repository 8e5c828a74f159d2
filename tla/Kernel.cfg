SPECIFICATION FairSpec
CONSTANTS
    PidMax = 3
    Timeout = 2
INVARIANTS
    EveryoneIsAsked
    OnlyInitIsLeft
PROPERTIES
    NobodyKilledEarly
    ShutdownEnds
