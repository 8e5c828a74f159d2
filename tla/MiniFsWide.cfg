SPECIFICATION Spec
CONSTANTS
    a = a
    b = b
    c = c
    Names <- MCNames
    HeaderLen <- MCHeaderLen
    Values = {0, 1}
    Factor = 2
    TotalUnits = 4
    MaxFiles = 3
    SizeWidth = 5
    LenWidth = 64
    MaxRequest = 9
    Erased = 0
INVARIANT ContentsFit
