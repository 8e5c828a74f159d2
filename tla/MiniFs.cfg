SPECIFICATION Spec
CONSTANTS
    a = a
    b = b
    c = c
    Names <- MCNames
    HeaderLen <- MCHeaderLen
    Values = {0, 1}
    Factor = 2
    TotalUnits = 5
    MaxFiles = 3
    SizeWidth = 8
    LenWidth = 64
    MaxRequest = 2
    Erased = 0
INVARIANTS
    TypeOK
    RegionsDisjoint
    ContentsFit
    FreeRunIsFound
    ResortSorts
PROPERTY
    StoreSpec
SYMMETRY NameSymmetry
