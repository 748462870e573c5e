SPECIFICATION Spec
CONSTANTS
    TotalPages = 5
    PageSize = 4
    HeaderSize = 1
    Sizes <- MCSizes
INVARIANTS
    TypeOK
    BlocksDisjoint
    BitmapExact
    HeaderIntact
    NoGapBeforeFirstFree
CHECK_DEADLOCK FALSE
