CONSTANTS
    Urls = {a, b}
    NBlocks = 1
    limit = 3
    hysteresis = 1
    CanFail = FALSE
    Stored <- Kinds
    NONE = NONE
    MaxObjects = 3
    MaxTime = 2
    MustValidate = {}
    Sizes = {1}
    ram_limit = 3
SPECIFICATION Spec
SYMMETRY Symmetry
INVARIANTS SourceRefsExact  SourceMatches
CHECK_DEADLOCK FALSE
