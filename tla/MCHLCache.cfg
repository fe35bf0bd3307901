CONSTANTS
    Handles = {h1, h2, h3}
    LLs = {l1, l2, l3}
    Contents = {k1, k2}
    Objects = {o1, o2}
    Types = {"image", "css", "page", "unknown"}
    Aborted = {"image", "page"}
    CanFail = TRUE
    NONE = NONE
SPECIFICATION Spec
VIEW View
INVARIANTS NoFault Ownership ToldInStep  NobodyWaitsInVain
