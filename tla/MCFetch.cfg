CONSTANTS
    Fetches = {f1, f2, f3}
    Hosts = {h1}
    NoHost = NoHost
    max_fetchers = 2
    max_fetchers_per_host = 1
    Certs = FALSE
    NONE = NONE
SPECIFICATION Spec
SYMMETRY Symmetry
INVARIANTS TypeOK WithinLimits RingsConsistent NoFault HeldIsUsed OutcomeReported AbortedIsSilent RefcountExact
