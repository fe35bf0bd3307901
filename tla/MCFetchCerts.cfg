CONSTANTS
    Fetches = {f1, f2}
    Hosts = {h1}
    NoHost = NoHost
    max_fetchers = 2
    max_fetchers_per_host = 1
    Certs = TRUE
    NONE = NONE
SPECIFICATION Spec
INVARIANT NoFault
CHECK_DEADLOCK FALSE
