CONSTANTS
    Fetches = {f1, f2}
    Hosts = {h1}
    NoHost = NoHost
    max_fetchers = 1
    max_fetchers_per_host = 1
    Certs = FALSE
    NONE = NONE
SPECIFICATION FairSpec
PROPERTY EventuallyFreed
