CONSTANTS
    Objects = {o1, o2}
    Users = {u1, u2}
    Urls = {a}
    MaxLen = 1
    MaxCandidates = 2
    Responses <- Reusable
    fetch_attempts = 2
    fetch_redirect_limit = 0
    Messages = {"HEADER", "ERROR", "TIMEDOUT", "AUTH", "CERTS", "CERT_ERR", "UNASKED_304", "FINISHED", "NOTMODIFIED"}
    Operations = {"retrieve"}
    Modes = {"get", "force"}
    Returns = {"ok"}
    CanFail = TRUE
    NONE = NONE
SPECIFICATION Spec
SYMMETRY Symmetry
VIEW View
INVARIANTS TypeOK CaughtUp
CHECK_DEADLOCK FALSE
