CONSTANTS
    Objects = {o1, o2}
    Users = {u1, u2}
    Urls = {a}
    MaxLen = 1
    MaxCandidates = 1
    Responses <- Validated
    fetch_attempts = 1
    fetch_redirect_limit = 0
    Messages = {"HEADER", "DATA", "FINISHED", "NOTMODIFIED"}
    Operations = {"retrieve", "release", "invalidate"}
    Modes = {"get"}
    Returns = {"ok"}
    CanFail = FALSE
    NONE = NONE
SPECIFICATION FairSpec
INVARIANTS CandidatesExist
PROPERTIES NoneLeftBehind
CHECK_DEADLOCK FALSE
