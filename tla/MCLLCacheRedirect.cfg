CONSTANTS
    Objects = {o1, o2}
    Users = {u1, u2}
    Urls = {a, b}
    MaxLen = 1
    MaxCandidates = 2
    Responses <- Validated
    fetch_attempts = 1
    fetch_redirect_limit = 0
    Messages = {"FINISHED", "REDIRECT"}
    Operations = {"retrieve", "release", "abort", "clone", "force_stream"}
    Modes = {"get", "post"}
    Returns = {"ok", "error", "need_data"}
    CanFail = TRUE
    NONE = NONE
SPECIFICATION Spec
SYMMETRY Symmetry
VIEW View
INVARIANTS UsersConsistent RedirectsBounded
CHECK_DEADLOCK FALSE
