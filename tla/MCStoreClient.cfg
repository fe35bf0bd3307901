CONSTANTS
    Urls = {page, image}
    page = page
    image = image
    NBlocks = 1
    limit = 2
    hysteresis = 1
    CanFail = FALSE
    Stored <- Kinds
    NONE = NONE
    Sizes <- PageAndImage
    Quits = "quiet"
    Grows = FALSE
    MaxHeld <- DataTwice
SPECIFICATION Spec
INVARIANTS RefsExact BlocksOwned AllocExact FetchedIsLatest QuietIsSafe
VIEW View
