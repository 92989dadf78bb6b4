SPECIFICATION Spec
CONSTANTS
    Requests = {r1, r2}
    Create = create
    MaxUsernameAttempts = 2
    ScreenshotsEnabled = FALSE
    CleanupMayFail = FALSE
    Overlap = TRUE
INVARIANT SingleOperation
CHECK_DEADLOCK FALSE
