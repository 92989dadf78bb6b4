SPECIFICATION Spec
CONSTANTS
    Requests = {r1, r2}
    Create = create
    MaxUsernameAttempts = 2
    ScreenshotsEnabled = TRUE
    CleanupMayFail = TRUE
    Overlap = TRUE
SYMMETRY Symmetry
INVARIANTS
    DoneIsStored
PROPERTIES
    TerminalIsFinal
    AccountIsKept
CHECK_DEADLOCK FALSE
