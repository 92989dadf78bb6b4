SPECIFICATION Spec
CONSTANTS
    Account = {a1}
    Call = {c1, c2}
    Checker = {}
    Scheduler = scheduler
    MaxTrouble = 1
    Concurrent = TRUE
    ReadsMayFail = FALSE
    InstallMayFail = FALSE

PROPERTY IntentFirst
