SPECIFICATION Spec
CONSTANTS
    Account = {a1}
    Call = {c1, c2}
    Checker = {k1}
    Scheduler = scheduler
    MaxTrouble = 1
    Concurrent = FALSE
    ReadsMayFail = TRUE
    InstallMayFail = TRUE
INVARIANTS TypeOK NoOrphanEntry EndIsTrue OneCheck
PROPERTIES FilesLast RemovalPromise
