SPECIFICATION FairSpec
CONSTANTS
    Account = {a1}
    Call = {c1, c2}
    Checker = {}
    Scheduler = scheduler
    MaxTrouble = 1
    Concurrent = FALSE
    ReadsMayFail = FALSE
    InstallMayFail = TRUE

PROPERTY ChecksGoOn
