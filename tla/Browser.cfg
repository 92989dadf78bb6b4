SPECIFICATION FairSpec
CONSTANTS
    Flow = {f1}
    Mailbox = {m1}
    Removal = {r1}
    Check = {}
    Scheduler = scheduler
    None = None
    MaxTrouble = 1
    MaxSweep = 1
INVARIANTS TypeOK OneOfEach ShutdownIsOrdered
PROPERTY Answered
