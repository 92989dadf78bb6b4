SPECIFICATION FairSpec
CONSTANTS
    Process = {p1, p2}
    Password = {w1, w2}
    Salt = {s1, s2}
    Account = {a1}
    LastVersion = 2
    PendingSince = 2
    MaxTrouble = 1
INVARIANTS TypeOK OneKey OpenMeansKey SchemaSound OneTable
PROPERTY NoLockout
