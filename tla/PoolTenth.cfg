SPECIFICATION Spec
CONSTANTS
    Account = {a1, a2}
    Job = {j1}
    Op = {"complete"}
    Own = {2, 3, 4, 5, 6, 7, 8, 9}
    Retention = 5
    Overlap = "none"
PROPERTIES
    KeysKept
CHECK_DEADLOCK FALSE
