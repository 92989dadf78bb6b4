SPECIFICATION Spec
CONSTANTS
    Account = {a1, a2}
    Job = {j1, j2}
    Op = {"complete", "import", "apply", "remove", "repair"}
    Own = {2}
    Retention = 5
    Overlap = "none"
SYMMETRY Symmetry
INVARIANTS
    TypeOK
    InStep
    WaitingAbove
PROPERTIES
    KeysKept
CHECK_DEADLOCK FALSE
