SPECIFICATION FairSpec
CONSTANTS
    Requests = {r1, r2}
    Create = create
    MaxUsernameAttempts = 2
    ScreenshotsEnabled = TRUE
    CleanupMayFail = FALSE
    Overlap = FALSE
INVARIANTS
    TypeOK
    SingleOperation
    SecretsWiped
    StoredIsReported
    HumanIsTimed
    ResourcesReleased
PROPERTIES
    TimeoutSparesWork
    LifecycleSpec
    RequestsAnswered
    OperationYields
    AbandonedFlowEnds
    ShutdownCompletes
CHECK_DEADLOCK FALSE
