\* One task, two Workers, every attempt; the sweep is run for ever.
SPECIFICATION FairSpec
CONSTANTS
    NULL = NULL
    Task = {t1}
    Device = {"d1"}
    Worker = {"w1", "w2"}
    DeviceOwner <- OneOwner
    WorkerOwner <- OneOwner
    Request <- OneRequest
    CapabilityLists <- OneCapability
    LEASE_SECONDS = 2
    MAX_ATTEMPTS = 3
    RESULT_RETENTION_SECONDS = 2
    BACKOFF <- MCBackoff
    CLAIM_LIMIT = 2
    BUSY_TIMEOUT = 1
    LastCreate = 1
    MaxTime = 7
INVARIANTS
    IInv
    AtMostOneLiveLease
    ResultFromLastLease
    AttemptsAreLeases
    InputWhileRunnable
PROPERTIES
    DeadlineRespected
    TerminalIsFinal
    EventuallyTerminal
    LapsedLeaseIsReleased
