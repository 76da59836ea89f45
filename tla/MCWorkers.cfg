\* Two Workers, one task, one request under way, one crash.
SPECIFICATION WorkerFairSpec
CONSTANTS
    NULL = NULL
    Task = {t1}
    Device = {"d1"}
    Worker = {"w1", "w2"}
    DeviceOwner <- OneOwner
    WorkerOwner <- OneOwner
    Request <- ShortRequest
    CapabilityLists <- OneCapability
    LEASE_SECONDS = 1
    MAX_ATTEMPTS = 2
    RESULT_RETENTION_SECONDS = 1
    BACKOFF <- MCBackoff
    CLAIM_LIMIT = 1
    BUSY_TIMEOUT = 0
    LastCreate = 0
    MaxTime = 2
    MaxLate = 1
    MaxCrashes = 1
INVARIANTS
    WorkerIInv
    SucceededMeansStored
    OnlyAbortedKeepsLease
    ChildOnlyWhileExecuting
PROPERTY
    OnlyHalfAnswerHangs
