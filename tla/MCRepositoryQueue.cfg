\* Two tasks, keys and requests; Workers that suit some of them, one of another
\* owner.
SPECIFICATION Spec
CONSTANTS
    NULL = NULL
    Task = {t1, t2}
    Device = {"d1"}
    Worker = {"w1", "w2"}
    DeviceOwner <- TwoOwners
    WorkerOwner <- TwoOwners
    Request <- TwoRequests
    CapabilityLists <- TwoCapabilities
    LEASE_SECONDS = 1
    MAX_ATTEMPTS = 2
    RESULT_RETENTION_SECONDS = 1
    BACKOFF <- MCBackoff
    CLAIM_LIMIT = 1
    BUSY_TIMEOUT = 0
    LastCreate = 1
    MaxTime = 2
SYMMETRY TaskSymmetry
INVARIANTS
    OneTaskPerKey
    BoundCapabilitySuits
    RunWithinOwner
PROPERTY
    ImplementsLifecycle
