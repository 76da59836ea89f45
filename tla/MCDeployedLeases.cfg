\* The server as it is assembled: no sweep.
SPECIFICATION DeployedSpec
CONSTANTS
    NULL = NULL
    Task = {t1}
    Device = {"d1"}
    Worker = {"w1"}
    DeviceOwner <- OneOwner
    WorkerOwner <- OneOwner
    Request <- OneRequest
    CapabilityLists <- OneCapability
    LEASE_SECONDS = 2
    MAX_ATTEMPTS = 3
    RESULT_RETENTION_SECONDS = 2
    BACKOFF <- MCBackoff
    CLAIM_LIMIT = 2
    BUSY_TIMEOUT = 1
    LastCreate = 0
    MaxTime = 5
PROPERTY
    LapsedLeaseIsReleased
