\* One task, and a client that waits for its end.
SPECIFICATION DeviceSpec
CONSTANTS
    NULL = NULL
    Task = {t1}
    Device = {"d1"}
    Worker = {"w1"}
    DeviceOwner <- OneOwner
    WorkerOwner <- OneOwner
    Request <- ShortRequests
    CapabilityLists <- OneCapability
    LEASE_SECONDS = 1
    MAX_ATTEMPTS = 1
    RESULT_RETENTION_SECONDS = 1
    BACKOFF <- MCBackoff
    CLAIM_LIMIT = 1
    BUSY_TIMEOUT = 0
    LastCreate = 0
    MaxTime = 1
    Http = {h1}
    MAX_DEVICE_ACTIVE = 1
    MAX_INSTANCE_ACTIVE = 2
    MaxFiles = 1
    MaxStops = 0
    Client = {k1}
    ClientDevice <- OneClient
    Rereadable = {TRUE, FALSE}
    MAX_RETRIES = 0
    WAIT_TIMEOUT = 1
    MaxCalls = 1
    Key = {key1}
PROPERTY
    EndedTaskIsReported
