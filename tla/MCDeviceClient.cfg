\* Two requests in flight, one of them perhaps of the SDK, two tasks, a stop.  The
\* input is a stream: what an SDK that can send it again would do, a request
\* beside it does.
SPECIFICATION DeviceSpec
CONSTANTS
    NULL = NULL
    Task = {t1, t2}
    Device = {"d1"}
    Worker = {"w1"}
    DeviceOwner <- OneOwner
    WorkerOwner <- OneOwner
    Request <- ShortRequests
    CapabilityLists <- OneCapability
    LEASE_SECONDS = 1
    MAX_ATTEMPTS = 1
    RESULT_RETENTION_SECONDS = 1
    BACKOFF <- MCBackoff
    CLAIM_LIMIT = 1
    BUSY_TIMEOUT = 0
    LastCreate = 0
    MaxTime = 1
    Http = {h1, h2}
    MAX_DEVICE_ACTIVE = 2
    MAX_INSTANCE_ACTIVE = 1
    MaxFiles = 2
    MaxStops = 1
    Client = {k1}
    ClientDevice <- OneClient
    Rereadable = {FALSE}
    MAX_RETRIES = 1
    WAIT_TIMEOUT = 1
    MaxCalls = 1
    Key = {key1, key2}
SYMMETRY ControlSymmetry
INVARIANTS
    ControlIInv
    RowHasFile
    QuotaOvershoot
    InstanceOvershoot
    OutcomeIsTrue
    ClientIInv
PROPERTIES
    InputIsImmutable
    OnlyUnstoredUploadsLeak
