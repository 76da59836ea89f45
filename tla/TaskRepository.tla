--------------------------- MODULE TaskRepository ---------------------------
(***************************************************************************)
(* The task queue of the control plane: server/repository.py over the      *)
(* tasks and artifacts tables of SQLite.                                   *)
(*                                                                         *)
(* Every method is one BEGIN IMMEDIATE transaction, so it is one action.   *)
(* The one thing a method does outside its transaction is to read the      *)
(* clock: it samples n first and may then wait up to BUSY_TIMEOUT for the  *)
(* write lock, so n can be older than the commit and the samples of two    *)
(* methods can commit in the opposite order.                               *)
(*                                                                         *)
(* A Worker may lose an answer, repeat a call or come back long after its  *)
(* lease lapsed: leases keeps every lease ever handed out, and any of them *)
(* can be presented again at any time.  A Worker crash is a Worker that    *)
(* takes no more steps; a server crash loses nothing, because no state     *)
(* outside the database survives a method.                                 *)
(*                                                                         *)
(* Left out: updated_at, task_events and workers.last_seen_at, which are   *)
(* written here and never read by these methods; result_available, which   *)
(* is set together with result_json.                                       *)
(***************************************************************************)
EXTENDS Integers, FiniteSets, CapabilityMatching

CONSTANTS
    Task,                       \* the uuids rows may be inserted under
    Device, DeviceOwner,        \* devices and the owner of each
    Worker, WorkerOwner,        \* workers and the owner of each
    Request,                    \* the envelopes devices may post
    CapabilityLists,            \* the manifests workers may register
    LEASE_SECONDS, MAX_ATTEMPTS, RESULT_RETENTION_SECONDS,
    BACKOFF,                    \* the three delays of _backoff
    CLAIM_LIMIT,                \* LIMIT of the query of claim_next
    BUSY_TIMEOUT,               \* how long a method may wait for the lock
    LastCreate, MaxTime         \* bounds: last creation, end of the clock

Owner == {DeviceOwner[d] : d \in Device}
Capability == UNION {{list[i] : i \in DOMAIN list} : list \in CapabilityLists}
CapabilityId == {c.capability_id : c \in Capability}

ASSUME NumberAssumption ==
    /\ LEASE_SECONDS \in Nat \ {0}
    /\ MAX_ATTEMPTS \in Nat \ {0}
    /\ RESULT_RETENTION_SECONDS \in Nat
    /\ BACKOFF \in [1..3 -> Nat]
    /\ CLAIM_LIMIT \in Nat \ {0}
    /\ BUSY_TIMEOUT \in Nat
    /\ LastCreate \in Nat
    /\ MaxTime \in Nat

ASSUME RequestAssumption == \A r \in Request : r.ttl_seconds \in Nat \ {0}

ASSUME NullAssumption ==
    /\ NULL \notin Worker
    /\ NULL \notin Nat
    /\ NULL \notin [sha256 : Nat]
    /\ NULL \notin [worker : Worker, generation : Nat]

VARIABLES
    now,        \* the server's clock
    tasks,      \* the tasks table; a row that was never inserted is Blank
    inputs,     \* the tasks that have an input row in the artifacts table
    leases,     \* every lease claim_next ever returned
    tokens      \* how many lease tokens were drawn

vars == <<now, tasks, inputs, leases, tokens>>

-----------------------------------------------------------------------------
(* Rows and values *)

Terminal == {"succeeded", "failed", "expired", "canceled"}
Held     == {"leased", "running"}
Status   == {"absent", "uploading", "queued"} \cup Held \cup Terminal

\* A JSON error is told apart by the fields it has: the Worker sends a whole
\* ErrorEnvelope, the repository itself writes {"code": ...}.
EnvelopeFields == {"code", "message", "retryable", "request_id"}
BareError      == {"code"}

\* A result is told apart by the execution that computed it.
Result == [worker : Worker, generation : Nat]

\* SHA-256 of a token and of a canonical request: an injection.
hash_token(token) == [sha256 |-> token]
canonical_json_digest(request) == [sha256 |-> request]

Row == [device : Device \cup {NULL}, request : Request \cup {NULL},
        status : Status, created_at : Nat, expires_at : Nat,
        execution_deadline : Nat, attempt : Nat, next_attempt_at : Nat,
        lease_owner : Worker \cup {NULL}, lease_generation : Nat,
        lease_token_hash : [sha256 : Nat] \cup {NULL},
        lease_until : Nat \cup {NULL},
        bound_capability_id : CapabilityId \cup {NULL},
        error_json : {NULL, EnvelopeFields, BareError},
        result_json : Result \cup {NULL}, result_expires_at : Nat \cup {NULL}]

Blank == [device |-> NULL, request |-> NULL, status |-> "absent",
          created_at |-> 0, expires_at |-> 0, execution_deadline |-> 0,
          attempt |-> 0, next_attempt_at |-> 0,
          lease_owner |-> NULL, lease_generation |-> 0,
          lease_token_hash |-> NULL, lease_until |-> NULL,
          bound_capability_id |-> NULL, error_json |-> NULL,
          result_json |-> NULL, result_expires_at |-> NULL]

Lease == [task_id : Task, worker_id : Worker, lease_generation : Nat,
          lease_token : Nat, issued_at : Nat]

exists(t) == tasks[t].status # "absent"
owner(t)  == DeviceOwner[tasks[t].device]

\* The values of the clock a method that commits now may have read.
Samples == {n \in 0..now : now <= n + BUSY_TIMEOUT}

backoff(attempt) ==
    BACKOFF[IF attempt <= 1 THEN 1 ELSE IF attempt = 2 THEN 2 ELSE 3]

\* Slip: the lease is not cut at the deadline.
LeaseEnd_Uncut(row, n) == n + LEASE_SECONDS

LeaseEnd(row, n) ==
    IF n + LEASE_SECONDS <= row.execution_deadline
    THEN n + LEASE_SECONDS
    ELSE row.execution_deadline

-----------------------------------------------------------------------------
(* Device operations *)

Inserted(device, envelope, n) ==
    [Blank EXCEPT !.device = device, !.request = envelope,
                  !.status = "uploading", !.created_at = n,
                  !.expires_at = n + envelope.ttl_seconds,
                  !.execution_deadline = n + envelope.ttl_seconds,
                  !.next_attempt_at = n]

\* Slip: only keys of unfinished tasks are looked up.
SameKey_Unfinished(device, envelope) ==
    {t \in Task : /\ tasks[t].status \notin Terminal \cup {"absent"}
                  /\ tasks[t].device = device
                  /\ tasks[t].request.idempotency_key = envelope.idempotency_key}

SameKey(device, envelope) ==
    {t \in Task : /\ exists(t)
                  /\ tasks[t].device = device
                  /\ tasks[t].request.idempotency_key = envelope.idempotency_key}

\* A key already in use answers with its row, or with a conflict when the
\* digests differ; either way nothing is written.
create_uploading(device, envelope, n) ==
    \/ SameKey(device, envelope) # {} /\ UNCHANGED vars
    \/ /\ SameKey(device, envelope) = {}
       /\ n <= LastCreate
       /\ \E t \in Task :
             /\ ~exists(t)
             /\ tasks' = [tasks EXCEPT ![t] = Inserted(device, envelope, n)]
       /\ UNCHANGED <<now, inputs, leases, tokens>>

\* Slip: a repeated upload is not recognised.
finalize_and_enqueue_AnyStatus(t, request_digest, n) ==
    /\ exists(t)
    /\ canonical_json_digest(tasks[t].request) = request_digest
    /\ tasks[t].expires_at > n
    /\ tasks' = [tasks EXCEPT ![t].status = "queued"]
    /\ inputs' = inputs \cup {t}
    /\ UNCHANGED <<now, leases, tokens>>

\* An unknown task, a wrong digest and a task that is not uploading any more
\* are answered without a write; a task past its expiry is closed instead.
finalize_and_enqueue(t, request_digest, n) ==
    LET row == tasks[t]
        accepted == /\ row.status = "uploading"
                    /\ canonical_json_digest(row.request) = request_digest
    IN  \/ ~accepted /\ UNCHANGED vars
        \/ /\ accepted
           /\ row.expires_at <= n
           /\ tasks' = [tasks EXCEPT ![t].status = "expired"]
           /\ UNCHANGED <<now, inputs, leases, tokens>>
        \/ /\ accepted
           /\ row.expires_at > n
           /\ tasks' = [tasks EXCEPT ![t].status = "queued"]
           /\ inputs' = inputs \cup {t}
           /\ UNCHANGED <<now, leases, tokens>>

\* Slip: the token stays in the freed row.
Unleased_KeepsToken(row, status) ==
    [row EXCEPT !.status = status, !.lease_owner = NULL, !.lease_until = NULL]

Unleased(row, status) ==
    [row EXCEPT !.status = status, !.lease_owner = NULL,
                !.lease_token_hash = NULL, !.lease_until = NULL]

\* Slip: a finished task can be canceled.
cancel_Finished(owner_id, t) ==
    /\ exists(t) /\ owner(t) = owner_id
    /\ tasks' = [tasks EXCEPT ![t] = Unleased(@, "canceled")]
    /\ UNCHANGED <<now, inputs, leases, tokens>>

cancel(owner_id, t) ==
    LET cancelable == exists(t) /\ owner(t) = owner_id /\ tasks[t].status \notin Terminal
    IN  \/ ~cancelable /\ UNCHANGED vars
        \/ /\ cancelable
           /\ tasks' = [tasks EXCEPT ![t] = Unleased(@, "canceled")]
           /\ UNCHANGED <<now, inputs, leases, tokens>>

-----------------------------------------------------------------------------
(* Worker operations *)

\* Slip: the expiry is left to the sweep.
Due_Expired(n) == {t \in Task : /\ tasks[t].status = "queued"
                                /\ tasks[t].next_attempt_at <= n}

Due(n) == {t \in Task : /\ tasks[t].status = "queued"
                        /\ tasks[t].next_attempt_at <= n
                        /\ tasks[t].expires_at > n}

\* What ORDER BY created_at LIMIT CLAIM_LIMIT may return of the due rows.
Windows(n) ==
    {W \in SUBSET Due(n) :
        /\ Cardinality(W) <= CLAIM_LIMIT
        /\ W = Due(n) \/ Cardinality(W) = CLAIM_LIMIT
        /\ \A t \in W, u \in Due(n) \ W :
              tasks[t].created_at <= tasks[u].created_at}

Fitting(W, capabilities) == {t \in W : Matches(tasks[t].request, capabilities)}

Leased(row, worker, token, capability, n) ==
    [row EXCEPT !.status = "leased", !.attempt = @ + 1,
                !.lease_owner = worker, !.lease_generation = @ + 1,
                !.lease_token_hash = hash_token(token),
                !.lease_until = LeaseEnd(row, n),
                !.bound_capability_id = capability.capability_id]

Grant(t, worker, capability, n) ==
    /\ tokens' = tokens + 1
    /\ tasks' = [tasks EXCEPT ![t] = Leased(@, worker, tokens', capability, n)]
    /\ leases' = leases \cup {[task_id |-> t, worker_id |-> worker,
                               lease_generation |-> tasks[t].lease_generation + 1,
                               lease_token |-> tokens', issued_at |-> now]}
    /\ UNCHANGED <<now, inputs>>

\* The query has no condition on the owner: a Worker is offered the tasks of
\* every owner.
claim_next(worker, capabilities, n) ==
    \E W \in Windows(n) :
        \/ Fitting(W, capabilities) = {} /\ UNCHANGED vars
        \/ \E t \in Fitting(W, capabilities), i \in DOMAIN capabilities :
              /\ \A u \in Fitting(W, capabilities) :
                    tasks[t].created_at <= tasks[u].created_at
              /\ IsMatch(tasks[t].request, capabilities, i)
              /\ Grant(t, worker, capabilities[i], n)

\* Slip: a lease is known by its Worker alone.
check_lease_ByWorker(lease, n) ==
    LET row == tasks[lease.task_id]
    IN  /\ row.lease_owner = lease.worker_id
        /\ row.status \in Held
        /\ row.lease_until # NULL
        /\ row.lease_until > n
        /\ row.execution_deadline > n

\* Slip: the owner of the caller is not compared.
check_lease_AnyOwner(lease, n) ==
    LET row == tasks[lease.task_id]
    IN  /\ row.lease_owner = lease.worker_id
        /\ row.lease_generation = lease.lease_generation
        /\ row.lease_token_hash = hash_token(lease.lease_token)
        /\ row.status \in Held
        /\ row.lease_until # NULL
        /\ row.lease_until > n
        /\ row.execution_deadline > n

\* The HTTP layer fills in the owner of the Worker that calls, not the owner
\* recorded in the lease.
check_lease(lease, n) ==
    LET row == tasks[lease.task_id]
    IN  /\ owner(lease.task_id) = WorkerOwner[lease.worker_id]
        /\ row.lease_owner = lease.worker_id
        /\ row.lease_generation = lease.lease_generation
        /\ row.lease_token_hash = hash_token(lease.lease_token)
        /\ row.status \in Held
        /\ row.lease_until # NULL
        /\ row.lease_until > n
        /\ row.execution_deadline > n

\* A refused lease raises, and the transaction is rolled back.
Refuse(lease, n) == ~check_lease(lease, n) /\ UNCHANGED vars

Started(row, n)     == [row EXCEPT !.status = "running", !.lease_until = LeaseEnd(row, n)]
Heartbeaten(row, n) == [row EXCEPT !.lease_until = LeaseEnd(row, n)]

\* Slip: one attempt too many.
should_retry_OneMore(row, retryable, n) ==
    retryable /\ row.attempt <= MAX_ATTEMPTS /\ row.expires_at > n

should_retry(row, retryable, n) ==
    retryable /\ row.attempt < MAX_ATTEMPTS /\ row.expires_at > n

Failed(row, retryable, n) ==
    IF should_retry(row, retryable, n)
    THEN [Unleased(row, "queued") EXCEPT !.next_attempt_at = n + backoff(row.attempt),
                                         !.error_json = EnvelopeFields]
    ELSE [Unleased(row, "failed") EXCEPT !.next_attempt_at = n,
                                         !.error_json = EnvelopeFields]

Succeeded(row, lease, n) ==
    [Unleased(row, "succeeded") EXCEPT
        !.result_json = [worker |-> lease.worker_id, generation |-> lease.lease_generation],
        !.result_expires_at = n + RESULT_RETENTION_SECONDS]

start(lease, n) ==
    \/ Refuse(lease, n)
    \/ /\ check_lease(lease, n)
       /\ tasks' = [tasks EXCEPT ![lease.task_id] = Started(@, n)]
       /\ UNCHANGED <<now, inputs, leases, tokens>>

heartbeat(lease, n) ==
    \/ Refuse(lease, n)
    \/ /\ check_lease(lease, n)
       /\ tasks' = [tasks EXCEPT ![lease.task_id] = Heartbeaten(@, n)]
       /\ UNCHANGED <<now, inputs, leases, tokens>>

fail(lease, retryable, n) ==
    \/ Refuse(lease, n)
    \/ /\ check_lease(lease, n)
       /\ tasks' = [tasks EXCEPT ![lease.task_id] = Failed(@, retryable, n)]
       /\ UNCHANGED <<now, inputs, leases, tokens>>

\* Slip: whoever holds the task, the result is stored.
publish_result_AnyLease(lease, n) ==
    /\ tasks[lease.task_id].status \in Held
    /\ tasks' = [tasks EXCEPT ![lease.task_id] = Succeeded(@, lease, n)]
    /\ UNCHANGED <<now, inputs, leases, tokens>>

publish_result(lease, n) ==
    \/ Refuse(lease, n)
    \/ /\ check_lease(lease, n)
       /\ tasks' = [tasks EXCEPT ![lease.task_id] = Succeeded(@, lease, n)]
       /\ UNCHANGED <<now, inputs, leases, tokens>>

\* Slip: the input goes although the task may run again.
remove_input_artifacts_AnyStatus(owner_id, t) ==
    /\ exists(t) /\ owner(t) = owner_id
    /\ inputs' = inputs \ {t}
    /\ UNCHANGED <<now, tasks, leases, tokens>>

remove_input_artifacts(owner_id, t) ==
    LET removable == exists(t) /\ owner(t) = owner_id /\ tasks[t].status = "succeeded"
    IN  \/ ~removable /\ UNCHANGED vars
        \/ removable /\ inputs' = inputs \ {t} /\ UNCHANGED <<now, tasks, leases, tokens>>

-----------------------------------------------------------------------------
(* Maintenance *)

Lapsed(row, n) == row.status \in Held /\ row.lease_until # NULL /\ row.lease_until <= n

\* Slip: uploads that never arrived are left open.
Swept_QueuedOnly(row, n) ==
    CASE row.status = "queued" /\ row.expires_at <= n -> [row EXCEPT !.status = "expired"]
      [] Lapsed(row, n) -> [Unleased(row, "failed") EXCEPT !.error_json = BareError]
      [] OTHER -> row

\* Slip: a Worker that crashed before start is overlooked.
Swept_RunningOnly(row, n) ==
    CASE row.status \in {"uploading", "queued"} /\ row.expires_at <= n ->
            [row EXCEPT !.status = "expired"]
      [] Lapsed(row, n) /\ row.status = "running" ->
            [Unleased(row, "failed") EXCEPT !.error_json = BareError]
      [] OTHER -> row

Swept(row, n) ==
    CASE row.status \in {"uploading", "queued"} /\ row.expires_at <= n ->
            [row EXCEPT !.status = "expired"]
      [] Lapsed(row, n) /\ row.expires_at > n /\ row.attempt < MAX_ATTEMPTS ->
            [Unleased(row, "queued") EXCEPT !.next_attempt_at = n]
      [] Lapsed(row, n) /\ ~(row.expires_at > n /\ row.attempt < MAX_ATTEMPTS) ->
            [Unleased(row, "failed") EXCEPT !.error_json = BareError]
      [] OTHER -> row

requeue_expired(n) ==
    /\ tasks' = [t \in Task |-> Swept(tasks[t], n)]
    /\ UNCHANGED <<now, inputs, leases, tokens>>

Tick == /\ now < MaxTime
        /\ now' = now + 1
        /\ UNCHANGED <<tasks, inputs, leases, tokens>>

-----------------------------------------------------------------------------
(* The specification *)

Init == /\ now = 0
        /\ tasks = [t \in Task |-> Blank]
        /\ inputs = {}
        /\ leases = {}
        /\ tokens = 0

DeviceStep(n) ==
    \/ \E d \in Device, e \in Request : create_uploading(d, e, n)
    \/ \E t \in Task, e \in Request :
          finalize_and_enqueue(t, canonical_json_digest(e), n)
    \/ \E o \in Owner, t \in Task : cancel(o, t)

Claim(n) == \E w \in Worker, list \in CapabilityLists : claim_next(w, list, n)

LeaseStep(n) ==
    \E lease \in leases :
        /\ n >= lease.issued_at
        /\ \/ start(lease, n)
           \/ heartbeat(lease, n)
           \/ \E retryable \in BOOLEAN : fail(lease, retryable, n)
           \/ publish_result(lease, n)

\* What the routes of the server do.
ServeNext ==
    \/ \E n \in Samples : DeviceStep(n) \/ Claim(n) \/ LeaseStep(n)
    \/ \E o \in Owner, t \in Task : remove_input_artifacts(o, t)

Sweep == \E n \in Samples : requeue_expired(n)

Next == ServeNext \/ Sweep \/ Tick

Spec == Init /\ [][Next]_vars

\* The clock never stops and the sweep is run for ever.  Nothing is assumed
\* of devices and Workers: they may stop at any point.
FairSpec == Spec /\ WF_vars(Tick) /\ WF_vars(Sweep)

\* The server as create_app assembles it: no caller of requeue_expired.
\* Workers keep polling.
DeployedSpec ==
    /\ Init
    /\ [][ServeNext \/ Tick]_vars
    /\ WF_vars(Tick)
    /\ WF_vars(\E n \in Samples : Claim(n))
-----------------------------------------------------------------------------
(* Properties *)

\* Every row, lease and counter keeps its type (the columns of the tasks
\* table, the fields of the Lease dataclass).
TypeOK ==
    /\ now \in Nat
    /\ tasks \in [Task -> Row]
    /\ inputs \subseteq Task
    /\ leases \subseteq Lease
    /\ tokens \in Nat

Of(t) == {lease \in leases : lease.task_id = t}

\* Whatever the clock samples, _check_lease lets at most one of the leases
\* handed out for a task through: a Worker whose lease was requeued, failed,
\* canceled or claimed again can neither renew nor publish.
AtMostOneLiveLease ==
    \A l1, l2 \in leases : \A n1, n2 \in Samples :
        /\ l1.task_id = l2.task_id
        /\ check_lease(l1, n1)
        /\ check_lease(l2, n2)
        => l1 = l2

\* A stored result was computed under the last lease granted for the task:
\* a late Worker never publishes over a newer execution.
ResultFromLastLease ==
    \A t \in Task : tasks[t].result_json # NULL =>
        \E lease \in Of(t) :
            /\ tasks[t].result_json = [worker |-> lease.worker_id,
                                       generation |-> lease.lease_generation]
            /\ \A l \in Of(t) : l.lease_generation <= lease.lease_generation

\* Each attempt is one lease: the generations of a task's leases are exactly
\* 1..attempt, none was granted twice, and there are at most MAX_ATTEMPTS,
\* whether attempts end by fail, by requeue_expired or by a lapse.
AttemptsAreLeases ==
    \A t \in Task :
        /\ tasks[t].attempt <= MAX_ATTEMPTS
        /\ {lease.lease_generation : lease \in Of(t)} = 1..tasks[t].attempt
        /\ \A l1, l2 \in Of(t) : l1.lease_generation = l2.lease_generation => l1 = l2

\* A task that waits for a Worker or is held by one has its input row, so
\* download_input finds the artifact: remove_input_artifacts of an earlier
\* call never strips a task that will still run.
InputWhileRunnable ==
    \A t \in Task : tasks[t].status \in {"queued"} \cup Held => t \in inputs

\* The deadline passed so long ago that every method that commits now read the
\* clock after it.
Overdue(t) == exists(t) /\ now >= tasks[t].expires_at + BUSY_TIMEOUT

\* No lease outlives the task's deadline, however often it is renewed and
\* however old the samples are.  What commits is late by less than the time a
\* method may wait for the lock: BUSY_TIMEOUT past the deadline nothing is
\* enqueued, leased, renewed or retried any more and no result is stored, the
\* row stays as it is or is closed without success.
DeadlineRespected ==
    [][\A t \in Task :
          /\ tasks'[t].status \in Held =>
                /\ tasks'[t].lease_until # NULL
                /\ tasks'[t].lease_until <= tasks'[t].expires_at
          /\ Overdue(t) =>
                \/ tasks'[t] = tasks[t]
                \/ tasks'[t].status \in Terminal \ {"succeeded"}]_vars

\* The insert of create_uploading never meets the UNIQUE constraint on owner,
\* device and idempotency key, which no caller handles: the lookup before it
\* sees every task of the key, finished ones included.
OneTaskPerKey ==
    \A t, u \in Task :
        /\ exists(t)
        /\ exists(u)
        /\ tasks[t].device = tasks[u].device
        /\ tasks[t].request.idempotency_key = tasks[u].request.idempotency_key
        => t = u

\* A task that succeeded, failed, expired or was canceled never changes again,
\* its result and error included: late calls, cancels and sweeps leave it alone.
TerminalIsFinal ==
    [][\A t \in Task : tasks[t].status \in Terminal => tasks'[t] = tasks[t]]_vars

\* The capability a held task is bound to, which decides the model the Worker
\* runs, meets the hard constraints of the request.
BoundCapabilitySuits ==
    \A t \in Task : tasks[t].status \in Held =>
        \E c \in Capability : /\ c.capability_id = tasks[t].bound_capability_id
                              /\ Suits(tasks[t].request, c)

\* Every task the device created ends: whatever devices and Workers do or
\* fail to do, the sweep closes it after its expiry.
EventuallyTerminal ==
    \A t \in Task : exists(t) ~> tasks[t].status \in Terminal

\* Once a lease has lapsed the task does not stay with it: the Worker renewed
\* it in time, or the task is queued again or closed.
LapsedLeaseIsReleased ==
    \A t \in Task : Lapsed(tasks[t], now) ~> ~Lapsed(tasks[t], now)

\* A task is never run by a Worker of another owner, nor its result stored,
\* although claim_next leases it to one.
RunWithinOwner ==
    \A t \in Task :
        /\ tasks[t].status = "running" => WorkerOwner[tasks[t].lease_owner] = owner(t)
        /\ tasks[t].result_json # NULL => WorkerOwner[tasks[t].result_json.worker] = owner(t)
-----------------------------------------------------------------------------
(* The inductive invariant: what relates the row of t to the leases L that *)
(* were granted for t and to the tasks I whose input is stored.            *)

LeasesOK(row, L) ==
    /\ row.lease_generation = row.attempt
    /\ row.attempt <= MAX_ATTEMPTS
    /\ \A lease \in L : lease.lease_generation \in 1..row.attempt
    /\ \A g \in 1..row.attempt : \E lease \in L : lease.lease_generation = g
    /\ \A l1, l2 \in L : l1.lease_generation = l2.lease_generation => l1 = l2

StatusOK(row, t, I) ==
    /\ row.status \in {"absent", "uploading"} => row.attempt = 0
    /\ row.status = "queued" => row.attempt < MAX_ATTEMPTS
    /\ row.status \in {"queued"} \cup Held => t \in I
    /\ row.execution_deadline = row.expires_at

HolderOK(row, L) ==
    IF row.status \in Held
    THEN /\ row.lease_until # NULL
         /\ row.lease_until <= row.expires_at
         /\ \E lease \in L :
               /\ row.lease_owner = lease.worker_id
               /\ row.lease_generation = lease.lease_generation
               /\ row.lease_token_hash = hash_token(lease.lease_token)
    ELSE /\ row.lease_owner = NULL
         /\ row.lease_token_hash = NULL
         /\ row.lease_until = NULL

ResultOK(row, L) ==
    IF row.status = "succeeded"
    THEN /\ \E lease \in L :
               /\ row.result_json = [worker |-> lease.worker_id,
                                     generation |-> lease.lease_generation]
               /\ lease.lease_generation = row.attempt
         /\ row.result_json # NULL
         /\ row.result_expires_at # NULL
         /\ row.result_expires_at - RESULT_RETENTION_SECONDS < row.expires_at
    ELSE row.result_json = NULL /\ row.result_expires_at = NULL

RowOK(row, L, t, I) ==
    LeasesOK(row, L) /\ StatusOK(row, t, I) /\ HolderOK(row, L) /\ ResultOK(row, L)

\* Every row agrees with the leases granted for its task and with the artifacts
\* table: the lease columns are filled exactly while the task is held and name
\* the last lease, and the result columns exactly when it succeeded.
IInv == /\ TypeOK
        /\ \A t \in Task : RowOK(tasks[t], Of(t), t, inputs)
        /\ OneTaskPerKey

-----------------------------------------------------------------------------
(* The abstract specification *)

phase(row) ==
    CASE row.status = "absent" -> "unknown"
      [] row.status = "uploading" -> "submitted"
      [] row.status = "queued" -> "ready"
      [] row.status \in Held -> "held"
      [] row.status = "succeeded" -> "published"
      [] OTHER -> "closed"

LifeOf(row) ==
    [phase |-> phase(row), executions |-> row.attempt,
     published |-> IF row.result_json = NULL THEN 0 ELSE row.result_json.generation]

Lifecycle == INSTANCE TaskLifecycle
    WITH MaxExecutions <- MAX_ATTEMPTS, life <- [t \in Task |-> LifeOf(tasks[t])]

\* The repository keeps the promises of TaskLifecycle: every method, for every
\* task it touches, is one of the abstract steps or changes nothing there.
ImplementsLifecycle == Lifecycle!Spec
=============================================================================
