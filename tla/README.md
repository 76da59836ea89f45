# A TLA+ verification project for ModelCourier

ModelCourier relays inference tasks from small devices to Workers on private
machines.  A device posts a task and uploads its input to a public server; a
Worker behind a NAT polls the server, runs a local model and publishes the
result; on a desktop, a local Agent owns that Worker and the bindings of the
models it offers.  This directory holds TLA+ models of the code under `src/`,
their TLC configurations, and theorems checked by TLAPS.

## The system

| component | code (under `src/src/model_courier`) | state | operations |
|---|---|---|---|
| Task repository | `server/repository.py`, `server/migrations`, `server/db.py` | tables `tasks`, `artifacts` (SQLite) | create, finalize, cancel, claim, start, heartbeat, fail, publish, remove inputs, sweep |
| Control plane | `server/app.py`, `routes_*.py`, `dependencies.py`, `quotas.py`, `storage.py`, `cleanup.py` | the artifact files; none in memory | one handler per REST call, long poll, quota check, streamed upload, cleanup |
| Identities | `server/auth.py` | tables `owners`, `devices`, `workers` | register, authenticate, revoke |
| Worker runtime | `worker/runtime.py`, `worker/factory.py` | the lease in hand, the heartbeat thread | register, poll, start, download, execute, publish, fail |
| Process runner | `worker/process_runner.py` | a child process and its queue | start, join, terminate, read the answer |
| Agent store | `agent/store.py` | bindings, their verification, the accepting flag | save, verify, accept |
| Agent runtime controller | `agent/runtime.py` | the worker thread, its stop event, a state | start, stop, run |
| Agent API and worker loop | `agent/api.py`, `agent/worker.py` | the execution lock; requests in flight | status, save, verify, accepting, loop |
| Python bridge, HTTP adapter, environments | `agent/python_bridge.py`, `http_adapter.py`, `environments.py`, `providers.py` | one adapter process | run, check |
| Device SDK | `packages/sdk-python` | the call in progress | create, wait, cancel; each request repeated |
| Contracts | `contracts/` | none | documents and their digest |
| Providers, desktop GUI | `providers/`, `packages/provider-*`, `desktop/` | none of their own | wrap a library; show the Agent |

The pieces meet in few places.  Devices and Workers reach the repository over
HTTP, so each call can be lost, repeated or late, and its answer can be lost
after the call took effect.  Requests of the server share nothing but SQLite
and the files.  In the Agent, request handlers run in a thread pool beside one
event loop and the worker thread, and share the store (one autocommit
statement at a time), the controller's lock and the execution lock.

What is hard: fencing a Worker that comes back after its lease was given away;
clock samples taken before the wait for the write lock; three ways to end an
attempt and one limit; routes of several transactions beside each other and
beside a stop; a device that repeats what may have happened already; inference in
a process that hangs, dies or fills its pipe, and in a process below that one; a
sweep that someone must call; thread control with a join that may time out; reads
that are acted on after other requests wrote.
`PROJECT.json` lists these hazards at the lines where they bite.

What makes each component correct:

- **Repository**: one live lease per task; only the last execution publishes;
  bounded attempts; no lease outlives the deadline, and no result comes later
  than a transaction may wait; ended tasks never change;
  one task per idempotency key; a lease only for a capability that suits;
  every task ends.
- **Control plane**: what a row names is on the disk; a stored input is never
  replaced; quotas are passed by no more than the requests in flight; files
  are not left behind without a reason.
- **Worker runtime**: what it believes of a task agrees with the table; a
  `run_once` that returned holds no lease any more; `run_once` ends, unless it
  waits for the rest of an answer whose writer died; no inference outlives the
  wait for it.
- **Device SDK**: what a call tells its caller is so, whatever was repeated; an
  ended task ends the wait.
- **Python bridge**: a run ends, whatever the adapter does; what it accepts is a
  whole answer; it misses none that is there; no adapter outlives it.
- **Agent**: one worker loop; one execution at a time; a verification belongs
  to the configuration that ran; stopping stops; `accepting` is not a lie.

## Modules

| module | models | notes |
|---|---|---|
| `CapabilityMatching` | `TaskRepository._matches` | pure operators on envelopes and manifests |
| `TaskLifecycle` | no code: the promise | abstract specification: phases, bounded executions, one publication |
| `TaskRepository` | `server/repository.py` | one action per method; instantiates `TaskLifecycle` |
| `TaskRepositoryProofs` | | the theorems on `TaskRepository` |
| `WorkerRuntime` | `worker/runtime.py`, `worker/process_runner.py` | extends `TaskRepository`: Workers, their network, heartbeats and children |
| `WorkerRuntimeProofs` | | the theorems on `WorkerRuntime` |
| `ControlPlane` | `routes_devices.py`, `routes_workers.py`, `quotas.py`, `storage.py` | extends `TaskRepository`: requests in flight, files, stops |
| `ControlPlaneProofs`, `ControlPlaneLimitProofs` | | the theorems on `ControlPlane`; those on quotas and leaks |
| `DeviceClient` | `packages/sdk-python`, the reads of `routes_devices.py` | extends `ControlPlane`: SDK clients, their repetitions and lost answers |
| `DeviceClientProofs` | | the theorems on `DeviceClient` |
| `PythonBridge` | `agent/python_bridge.py`, `worker/process_runner.py` | one run: three threads, pipes, the adapter, the runner |
| `PythonBridgeProofs` | | the theorems on `PythonBridge` |
| `AgentPromise` | no code: the promise | abstract specification: one execution, trust by verification, a worker that is told to stop |
| `AgentStore` | `agent/store.py` | one action per statement |
| `AgentRuntimeController` | `agent/runtime.py` | one action per critical section |
| `Agent` | `agent/api.py`, `agent/worker.py` | composes the two, adds requests, the status poll, the worker loop and crashes; instantiates `AgentPromise` |
| `AgentProofs` | | the theorems on `Agent` |
| `MCTaskRepository`, `MCWorkerRuntime`, `MCControlPlane`, `MCDeviceClient`, `MCAgent` | | instances for TLC |

Definitions keep the names of the code where TLA+ allows it.  An operator whose
comment starts with `Slip` is a plausible mistake in the definition that
follows it; no specification uses it.  `PROJECT.json` pairs each checked
property with a slip that breaks it.

### TaskRepository

A method is one `BEGIN IMMEDIATE` transaction, hence one action.  What it does
before the transaction is read the clock, so an action has a parameter `n`, the
sample, which may be older than the commit by at most `BUSY_TIMEOUT`
(`Samples`).  `tasks` is the table, with the columns the methods read; `inputs`
the tasks that have an input row in `artifacts`; `leases` every lease that
`claim_next` returned.  `leases` is the network and the Workers at once: any
lease in it can be presented again, in any order, at any later time, by start,
heartbeat, fail or publish.  Tokens are numbered and their hash is an injection.
A result is represented by the execution that computed it, an error by the
fields it has.  `ORDER BY created_at LIMIT 32` is `Windows`, the sets of rows
the query may return, with the limit a constant.

`Spec` has the methods, the sweep and the clock.  `DeployedSpec` is the server
that `create_app` assembles, in which nothing calls `requeue_expired`.

### WorkerRuntime

`run[w]` is the main thread of Worker `w`: `at` is the statement of `run_once` it is
at, `lease` the lease in hand (kept, with `outcome`, when `run_once` returned, and
with the outcome `aborted` when it raised or the process ended: `Aborted`), `beat`
whether the heartbeat thread still posts.  A request, `Post`, has three fates: it is
handled and answered; it is handled and the answer is lost, or it is lost; or it is
given up and goes to `late`, from where it `Arrives` at any later time.
`raise_for_status` makes a refusal and a missing answer the same.  What follows is
the code's: a poll or a start that fails ends the loop, and so does
`factory.create`, which is outside the `try`; a publish that fails becomes a failure
report; a failure report that fails ends the loop; the heartbeat thread ends at its
first error.  `child[w]` is the process of `ProcessRunner.execute`: computing, stuck
on a result that does not fit the pipe while its parent waits in `join`, or ended
with a message, none, or a part of one.  A part is left by a child that dies while
it writes.  `get(timeout=1.0)` then finds the pipe readable, but its timeout does
not bound the `recv` that follows, and no end of file comes, since the parent has
the writing end open as well: the main thread stays at `receive`, with its
heartbeats going on, until the process is killed.  `JoinTimesOut` may come at any
time before the child ends.  A `Crash` takes the Worker and its child; children that
outlive a killed Worker, and children that ignore the termination, are left out.

In place of "any lease at any time" the repository is now called by these
Workers.  That this is a special case is the theorem
`WorkersImplementRepository`.

### ControlPlane

Three routes take several steps, and other requests and a stop of the server come
between them.  `create_task` counts the device's tasks, then the instance's, then
inserts (`Reserve`, `CountInstance`, `Insert`).  `upload_input` looks at the status
and draws a file name (`Begin`), awaits the stream (`Written` or `WriteFails`), and
without another await stores the row (`Finalize`, or `FinalizeFails` when the write
lock is not had in time: the answer is an error, the file is complete, no row names
it and the task still waits for its input).  `publish_worker_result` stores the
result (`Publish`), removes the row (`Release`, or `ReleaseFails` when the write
lock is not had in time) and then the file (`Unlink`).  `http[c]` is a request and
the step it is at; `files` the complete files; `path` the column of the input row.
A file with the suffix `.part` is not in `files`.  Every other route is one method
(`OneMethod`). `Stop` ends every request and starts the server on the same data.

### DeviceClient

`sdk[k]` is a thread of an application in one call of the SDK: `at` is the request
it is making, `attempt` how often `_request` has repeated it, `task` what it was
told.  A request that changes something is carried by a request of
`ControlPlane`, `call`; its handler goes on when the client has given it up
(`Lost`), so a repetition may run beside the attempt it repeats.  `Serve` lets a
handler take its next step and tells the client of its end: `PostAnswers` and
`PutAnswers` are what the routes answer, 429 and 5xx lead to `Again` until
the attempts are used up, other errors to `Refused`.  A `PUT` that ends after a
cancel, a sweep or another upload closed the task is answered with the row as it is, so `created` may
be said of a task that has ended.  A payload that is a stream is
at its end after the first attempt that sent it (`unread`), so a repeated `PUT`
fails in the client.  `_view` fails on an error it cannot parse (`Readable`), which
the client sees as a 500.  In `wait_for_result` (`Get`, `Seen`, `GetResult`) each
poll is one step.  That clients are a special case of the requests of
`ControlPlane` is the theorem `ClientsUseRoutes`.

### PythonBridge

The main thread of `run` polls the adapter, kills it at the deadline or when an
output has passed the limit, joins the writer and the two readers for a second
each and then judges what was captured.  `stream[s]` follows the bytes of an
output from the adapter's write through the pipe and the buffer of a `read` that
has not returned (`pending`) to what was returned (`total`) and kept (`captured`).
The adapter is any program: a `willing` one reads the request, writes a line and
exits with 0 in an order of its own, another writes, fails or hangs as it likes,
and each may leave a process behind that keeps the pipes open, which is when a
reader does not reach the end of the file and is given up (`left`).
`Terminate` is `ProcessRunner`'s, which ends the process of the bridge at the
same deadline: the adapter is not its child and goes on.  Joins time out at any
time, which contains the second they wait.

### Agent

Each request in flight is a record `call[c]` with the statement it is at.
Handlers declared with `def` interleave statement by statement; `verify_model`
is a coroutine and holds the event loop between its awaits (`LoopFree`).
`AgentRuntimeController.stop` is two actions with a join between them that may
time out, so the second may find another thread in place.  `loops[i]` is the
`AgentWorkerLoop` in thread `i`; `run_once` is the interval in which it holds
`execution_lock`.  `Crash` kills the process and starts it on the same database.

## Runs

| run | question | bounds | result |
|---|---|---|---|
| `repository_fencing` | can a late, repeated or reordered call do harm, and does the task end if the sweep runs? | 1 task, 2 Workers, 3 attempts, lease 2, deadline 5 to 6, samples 1 late, clock to 7 | holds |
| `repository_queue` | do routing, ownership and idempotency hold, and is `TaskLifecycle` implemented? | 2 owners, 2 tasks, 3 requests on 2 keys, 2 manifests, window of 1 | holds |
| `deployed_leases` | is a lapsed lease released by the deployed server? | 1 task, 1 Worker | violated |
| `agent_safety` | one loop, one execution, verification of what is stored, and is `AgentPromise` implemented? | 2 requests, 2 threads, 1 crash, 2 verifications | holds |
| `agent_liveness` | do stop and pause take effect, and at once between two tasks? | 2 requests, 2 threads | holds |
| `agent_verified` | was a verified configuration run? | 2 requests, 2 configurations | violated |
| `agent_stale_offer` | does an edit pause the worker? | 2 requests, 1 thread | violated |
| `workers` | does a Worker believe what is stored, who keeps a live lease between two tasks, and what can keep `run_once` from ending? | 1 task, 2 Workers, 2 attempts, 1 late request, 1 crash | holds |
| `worker_replay` | is a failure reported only for a result that is not stored? | 1 task, 1 Worker | violated |
| `devices` | do rows, files and quotas agree beside other requests and stops, and is what the SDK says so? | 1 client, 2 attempts, 2 requests in flight, 2 tasks, 2 uploads, 1 stop | holds |
| `device_wait` | does the end of a task end the wait? | 1 client, 1 task | violated |
| `python_bridge` | does a run end, and is its verdict right? | request 2, lines of 1 and 3, pipe 1, chunk 2, limit 3, output to 4 | holds |

Why the bounds are enough for the questions.  Leases and attempts of one task do not
interact with other tasks except through the window and the keys, so fencing is
checked deeply on one task (all three attempts, a Worker that holds two leases of
the same task, samples in both orders), and routing and keys on two tasks with few
attempts.  The deadline falls inside a lease and inside a backoff, and the clock
runs past it.  `Tick` stops at `MaxTime`, after which the state may stutter or go
on; every task has expired by then.  Two requests reach every pair of handlers, and
a second thread every meeting of an old and a new loop.  In `workers` two attempts
let one Worker come back to a task that the other one has; one late request can be
any of the five kinds.  In `devices` a device may have 2 active tasks and the
instance 1, for two tasks and two requests.  So the rows pass the limit of the
instance; they cannot pass that of the device, where it is the sum of rows and
requests counted in, which `QuotaOvershoot` bounds, that passes it.  The two uploads
meet on one task: either request may be the client's, and the other another device
program's or an attempt that the client gave up.  The client's payload is a stream
there; a client that can send its payload again puts it a second time, which is what
a request beside it does, and the theorems on `DeviceClient` cover both.  A key that
is posted with another request does not occur in this instance, only in the proofs.
In `python_bridge` a line may be shorter than a chunk, longer than a pipe, and as
long as the limit, and other output may pass the limit inside a chunk.  Symmetry is
used for interchangeable tasks and requests in runs without liveness.  Clock samples
are late by up to one unit in `repository_fencing`, where their order matters, and
taken at the commit in the other passing runs.

Fairness.  `FairSpec` of `TaskRepository` assumes that the clock goes on and
that someone keeps calling `requeue_expired`, nothing of devices and Workers.
The second assumption is what the design describes and the deployed server
lacks; `DeployedSpec` assumes the clock and polling Workers only.  `FairSpec` of
`Agent` assumes that an accepted request is carried on, that a thread that can
run does, and that somebody asks for the status again and again, since it is the
handler of `GET /v1/status` that withdraws `accepting`: the workbench design has
the GUI poll every second, while the GUI under `desktop/` asks when it opens,
when it is pulled and after each change.  Weak
fairness is all that a thread pool and a plain `threading.Lock` justify: a lock
that is free again and again is not owed to any waiter.  `WorkerFairSpec` assumes
that the main thread of a Worker runs (its requests have a timeout, and so has
its join, and at `receive` it has no step to take), nothing of inference, which
may hang, nor of the network.  `FairSpec` of `Agent` has a `run_once` that returns:
`StopEnds` holds of Workers that are not at `receive`, and `workers` shows that this
is the one state in which they may stay.
`BridgeFairSpec` assumes that the bridge's threads run, that a willing adapter goes
on reading and writing, and of any other adapter only that its deadline comes:
so `RunEnds` says of a willing adapter that it needs no deadline, that is, that no
order of reads and writes makes it and the bridge wait for each other.

### What the violations show

Each is a difference between the code and what a document or a test of the
repository says; `PROJECT.json` quotes the lines.

- `requeue_expired` has no caller in the server: the task of a Worker that died
  stays leased.
- `verify_model` reads the binding twice and can verify a configuration that
  was never run.
- `save_model` can miss a worker that is being started, which then offers the
  old configuration until it is stopped.
- A Worker whose publication was stored and whose answer was lost reports a
  failure; a publication cannot be replayed.
- `wait_for_result` waits for `cancelled`, the server says `canceled`, and
  `expired` it does not know: it polls an ended task until its timeout.  The
  error that the sweep stores lacks fields that the device view requires, so a
  task that the sweep failed answers 500 and the wait ends with that.

Six more differences have no violated run.  `claim_next` ignores the owner,
where the design says that tasks are matched within one: the passing
`RunWithinOwner` says what is left, that a Worker of another owner can hold a
lease and burn an attempt but never run the task.  `claim_next` cuts its window of
32 before it compares capabilities, so an empty poll does not mean that nothing
matches.  A busy worker loop can keep a verification waiting.
A child that dies while it writes its answer hangs `run_once`
(`process_runner.py:77`), where the code means to fail with `provider_crashed`:
`OnlyHalfAnswerHangs` says that nothing else does, and what the deployed Worker then
holds is renewed by its heartbeats until the deadline of the task.  The quota is
checked before the idempotency key (`routes_devices.py:45`), so a repetition at the
limit is answered with 429, where the design (lines 199 and 275) has the same
request return the original task.  And a `PUT` of an input beside a cancel,
a sweep or another upload that ends the task is answered with 200 and the closed
row, where `client.py:90` promises the queued view; `OutcomeIsTrue` says what is
true of what the caller is told.

`devices` shows two more things than that its properties hold.
`QuotaOvershoot` is what is left of the design's "at most 10 active tasks per
device": with `k` requests in flight it may be `9 + k`, since counting and
inserting are different transactions; `InstanceOvershoot` says the same of the
100 of the instance.  `OnlyUnstoredUploadsLeak` names what leaves a file without a
row: a stop between the steps of a route, and an upload that ends without storing
its row, because another one had queued the task (the design forbids parallel
uploads, the code admits them), the task was closed meanwhile, or the write lock
was not had after the file was complete.  Publishing leaves none but by a stop.
Such files stay, since cleanup walks rows.

`python_bridge` bounds what can be left: `OrphanOnlyByTerminate` that an adapter goes
on after its run only when `ProcessRunner` ended the bridge first, which the
equal deadlines allow; `AnswerKept` that a whole answer is missed only when its
reader was given up, a second after the adapter's end.

## Theorems

`TaskRepositoryProofs` proves, for all values of the constants that satisfy the
assumptions of `TaskRepository` (positive lease, attempts and TTLs, `NULL`
apart from the values it stands beside):

| theorem | states |
|---|---|
| `Invariance` | `Spec => []IInv` |
| `TypeCorrect` | `Spec => []TypeOK` |
| `Fencing` | `Spec => []AtMostOneLiveLease` |
| `LastExecutionPublishes` | `Spec => []ResultFromLastLease` |
| `BoundedAttempts` | `Spec => []AttemptsAreLeases` |
| `InputKept` | `Spec => []InputWhileRunnable` |
| `WithinDeadline` | `Spec => DeadlineRespected` |
| `KeysUnique` | `Spec => []OneTaskPerKey` |
| `RoutedRight` | `Spec => []BoundCapabilitySuits` |
| `OwnersApart` | `Spec => []RunWithinOwner` |
| `TerminalStays` | `Spec => TerminalIsFinal` |
| `Refinement` | `Spec => ImplementsLifecycle` |

The other modules of proofs use the assumptions of the modules they are about (the
bounds are naturals, the quotas positive, `Http` and `Task` finite, `NULL` none of
the values it stands beside, sizes of pipes and messages positive):

| theorem | states |
|---|---|
| `WorkerInvariance` | `WorkerSpec => []WorkerIInv` |
| `WorkersImplementRepository` | `WorkerSpec => Spec` |
| `WorkersKeepLifecycle` | `WorkerSpec => ImplementsLifecycle` |
| `SuccessIsStored` | `WorkerSpec => []SucceededMeansStored` |
| `ReturnedLetGo` | `WorkerSpec => []OnlyAbortedKeepsLease` |
| `NoStrayChild` | `WorkerSpec => []ChildOnlyWhileExecuting` |
| `ControlInvariance` | `ControlSpec => []ControlIInv` |
| `RoutesImplementRepository` | `ControlSpec => Spec` |
| `InputServed` | `ControlSpec => []RowHasFile` |
| `InputImmutable` | `ControlSpec => InputIsImmutable` |
| `OvershootBounded` | `ControlSpec => []QuotaOvershoot` |
| `InstanceOvershootBounded` | `ControlSpec => []InstanceOvershoot` |
| `NothingElseLeaks` | `ControlSpec => OnlyUnstoredUploadsLeak` |
| `ClientsUseRoutes` | `DeviceSpec => ControlSpec` |
| `ClientInvariance` | `DeviceSpec => []ClientIInv` |
| `ClientsKeepLifecycle` | `DeviceSpec => ImplementsLifecycle` |
| `ToldTheTruth` | `DeviceSpec => []OutcomeIsTrue` |
| `BridgeInvariance` | `BridgeSpec => []BridgeIInv` |
| `AcceptedWhole` | `BridgeSpec => []AcceptedIsWhole` |
| `NoAnswerMissed` | `BridgeSpec => []AnswerKept` |
| `NoOrphan` | `BridgeSpec => []OrphanOnlyByTerminate` |
| `AgentInvariance` | `Spec => []AgentIInv` (`Spec` of `Agent`, here and below) |
| `ExecutionIsExclusive` | `Spec => []OneExecution` |
| `LoopIsSingle` | `Spec => []OneLoop` |
| `EventIsOwn` | `Spec => []OwnStopEvent` |
| `VerificationIsOfStored` | `Spec => []VerifiedMatchesStored` |
| `StopIsObeyed` | `Spec => StoppedTakesNoMore` |
| `PromiseKept` | `Spec => ImplementsPromise` |

The properties are not inductive: that an old lease is refused depends on the
generations of all leases being distinct and on the row naming the last one. `IInv`
says so row by row: `RowOK(row, L, t, I)` relates the row of a task to the leases
`L` granted for it and to the inputs `I`.  Its parts are `LeasesOK` (the generations
of `L` are 1 to `attempt`, each once), `StatusOK` (what the status says of attempts,
input and deadline), `HolderOK` (the lease columns are filled exactly while the task
is held, and name a lease) and `ResultOK` (a result is stored exactly when the task
succeeded, and is the last lease's). Because an action changes the row of one task,
or of each task by itself, a lemma per kind of row change shows that `RowOK` is
kept, and one step per action lifts it to `IInv`.  Most properties then follow from
`IInv` without another induction; `TerminalIsFinal`, `DeadlineRespected` and the
refinement use `IInv` in the state before a step.  `DeadlineRespected` compares the
deadline with the time of the commit: a sample is at most `BUSY_TIMEOUT` old, so
that long after the deadline every sample is past it, and what a method may still do
then is to leave the row or to close it (`OverdueSteps`).  Earlier than that a
result may be stored after the deadline, by a method that waited for the lock across
it.  Every abstract step is picked from the status before and after it, and a sweep
is several at once.

The modules composed with the repository share one argument.  Every step is a step
of the repository or leaves it alone (a Worker serves only calls under leases it was
given), so `IInv` is kept by what is proved of `Spec`, and all theorems above hold
for the compositions.  What has to be added is how the new state relates to the
rows.  For Workers, `Settled`: the lease of a `run_once` that returned is behind its
row, and a success is the row's result.  It is kept because no step of the
repository lets a lease that is behind its row become live again (`Behind` in the
proofs) or changes a stored result.  For the routes, `RowsNameFiles` and
`UploadsApart`: a row names a complete file of its task, and an upload a file that
no row and no other request has.  They need `FilesCounted`, by which a name that is
drawn is new, and `RequestsOK`, by which a request that removes a file has seen the
row of that file removed.

For SDK clients every step is a step of `ControlPlane` or leaves it alone, and what
is added is `ClientIInv`.  `Waits` says that the request a client waits for is its
own (no other client waits for it, and it carries the client's request or task),
so that what it hears is about its task; `OwnRow` what the client may rely on of
that row, which is kept because the device and the request of a row never
change, a row never returns to `uploading`, and one that has ended stays.

`BridgeIInv` counts: what was written to a stream is in the pipe, in an
unfinished read or returned, and what is kept is the beginning of what was
returned, up to the limit.  A reader that is done has seen the end of the file, so
nobody can write any more and nothing is left in the pipe; behind its join a reader
is done or in `left`.  Hence a verdict is on all that was written, or names the
reader that was given up, which is `AnswerKept`; and since an excess sets the flag
before the reader is done, an accepted answer has none.

The quotas bound a sum of two cardinalities, the open rows and the requests that
will insert one (`Asking` of a device, `Admitted` of the instance).  `QuotaCases`
and `InstanceCases` say what a step does to the two sets: both shrink; or a
request was counted in, and the rows were below the limit when it was; or an
insert takes one request away and adds one row.  From there `LimitKept` is
arithmetic on finite sets: the second case starts the bound anew, because all
requests in flight together are no more than `Cardinality(Http)`, and the third
leaves the sum as it was.  That only `create_uploading` opens a row
(`NothingInserted`) rests on `IInv`: no method acts on a row that is not there,
and one that has ended stays.

A leak is a file that loses its last name.  `NamesKept` says that a request may step
to any record as long as the file it named is deleted or has a name elsewhere; for
each step but a stop and the end of an upload that stores no row the proof shows who
takes the name over: the row, when `Finalize` queues the task, the request, when
`Release` removes the row, nobody, when `Unlink` deletes the file.  It needs from
`RequestsOK` that a request at any other step names no file.

`AgentIInv` has three parts that the properties do not mention.
`ThreadsInOrder`: a thread is started only when the one before it is dead, and
ended threads stay so; hence at most the last one is alive, whatever stops were
given up at the join, and `started`, which is what a loop reads for its event, is
its own number while it reads.  `LockHeldByOne`: the lock names its kind of
holder, there is one verification or one run behind it when it is held, and none
when it is free; that is what `OneExecution` counts.  `CallsKnow`: what a
verification has read before it marks the binding is a row that exists, since
rows are never deleted, so that `mark_verified` compares digests of
configurations and the mark is that of what is stored in the very statement
that sets it.  A crash resets all of it but the store.

For the refinement of `AgentPromise` the worker is the thread that was started last,
while it lives.  Each action is matched with its abstract step or shown not to
show; what it takes is that a thread that acts is that last one
(`ThreadsInOrder`), that the event it looks at is its own (`OwnStopEvent`, for
`Commit`), that whoever gives the slot back or trusts a binding has the slot
(`LockHeldByOne`), and `CallsKnow` for the binding that is trusted.

Model-checked only: the liveness properties (`EventuallyTerminal`,
`LapsedLeaseIsReleased`, `OnlyHalfAnswerHangs`, `RunEnds`, `StopEnds`,
`AcceptingIsRepaired`), since fairness and `ENABLED` are beyond the prover.  The
operators of `CapabilityMatching` are used by the proofs unexpanded, as a relation
between a manifest and a request.

## Not modelled

Contents and sizes of files, results and samples, disk space and the byte
budget; errors of the file system; validation of documents (pydantic); logging,
task events and the liveness of Workers (`last_seen_at`), which the modelled
methods write and never read; read-only handlers.  Server clocks that run
backwards are not modelled.  A wait for the write lock that times out is a step
where something is left behind, `ReleaseFails` and `FinalizeFails`; elsewhere the
transaction is not started and nothing is done, which a call that is lost before it
takes effect does too.  Of the SDK, the pauses between
attempts; of the bridge, a request that is refused before the adapter starts.

`cleanup.py` is not modelled: nothing deployed calls it, so when and beside what it
runs would be invented.  Read beside the models it shows one hazard: it deletes
rows by their times and not by what it selected, so a row that is inserted with an
older clock sample between the two statements loses its row and keeps its
file.  Identities are not: issuing and revoking a token is one statement on one
row, nothing deployed calls either, and the rest of the code sees only who calls
and which capabilities were registered last, which a poll takes from a set, anew
each time.  The HTTP adapter, the environment inspector, the providers and the GUI
are sequential wrappers without state between calls.  `PROJECT.json` lists every
component with the reason.

## Plan

The modules came in the order of who calls whom: the repository, the routes and
the Workers over it, the Agent, the SDK over the routes, the bridge; and the
proofs in the same order.  Every safety property that a run checks is proved.
Left:

1. `WorkerRuntime` under the Agent's worker loop, in place of its `run_once`
   interval, if the instance stays small enough to check.
2. A promise of the routes on inputs, in the manner of `TaskLifecycle`: an input
   that is stored stays as it is until its task ends.
