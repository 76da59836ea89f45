---------------------------- MODULE WorkerRuntime ----------------------------
(***************************************************************************)
(* Workers over the task repository: worker/runtime.py with                *)
(* worker/process_runner.py.                                               *)
(*                                                                         *)
(* TaskRepository lets any lease be presented at any time; here the calls  *)
(* are those that a Worker makes.  run[w] is the main thread of its        *)
(* process, child[w] the inference process, beat the heartbeat thread.     *)
(* A request may fail before the server saw it, may be handled without an  *)
(* answer, or may be handled after the Worker gave it up (late).           *)
(*                                                                         *)
(* Left out: the contents of inputs and results, the capabilities a Worker *)
(* registers (a poll is made with some list), and children that outlive a  *)
(* Worker that was killed.                                                 *)
(***************************************************************************)
EXTENDS TaskRepository

CONSTANTS MaxLate, MaxCrashes    \* bounds: requests under way, Worker crashes

ASSUME WorkerAssumption == MaxLate \in Nat /\ MaxCrashes \in Nat

VARIABLES
    run,        \* where the main thread of each Worker is
    child,      \* its child process
    late,       \* requests given up by their Workers that may still arrive
    crashes

workerVars == <<run, child, late, crashes>>
allVars == <<vars, workerVars>>

\* off: the process is gone, or its loop raised; receive: blocked in the recv
\* of an answer that was written in part.  lease is the lease in hand, or the
\* last one that was, and outcome how its run_once ended: what it returned, or
\* aborted, by an exception or with the process.
Run == [at : {"off", "poll", "start", "create", "prepare", "execute", "receive",
              "publish", "fail"},
        lease : Lease \cup {NULL}, retryable : BOOLEAN, beat : BOOLEAN,
        outcome : {"none", "succeeded", "failed", "aborted"}]

Off    == [at |-> "off", lease |-> NULL, retryable |-> FALSE, beat |-> FALSE,
           outcome |-> "none"]

\* A child ends when its queue is flushed; stuck: its result is too large for
\* the pipe, the sender has written a part of it and waits for a reader.
Child   == [at : {"none", "computing", "stuck", "ended"},
            message : {"none", "part", "ok", "error"}]
NoChild == [at |-> "none", message |-> "none"]

Call == [kind : {"poll", "start", "heartbeat", "publish", "fail"}, worker : Worker,
         lease : Lease \cup {NULL}, retryable : BOOLEAN]

\* Between two tasks, or not running.
Idle(w) == run[w].at \in {"off", "poll"}

\* The state has its type, and a Worker presents leases that it was given: one
\* is in hand from the poll to the end of run_once, which leaves an outcome.
WorkerTypeOK ==
    /\ run \in [Worker -> Run]
    /\ child \in [Worker -> Child]
    /\ late \subseteq Call
    /\ crashes \in 0..MaxCrashes
    /\ \A w \in Worker :
          \/ run[w].lease \in leases /\ run[w].lease.worker_id = w
          \/ run[w].lease = NULL /\ Idle(w) /\ ~run[w].beat
    /\ \A w \in Worker : Idle(w) /\ run[w].lease # NULL => run[w].outcome # "none"
    /\ \A call \in late : call.kind = "poll" \/ call.lease \in leases

WorkerInit ==
    /\ Init
    /\ run = [w \in Worker |-> Off]
    /\ child = [w \in Worker |-> NoChild]
    /\ late = {}
    /\ crashes = 0

At(w, at) == run[w].at = at
Becomes(w, next) == run' = [run EXCEPT ![w] = next]

Failing(w, retryable) == [run[w] EXCEPT !.at = "fail", !.retryable = retryable]

\* finally: the heartbeat thread is told to stop.  It may be in a request,
\* which then is one of late.
Finished(w, outcome) == [Off EXCEPT !.at = "poll", !.lease = run[w].lease, !.outcome = outcome]

\* An exception that run_once does not catch, or the end of the process: what
\* is lost is the loop, and with it the lease in hand if there is one.
Aborted(w) ==
    [Off EXCEPT !.lease = run[w].lease,
                !.outcome = IF Idle(w) THEN run[w].outcome ELSE "aborted"]

-----------------------------------------------------------------------------
(* Requests *)

Asking(w, kind) ==
    [kind |-> kind, worker |-> w, lease |-> run[w].lease,
     retryable |-> kind = "fail" /\ run[w].retryable]

Serve(call, n) ==
    /\ call.kind # "poll" => n >= call.lease.issued_at
    /\ \/ call.kind = "poll" /\ \E list \in CapabilityLists : claim_next(call.worker, list, n)
       \/ call.kind = "start" /\ start(call.lease, n)
       \/ call.kind = "heartbeat" /\ heartbeat(call.lease, n)
       \/ call.kind = "publish" /\ publish_result(call.lease, n)
       \/ call.kind = "fail" /\ fail(call.lease, call.retryable, n)

\* No answer in time, with or without an effect at the server.
Unanswered(call) ==
    \/ \E n \in Samples : Serve(call, n) /\ UNCHANGED late
    \/ UNCHANGED <<vars, late>>
    \/ /\ Cardinality(late) < MaxLate
       /\ late' = late \cup {call}
       /\ UNCHANGED vars

\* Worker w posts a call about its lease; raise_for_status makes a refusal
\* and a missing answer one thing.
Post(w, kind, accepted, refused) ==
    LET call == Asking(w, kind)
    IN  \/ \E n \in Samples :
              /\ Serve(call, n)
              /\ Becomes(w, IF check_lease(call.lease, n) THEN accepted ELSE refused)
              /\ UNCHANGED late
        \/ Unanswered(call) /\ Becomes(w, refused)

Arrives ==
    \E call \in late, n \in Samples :
        /\ Serve(call, n)
        /\ late' = late \ {call}
        /\ UNCHANGED <<run, child, crashes>>

-----------------------------------------------------------------------------
(* run_once *)

PollCall(w) == [kind |-> "poll", worker |-> w, lease |-> NULL, retryable |-> FALSE]

Granted == CHOOSE lease \in leases' : lease \notin leases

Leasing(lease) == [Off EXCEPT !.at = "start", !.lease = lease]

\* Slip: a 204 is read as a lease.
Poll_NoIdle(w) ==
    /\ At(w, "poll")
    /\ \/ \E n \in Samples :
             /\ Serve(PollCall(w), n)
             /\ Becomes(w, Leasing(IF leases' = leases THEN NULL ELSE Granted))
             /\ UNCHANGED late
       \/ Unanswered(PollCall(w)) /\ Becomes(w, Aborted(w))
    /\ UNCHANGED <<child, crashes>>

\* A 204 leaves the Worker where it is; a missing answer ends its loop.
Poll(w) ==
    /\ At(w, "poll")
    /\ \/ \E n \in Samples :
             /\ Serve(PollCall(w), n)
             /\ Becomes(w, IF leases' = leases THEN run[w] ELSE Leasing(Granted))
             /\ UNCHANGED late
       \/ Unanswered(PollCall(w)) /\ Becomes(w, Aborted(w))
    /\ UNCHANGED <<child, crashes>>

StartTask(w) ==
    /\ At(w, "start")
    /\ Post(w, "start", [run[w] EXCEPT !.at = "create"], Aborted(w))
    /\ UNCHANGED <<child, crashes>>

\* factory.create is outside the try: when it raises the loop ends.
Create(w) ==
    /\ At(w, "create")
    /\ \/ Becomes(w, [run[w] EXCEPT !.at = "prepare", !.beat = TRUE])
       \/ Becomes(w, Aborted(w))
    /\ UNCHANGED <<vars, child, late, crashes>>

\* validate, then the download of the input.
Prepare(w) ==
    /\ At(w, "prepare")
    /\ \/ \E retryable \in BOOLEAN : Becomes(w, Failing(w, retryable)) /\ UNCHANGED child
       \/ /\ run[w].lease.task_id \in inputs
          /\ Becomes(w, [run[w] EXCEPT !.at = "execute"])
          /\ child' = [child EXCEPT ![w] = [NoChild EXCEPT !.at = "computing"]]
    /\ UNCHANGED <<vars, late, crashes>>

\* Slip: whatever the answer, the task counts as done.
Publish_Unchecked(w) ==
    /\ At(w, "publish")
    /\ Post(w, "publish", Finished(w, "succeeded"), Finished(w, "succeeded"))
    /\ UNCHANGED <<child, crashes>>

Publish(w) ==
    /\ At(w, "publish")
    /\ Post(w, "publish", Finished(w, "succeeded"), Failing(w, TRUE))
    /\ UNCHANGED <<child, crashes>>

\* Slip: a failure that could not be reported is passed over.
Fail_Unchecked(w) ==
    /\ At(w, "fail")
    /\ Post(w, "fail", Finished(w, "failed"), Finished(w, "failed"))
    /\ UNCHANGED <<child, crashes>>

Fail(w) ==
    /\ At(w, "fail")
    /\ Post(w, "fail", Finished(w, "failed"), Aborted(w))
    /\ UNCHANGED <<child, crashes>>

\* The heartbeat thread ends at the first call that is not accepted.
Heartbeat(w) ==
    /\ run[w].beat
    /\ Post(w, "heartbeat", run[w], [run[w] EXCEPT !.beat = FALSE])
    /\ UNCHANGED <<child, crashes>>

-----------------------------------------------------------------------------
(* ProcessRunner.execute *)

Compute(w) ==
    /\ child[w].at = "computing"
    /\ \E next \in {[at |-> "ended", message |-> "ok"], [at |-> "ended", message |-> "error"],
                    [at |-> "stuck", message |-> "part"]} :
          child' = [child EXCEPT ![w] = next]
    /\ UNCHANGED <<vars, run, late, crashes>>

\* Killed, or a crash of the interpreter: before it wrote or in the middle.
Die(w) ==
    /\ child[w].at \in {"computing", "stuck"}
    /\ \E message \in {child[w].message, "part"} :
          child' = [child EXCEPT ![w] = [at |-> "ended", message |-> message]]
    /\ UNCHANGED <<vars, run, late, crashes>>

\* join returned: what is in the pipe is read.  A ProviderError says whether to
\* retry; a crash and any other exception are retried.  A part of a message is
\* enough for the poll of get, whose timeout does not bound the recv after it,
\* and this process has the writing end open itself: no end of file comes.
JoinReturns(w) ==
    /\ At(w, "execute")
    /\ child[w].at = "ended"
    /\ \/ child[w].message = "ok" /\ Becomes(w, [run[w] EXCEPT !.at = "publish"])
       \/ child[w].message = "error" /\ \E retryable \in BOOLEAN : Becomes(w, Failing(w, retryable))
       \/ child[w].message = "none" /\ Becomes(w, Failing(w, TRUE))
       \/ child[w].message = "part" /\ Becomes(w, [run[w] EXCEPT !.at = "receive"])
    /\ child' = [child EXCEPT ![w] = NoChild]
    /\ UNCHANGED <<vars, late, crashes>>

\* Slip: the child is left running.
JoinTimesOut_NoTerminate(w) ==
    /\ At(w, "execute")
    /\ child[w].at \in {"computing", "stuck"}
    /\ Becomes(w, Failing(w, TRUE))
    /\ UNCHANGED <<vars, child, late, crashes>>

\* Slip: join has no timeout.
JoinTimesOut_Never(w) == JoinReturns(w)

JoinTimesOut(w) ==
    /\ At(w, "execute")
    /\ child[w].at \in {"computing", "stuck"}
    /\ Becomes(w, Failing(w, TRUE))
    /\ child' = [child EXCEPT ![w] = NoChild]
    /\ UNCHANGED <<vars, late, crashes>>

-----------------------------------------------------------------------------
(* The process of a Worker *)

Crash(w) ==
    /\ crashes < MaxCrashes
    /\ crashes' = crashes + 1
    /\ Becomes(w, Aborted(w))
    /\ child' = [child EXCEPT ![w] = NoChild]
    /\ UNCHANGED <<vars, late>>

\* Started by hand or by the Agent; register either succeeds or raises.
Register(w) ==
    /\ At(w, "off")
    /\ Becomes(w, [run[w] EXCEPT !.at = "poll"])
    /\ UNCHANGED <<vars, child, late, crashes>>

-----------------------------------------------------------------------------
(* The specification *)

RunOnce(w) ==
    \/ Poll(w) \/ StartTask(w) \/ Create(w) \/ Prepare(w)
    \/ JoinReturns(w) \/ JoinTimesOut(w) \/ Publish(w) \/ Fail(w)

Infer(w) == Compute(w) \/ Die(w)

\* Devices, the second transaction of the publish route, the sweep, the clock.
Others ==
    /\ \/ \E n \in Samples : DeviceStep(n)
       \/ \E o \in Owner, t \in Task : remove_input_artifacts(o, t)
       \/ Sweep
       \/ Tick
    /\ UNCHANGED workerVars

WorkerNext ==
    \/ \E w \in Worker : RunOnce(w) \/ Heartbeat(w) \/ Infer(w) \/ Crash(w) \/ Register(w)
    \/ Arrives
    \/ Others

WorkerSpec == WorkerInit /\ [][WorkerNext]_allVars

\* The main thread of a Worker runs.  Nothing is assumed of inference.
WorkerFairSpec == WorkerSpec /\ \A w \in Worker : WF_allVars(RunOnce(w))

-----------------------------------------------------------------------------
(* Properties *)

\* The part of the inductive invariant that is about outcomes: the lease of a
\* run_once that returned is behind its row, and a success is stored.
Settled ==
    \A w \in Worker : run[w].outcome \in {"succeeded", "failed"} =>
        LET lease == run[w].lease
            row   == tasks[lease.task_id]
        IN  /\ lease \in leases /\ lease.worker_id = w
            /\ row.status \in Held => row.lease_generation # lease.lease_generation
            /\ run[w].outcome = "succeeded" =>
                  row.result_json = [worker |-> w, generation |-> lease.lease_generation]

\* A run_once that ended well has its result stored: what the Worker believes
\* of the task agrees with the table, now and later.
SucceededMeansStored ==
    \A w \in Worker : run[w].outcome = "succeeded" =>
        tasks[run[w].lease.task_id].result_json =
            [worker |-> w, generation |-> run[w].lease.lease_generation]

\* A run_once that returned has let go of its task.  A Worker that polls, or is
\* off, while the last lease it held is live is one whose run_once did not
\* return: it raised or the process ended, and the task waits for the lapse.
OnlyAbortedKeepsLease ==
    \A w \in Worker : \A n \in Samples :
        Idle(w) /\ run[w].lease # NULL /\ check_lease(run[w].lease, n) =>
            run[w].outcome = "aborted"

\* Inference runs only while the main thread waits for it: no child is left
\* to compete with the next one for the device.
ChildOnlyWhileExecuting ==
    \A w \in Worker : child[w].at # "none" <=> At(w, "execute")

\* run_once comes to an end, also when inference hangs or its result does not
\* fit the pipe: the loop polls again or is over.  The one thing it may wait
\* for without end is the rest of an answer whose writer died.
OnlyHalfAnswerHangs ==
    \A w \in Worker : ~Idle(w) ~> Idle(w) \/ At(w, "receive")

\* A Worker reports a failure only for a result that was not stored: what the
\* design says of a completion whose answer was lost.
StoredIsNotFailed ==
    \A w \in Worker : At(w, "fail") =>
        tasks[run[w].lease.task_id].result_json #
            [worker |-> w, generation |-> run[w].lease.lease_generation]

\* Every Worker presents leases it was given, and what it makes of them agrees
\* with the tables.
WorkerIInv == IInv /\ WorkerTypeOK /\ ChildOnlyWhileExecuting /\ Settled
=============================================================================
