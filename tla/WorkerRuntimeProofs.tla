------------------------- MODULE WorkerRuntimeProofs -------------------------
(***************************************************************************)
(* Proofs about WorkerRuntime: the Workers use the repository as its       *)
(* specification allows, so every theorem on TaskRepository holds for the  *)
(* composition, and what a Worker makes of its leases agrees with the      *)
(* tables.                                                                 *)
(***************************************************************************)
EXTENDS WorkerRuntime, TaskRepositoryProofs

-----------------------------------------------------------------------------
(* What a served call does to the repository.                              *)

\* A lease is never forgotten.
LEMMA LeasesGrow ==
    ASSUME [Next]_vars
    PROVE  leases \subseteq leases'
<1>1. ASSUME NEW n \in Samples, Claim(n) PROVE leases \subseteq leases'
  BY <1>1 DEF Claim, claim_next, Grant, vars
<1>2. ASSUME NEW n \in Samples, DeviceStep(n) PROVE leases' = leases
  BY <1>2 DEF DeviceStep, create_uploading, finalize_and_enqueue, cancel, vars
<1>3. ASSUME NEW n \in Samples, LeaseStep(n) PROVE leases' = leases
  BY <1>3 DEF LeaseStep, start, heartbeat, fail, publish_result, Refuse, vars
<1> QED BY <1>1, <1>2, <1>3
        DEF Next, ServeNext, Sweep, requeue_expired, Tick, remove_input_artifacts, vars

\* A call that presents a granted lease is a step of the repository.
LEMMA ServeIsNext ==
    ASSUME NEW call \in Call, call.kind = "poll" \/ call.lease \in leases,
           NEW n \in Samples, Serve(call, n)
    PROVE  Next
<1>1. call.worker \in Worker /\ call.retryable \in BOOLEAN
  BY DEF Call
<1>2. CASE call.kind = "poll"
  BY <1>1, <1>2 DEF Serve, Claim, ServeNext, Next
<1>3. CASE call.kind # "poll"
  <2>1. LeaseStep(n)
    BY <1>1, <1>3 DEF Serve, LeaseStep
  <2> QED BY <2>1 DEF ServeNext, Next
<1> QED BY <1>2, <1>3

\* No answer: a step of the repository or none, and one more late call at most.
LEMMA UnansweredIsNext ==
    ASSUME NEW call \in Call, call.kind = "poll" \/ call.lease \in leases, Unanswered(call)
    PROVE  [Next]_vars /\ (late' = late \/ late' = late \cup {call})
BY ServeIsNext DEF Unanswered

\* A poll that was served granted nothing, or a new lease to the Worker that
\* polled.
LEMMA PollGrants ==
    ASSUME IInv, NEW w \in Worker, NEW n \in Samples, Serve(PollCall(w), n), leases' # leases
    PROVE  Granted \in leases' /\ Granted.worker_id = w
<1>1. PICK list \in CapabilityLists : claim_next(w, list, n)
  BY DEF Serve, PollCall
<1>2. PICK t \in Task, i \in DOMAIN list : Grant(t, w, list[i], n)
  BY <1>1 DEF claim_next, Fitting, Windows, Due, vars
<1> DEFINE lease == [task_id |-> t, worker_id |-> w,
                     lease_generation |-> tasks[t].lease_generation + 1,
                     lease_token |-> tokens', issued_at |-> now]
<1>3. leases' = leases \cup {lease} /\ lease.worker_id = w
  BY <1>2 DEF Grant
<1> HIDE DEF lease
<1> QED BY <1>3 DEF Granted

-----------------------------------------------------------------------------
(* Rows under a lease that is behind.                                      *)

\* The lease names an execution that its task is done with.
Behind(lease, T) ==
    T[lease.task_id].status \in Held =>
        T[lease.task_id].lease_generation # lease.lease_generation

\* An execution that is over stays over: a later one has a later generation.
LEMMA BehindStays ==
    ASSUME IInv, IInv', [Next]_vars, NEW lease \in leases, Behind(lease, tasks)
    PROVE  Behind(lease, tasks')
<1> DEFINE t == lease.task_id
           r == tasks[t]
           q == tasks'[t]
<1>1. t \in Task /\ lease \in Of(t)
  BY DEF IInv, TypeOK, Lease, Of
<1>2. r \in Row /\ LeasesOK(r, Of(t)) /\ q.lease_generation = q.attempt
  BY <1>1 DEF IInv, TypeOK, RowOK, LeasesOK
<1>3. r.lease_generation = r.attempt /\ lease.lease_generation <= r.attempt /\ r.attempt \in Nat
  BY <1>1, <1>2 DEF LeasesOK, Row
<1>4. RowStep(r, q)
  BY <1>1, RowSteps
<1>5. r.status \in Held => lease.lease_generation # r.attempt
  BY <1>3 DEF Behind
<1>6. lease.lease_generation \in Nat
  BY DEF IInv, TypeOK, Lease
<1> HIDE DEF r, q
<1>7. q.status \in Held => q.lease_generation # lease.lease_generation
  BY <1>2, <1>3, <1>4, <1>5, <1>6, StatusSteps DEF Held
<1> QED BY <1>7 DEF Behind, q

\* A result that is stored stays.
LEMMA StoredStays ==
    ASSUME IInv, [Next]_vars, NEW t \in Task, tasks[t].result_json # NULL
    PROVE  tasks'[t] = tasks[t]
<1>1. tasks[t].status = "succeeded"
  BY DEF IInv, RowOK, ResultOK
<1>2. RowStep(tasks[t], tasks'[t])
  BY RowSteps
<1> QED BY <1>1, <1>2 DEF RowStep, Terminal, Held, Swept, Lapsed

\* A failure or a result that is accepted ends the execution.
LEMMA AcceptedEnds ==
    ASSUME IInv, NEW call \in Call, call.lease \in leases, call.kind \in {"publish", "fail"},
           NEW n \in Samples, Serve(call, n), check_lease(call.lease, n)
    PROVE  /\ tasks'[call.lease.task_id].status \notin Held
           /\ call.kind = "publish" =>
                 tasks'[call.lease.task_id].result_json =
                     [worker |-> call.lease.worker_id,
                      generation |-> call.lease.lease_generation]
<1> DEFINE t == call.lease.task_id
<1>1. t \in Task /\ tasks[t] \in Row
  BY DEF IInv, TypeOK, Lease
<1>2. CASE call.kind = "publish"
  <2>1. tasks' = [tasks EXCEPT ![t] = Succeeded(tasks[t], call.lease, n)]
    BY <1>2 DEF Serve, publish_result, Refuse
  <2>2. tasks'[t] = Succeeded(tasks[t], call.lease, n)
    BY <1>1, <2>1 DEF IInv, TypeOK
  <2> QED BY <1>1, <2>2 DEF Succeeded, Unleased, Held, Row
<1>3. CASE call.kind = "fail"
  <2>1. tasks' = [tasks EXCEPT ![t] = Failed(tasks[t], call.retryable, n)]
    BY <1>3 DEF Serve, fail, Refuse
  <2>2. tasks'[t] = Failed(tasks[t], call.retryable, n)
    BY <1>1, <2>1 DEF IInv, TypeOK
  <2> QED BY <1>1, <1>3, <2>2 DEF Failed, should_retry, Unleased, Held, Row
<1> QED BY <1>2, <1>3
-----------------------------------------------------------------------------
(* The invariant, Worker by Worker.                                        *)

\* What WorkerIInv says of the main thread r and the child c of w.
Fine(r, w, L, T) ==
    /\ r \in Run
    /\ \/ r.lease \in L /\ r.lease.worker_id = w
       \/ r.lease = NULL /\ r.at \in {"off", "poll"} /\ ~r.beat
    /\ r.at \in {"off", "poll"} /\ r.lease # NULL => r.outcome # "none"
    /\ r.outcome \in {"succeeded", "failed"} =>
          /\ r.lease \in L /\ r.lease.worker_id = w
          /\ Behind(r.lease, T)
          /\ r.outcome = "succeeded" =>
                T[r.lease.task_id].result_json =
                    [worker |-> w, generation |-> r.lease.lease_generation]

Paired(r, c) == c \in Child /\ (c.at # "none" <=> r.at = "execute")

LateOK(calls) == calls \subseteq Call /\ \A call \in calls : call.kind = "poll" \/ call.lease \in leases

LEMMA WorkerParts ==
    WorkerIInv <=> /\ IInv
                   /\ run \in [Worker -> Run] /\ child \in [Worker -> Child]
                   /\ \A w \in Worker : Fine(run[w], w, leases, tasks) /\ Paired(run[w], child[w])
                   /\ LateOK(late)
                   /\ crashes \in 0..MaxCrashes
BY DEF WorkerIInv, WorkerTypeOK, ChildOnlyWhileExecuting, Settled, Fine, Paired, LateOK, Behind,
   At, Idle

\* A Worker that does nothing is as fine after a step of the repository.
LEMMA FineStays ==
    ASSUME IInv, IInv', [Next]_vars, NEW w \in Worker, NEW r, Fine(r, w, leases, tasks)
    PROVE  Fine(r, w, leases', tasks')
<1>1. leases \subseteq leases'
  BY LeasesGrow
<1>2. ASSUME r.outcome \in {"succeeded", "failed"}
      PROVE  /\ Behind(r.lease, tasks')
             /\ r.outcome = "succeeded" =>
                   tasks'[r.lease.task_id].result_json =
                       [worker |-> w, generation |-> r.lease.lease_generation]
  <2>1. r.lease \in leases /\ Behind(r.lease, tasks)
    BY <1>2 DEF Fine
  <2>2. r.lease.task_id \in Task /\ r.lease.lease_generation \in Nat
    BY <2>1 DEF IInv, TypeOK, Lease
  <2>3. [worker |-> w, generation |-> r.lease.lease_generation] # NULL
    BY <2>2, NullAssumption
  <2>4. Behind(r.lease, tasks')
    BY <2>1, BehindStays
  <2>5. ASSUME r.outcome = "succeeded"
        PROVE  tasks'[r.lease.task_id].result_json =
                   [worker |-> w, generation |-> r.lease.lease_generation]
    <3>1. tasks[r.lease.task_id].result_json =
              [worker |-> w, generation |-> r.lease.lease_generation]
      BY <2>5 DEF Fine
    <3> QED BY <2>2, <2>3, <3>1, StoredStays
  <2> QED BY <2>4, <2>5
<1> QED BY <1>1, <1>2 DEF Fine

\* One Worker moves, the others stay.
LEMMA OneWorker ==
    ASSUME WorkerIInv, IInv', [Next]_vars, NEW w \in Worker, NEW r, NEW c,
           Fine(r, w, leases', tasks'), Paired(r, c), LateOK(late)', crashes' \in 0..MaxCrashes,
           run' = [run EXCEPT ![w] = r], child' = [child EXCEPT ![w] = c]
    PROVE  WorkerIInv'
<1>1. /\ IInv /\ run \in [Worker -> Run] /\ child \in [Worker -> Child]
      /\ \A v \in Worker : Fine(run[v], v, leases, tasks) /\ Paired(run[v], child[v])
  BY WorkerParts
<1>2. r \in Run /\ c \in Child
  BY DEF Fine, Paired
<1>3. run' \in [Worker -> Run] /\ child' \in [Worker -> Child]
  BY <1>1, <1>2
<1>4. ASSUME NEW v \in Worker PROVE Fine(run[v], v, leases, tasks)' /\ Paired(run[v], child[v])'
  <2>1. CASE v = w
    <3>1. run'[v] = r /\ child'[v] = c
      BY <1>1, <2>1
    <3> QED BY <2>1, <3>1 DEF Fine, Paired, Behind
  <2>2. CASE v # w
    <3>1. run'[v] = run[v] /\ child'[v] = child[v]
      BY <1>1, <2>2
    <3>2. \A q : Fine(q, v, leases, tasks) => Fine(q, v, leases', tasks')
      BY <1>1, FineStays
    <3>3. Fine(run[v], v, leases, tasks)'
      BY <1>1, <3>1, <3>2
    <3> QED BY <1>1, <3>1, <3>3 DEF Paired
  <2> QED BY <2>1, <2>2
<1>5. LateOK(late)' /\ crashes' \in 0..MaxCrashes
  OBVIOUS
<1>6. (/\ IInv
       /\ run \in [Worker -> Run] /\ child \in [Worker -> Child]
       /\ \A v \in Worker : Fine(run[v], v, leases, tasks) /\ Paired(run[v], child[v])
       /\ LateOK(late)
       /\ crashes \in 0..MaxCrashes)'
  BY <1>3, <1>4, <1>5
<1> QED BY <1>6 DEF WorkerIInv, WorkerTypeOK, ChildOnlyWhileExecuting, Settled, Fine, Paired,
                    LateOK, Behind, At, Idle

-----------------------------------------------------------------------------
(* Steps                                                                   *)

\* A step that leaves the repository alone keeps its invariant.
LEMMA RepositoryIdle == IInv /\ UNCHANGED vars => IInv' /\ [Next]_vars
BY NextIInv

\* A call about the lease in hand, made while there is one.
LEMMA AskingOK ==
    ASSUME WorkerIInv, NEW w \in Worker, NEW kind \in {"start", "heartbeat", "publish", "fail"},
           run[w].beat \/ run[w].at \notin {"off", "poll"}
    PROVE  /\ Asking(w, kind) \in Call
           /\ Asking(w, kind).kind = kind
           /\ Asking(w, kind).lease = run[w].lease
           /\ run[w].lease \in leases /\ run[w].lease.worker_id = w
<1>1. Fine(run[w], w, leases, tasks) /\ IInv
  BY WorkerParts
<1>2. run[w].lease \in leases /\ run[w].lease.worker_id = w /\ run[w].lease \in Lease
  BY <1>1 DEF Fine, IInv, TypeOK
<1>3. run[w].retryable \in BOOLEAN
  BY <1>1 DEF Fine, Run
<1> QED BY <1>2, <1>3 DEF Asking, Call

\* What may follow a posted call: a step of the repository, then the answer.
LEMMA PostStep ==
    ASSUME WorkerIInv, NEW w \in Worker, NEW kind \in {"start", "heartbeat", "publish", "fail"},
           run[w].beat \/ run[w].at \notin {"off", "poll"},
           NEW accepted, NEW refused, Post(w, kind, accepted, refused)
    PROVE  /\ [Next]_vars /\ IInv' /\ LateOK(late)'
           /\ \/ /\ Becomes(w, accepted)
                 /\ kind \in {"publish", "fail"} =>
                       /\ tasks'[run[w].lease.task_id].status \notin Held
                       /\ kind = "publish" =>
                             tasks'[run[w].lease.task_id].result_json =
                                 [worker |-> w, generation |-> run[w].lease.lease_generation]
              \/ Becomes(w, refused)
<1> DEFINE call == Asking(w, kind)
<1>1. /\ call \in Call /\ call.kind = kind /\ call.lease = run[w].lease
      /\ run[w].lease \in leases /\ run[w].lease.worker_id = w
  BY AskingOK
<1>2. IInv /\ LateOK(late)
  BY WorkerParts
<1> HIDE DEF call
<1>3. /\ [Next]_vars /\ (late' = late \/ late' = late \cup {call})
  BY <1>1, ServeIsNext, UnansweredIsNext DEF Post, call
<1>4. IInv' /\ leases \subseteq leases'
  BY <1>2, <1>3, NextIInv, LeasesGrow
<1>5. LateOK(late)'
  BY <1>1, <1>2, <1>3, <1>4 DEF LateOK
<1>6. CASE \E n \in Samples : /\ Serve(call, n)
                              /\ Becomes(w, IF check_lease(call.lease, n) THEN accepted ELSE refused)
  <2>1. PICK n \in Samples :
           /\ Serve(call, n)
           /\ Becomes(w, IF check_lease(call.lease, n) THEN accepted ELSE refused)
    BY <1>6
  <2>2. CASE ~check_lease(call.lease, n)
    BY <1>3, <1>4, <1>5, <2>1, <2>2
  <2>3. CASE check_lease(call.lease, n)
    <3>1. kind \in {"publish", "fail"} =>
             /\ tasks'[call.lease.task_id].status \notin Held
             /\ kind = "publish" =>
                   tasks'[call.lease.task_id].result_json =
                       [worker |-> call.lease.worker_id,
                        generation |-> call.lease.lease_generation]
      BY <1>1, <1>2, <2>1, <2>3, AcceptedEnds
    <3> QED BY <1>1, <1>3, <1>4, <1>5, <2>1, <2>3, <3>1
  <2> QED BY <2>2, <2>3
<1>7. CASE Becomes(w, refused)
  BY <1>3, <1>4, <1>5, <1>7
<1> QED BY <1>6, <1>7 DEF Post, call

\* The main thread goes on with the lease in hand, loses the heartbeat, aborts,
\* or is started again.
LEMMA FineMoves ==
    ASSUME WorkerIInv, IInv', [Next]_vars, NEW w \in Worker, NEW r,
           \/ /\ r \in Run /\ ~Idle(w) /\ r.at \notin {"off", "poll"}
              /\ r.lease = run[w].lease /\ r.outcome = run[w].outcome
           \/ r = [run[w] EXCEPT !.beat = FALSE]
           \/ r = Aborted(w)
           \/ At(w, "off") /\ r = [run[w] EXCEPT !.at = "poll"]
           \/ r = run[w]
    PROVE  Fine(r, w, leases', tasks')
<1>1. Fine(run[w], w, leases, tasks) /\ IInv /\ run[w] \in Run
  BY WorkerParts DEF Fine
<1>2. CASE /\ r \in Run /\ ~Idle(w) /\ r.at \notin {"off", "poll"}
           /\ r.lease = run[w].lease /\ r.outcome = run[w].outcome
  <2>1. Fine(r, w, leases, tasks)
    BY <1>1, <1>2 DEF Fine, Idle
  <2> QED BY <1>1, <2>1, FineStays
<1>3. CASE r = [run[w] EXCEPT !.beat = FALSE]
  <2>1. /\ r.lease = run[w].lease /\ r.outcome = run[w].outcome
        /\ r.at = run[w].at /\ r.beat = FALSE /\ r \in Run
    BY <1>1, <1>3 DEF Run
  <2>2. Fine(r, w, leases, tasks)
    BY <1>1, <2>1 DEF Fine
  <2> QED BY <1>1, <2>2, FineStays
<1>4. CASE r = Aborted(w)
  <2>1. /\ r.lease = run[w].lease /\ r.at = "off" /\ r.beat = FALSE /\ r \in Run
        /\ r.outcome = IF Idle(w) THEN run[w].outcome ELSE "aborted"
    BY <1>1, <1>4 DEF Run, Aborted, Off
  <2>2. Fine(r, w, leases, tasks)
    BY <1>1, <2>1 DEF Fine, Idle
  <2> QED BY <1>1, <2>2, FineStays
<1>5. CASE At(w, "off") /\ r = [run[w] EXCEPT !.at = "poll"]
  <2>1. /\ r.lease = run[w].lease /\ r.outcome = run[w].outcome
        /\ r.at = "poll" /\ r.beat = run[w].beat /\ r \in Run /\ run[w].at = "off"
    BY <1>1, <1>5 DEF Run, At
  <2>2. Fine(r, w, leases, tasks)
    BY <1>1, <2>1 DEF Fine
  <2> QED BY <1>1, <2>2, FineStays
<1>6. CASE r = run[w]
  BY <1>1, <1>6, FineStays
<1> QED BY <1>2, <1>3, <1>4, <1>5, <1>6

\* What a Worker that aborted is: off, and no child waits for it.
LEMMA AbortedIsOff ==
    ASSUME NEW w \in Worker
    PROVE  Aborted(w).at = "off"
BY DEF Aborted, Off

\* A call that was accepted as the last of its run_once.
LEMMA FineEnds ==
    ASSUME WorkerIInv, NEW w \in Worker, [Next]_vars, NEW outcome \in {"succeeded", "failed"},
           run[w].at \in {"publish", "fail"},
           tasks'[run[w].lease.task_id].status \notin Held,
           outcome = "succeeded" =>
               tasks'[run[w].lease.task_id].result_json =
                   [worker |-> w, generation |-> run[w].lease.lease_generation]
    PROVE  Fine(Finished(w, outcome), w, leases', tasks') /\ Finished(w, outcome).at = "poll"
<1> DEFINE r == Finished(w, outcome)
<1>1. Fine(run[w], w, leases, tasks) /\ IInv
  BY WorkerParts
<1>2. /\ run[w].lease \in leases /\ run[w].lease.worker_id = w
      /\ run[w].lease \in Lease
  BY <1>1 DEF Fine, IInv, TypeOK
<1>3. /\ r \in Run /\ r.lease = run[w].lease /\ r.outcome = outcome /\ r.at = "poll"
  BY <1>2 DEF Finished, Off, Run
<1>4. leases \subseteq leases'
  BY LeasesGrow
<1> HIDE DEF r
<1>5. Fine(r, w, leases', tasks')
  BY <1>2, <1>3, <1>4 DEF Fine, Behind
<1> QED BY <1>3, <1>5 DEF r

\* start, publish, fail and heartbeat: the answer decides.
LEMMA PostedStep ==
    ASSUME WorkerIInv, NEW w \in Worker,
           StartTask(w) \/ Publish(w) \/ Fail(w) \/ Heartbeat(w)
    PROVE  WorkerIInv' /\ [Next]_vars
<1>1. /\ Fine(run[w], w, leases, tasks) /\ Paired(run[w], child[w]) /\ run[w] \in Run
      /\ child \in [Worker -> Child] /\ crashes \in 0..MaxCrashes
  BY WorkerParts
<1>2. child' = [child EXCEPT ![w] = child[w]] /\ crashes' \in 0..MaxCrashes
  BY <1>1 DEF StartTask, Publish, Fail, Heartbeat
<1>3. ASSUME NEW r, Becomes(w, r), Fine(r, w, leases', tasks'), r.at = "execute" <=> run[w].at = "execute",
             IInv', [Next]_vars, LateOK(late)'
      PROVE  WorkerIInv'
  BY <1>1, <1>2, <1>3, OneWorker DEF Becomes, Paired
<1>4. Aborted(w).at = "off"
  BY AbortedIsOff
<1>5. ASSUME NEW b \in BOOLEAN
      PROVE  /\ Failing(w, b) \in Run /\ Failing(w, b).at = "fail"
             /\ Failing(w, b).lease = run[w].lease /\ Failing(w, b).outcome = run[w].outcome
  BY <1>1 DEF Failing, Run
<1>6. CASE StartTask(w)
  <2> DEFINE r == [run[w] EXCEPT !.at = "create"]
  <2>1. run[w].at = "start"
    BY <1>6 DEF StartTask, At
  <2>2. [Next]_vars /\ IInv' /\ LateOK(late)' /\ (Becomes(w, r) \/ Becomes(w, Aborted(w)))
    BY <1>6, <2>1, PostStep DEF StartTask
  <2>3. r \in Run /\ r.lease = run[w].lease /\ r.outcome = run[w].outcome /\ r.at = "create"
    BY <1>1 DEF Run
  <2> HIDE DEF r
  <2>4. Fine(r, w, leases', tasks') /\ Fine(Aborted(w), w, leases', tasks')
    BY <2>1, <2>2, <2>3, FineMoves DEF Idle
  <2> QED BY <1>3, <1>4, <2>1, <2>2, <2>3, <2>4
<1>7. CASE Publish(w)
  <2> DEFINE r == Finished(w, "succeeded")
             q == Failing(w, TRUE)
  <2>1. run[w].at = "publish"
    BY <1>7 DEF Publish, At
  <2>2. /\ [Next]_vars /\ IInv' /\ LateOK(late)'
        /\ \/ /\ Becomes(w, r)
              /\ tasks'[run[w].lease.task_id].status \notin Held
              /\ tasks'[run[w].lease.task_id].result_json =
                     [worker |-> w, generation |-> run[w].lease.lease_generation]
           \/ Becomes(w, q)
    BY <1>7, <2>1, PostStep DEF Publish
  <2>3. CASE Becomes(w, q)
    <3>1. Fine(q, w, leases', tasks')
      BY <1>5, <2>1, <2>2, FineMoves DEF Idle
    <3> QED BY <1>3, <1>5, <2>1, <2>2, <2>3, <3>1
  <2>4. CASE ~Becomes(w, q)
    <3>1. Fine(r, w, leases', tasks') /\ r.at = "poll"
      BY <2>1, <2>2, <2>4, FineEnds
    <3> HIDE DEF r
    <3> QED BY <1>3, <2>1, <2>2, <2>4, <3>1
  <2> QED BY <2>2, <2>3, <2>4
<1>8. CASE Fail(w)
  <2> DEFINE r == Finished(w, "failed")
  <2>1. run[w].at = "fail"
    BY <1>8 DEF Fail, At
  <2>2. /\ [Next]_vars /\ IInv' /\ LateOK(late)'
        /\ \/ /\ Becomes(w, r)
              /\ tasks'[run[w].lease.task_id].status \notin Held
           \/ Becomes(w, Aborted(w))
    BY <1>8, <2>1, PostStep DEF Fail
  <2>3. CASE Becomes(w, Aborted(w))
    <3>1. Fine(Aborted(w), w, leases', tasks')
      BY <2>2, FineMoves
    <3> QED BY <1>3, <1>4, <2>1, <2>2, <2>3, <3>1
  <2>4. CASE ~Becomes(w, Aborted(w))
    <3>1. Fine(r, w, leases', tasks') /\ r.at = "poll"
      BY <2>1, <2>2, <2>4, FineEnds
    <3> HIDE DEF r
    <3> QED BY <1>3, <2>1, <2>2, <2>4, <3>1
  <2> QED BY <2>2, <2>3, <2>4
<1>9. CASE Heartbeat(w)
  <2> DEFINE r == [run[w] EXCEPT !.beat = FALSE]
  <2>1. [Next]_vars /\ IInv' /\ LateOK(late)' /\ (Becomes(w, run[w]) \/ Becomes(w, r))
    BY <1>9, PostStep DEF Heartbeat
  <2>2. r \in Run /\ r.at = run[w].at
    BY <1>1 DEF Run
  <2>3. Fine(r, w, leases', tasks') /\ Fine(run[w], w, leases', tasks')
    BY <1>1, <2>1, <2>2, FineMoves
  <2> QED BY <1>3, <2>1, <2>2, <2>3
<1> QED BY <1>6, <1>7, <1>8, <1>9

\* poll: nothing, a lease of its own, or the end of the loop.
LEMMA PollStep ==
    ASSUME WorkerIInv, NEW w \in Worker, Poll(w)
    PROVE  WorkerIInv' /\ [Next]_vars
<1>1. /\ Paired(run[w], child[w]) /\ child \in [Worker -> Child]
      /\ crashes \in 0..MaxCrashes /\ IInv /\ LateOK(late)
  BY WorkerParts
<1>2. /\ child' = [child EXCEPT ![w] = child[w]] /\ crashes' \in 0..MaxCrashes
      /\ run[w].at = "poll"
  BY <1>1 DEF Poll, At
<1>3. PollCall(w) \in Call /\ PollCall(w).kind = "poll"
  BY DEF PollCall, Call
<1>4. /\ [Next]_vars /\ (late' = late \/ late' = late \cup {PollCall(w)})
  BY <1>3, ServeIsNext, UnansweredIsNext DEF Poll
<1>5. IInv' /\ leases \subseteq leases'
  BY <1>1, <1>4, NextIInv, LeasesGrow
<1>6. LateOK(late)'
  BY <1>1, <1>3, <1>4, <1>5 DEF LateOK
<1>7. ASSUME NEW r, Becomes(w, r), Fine(r, w, leases', tasks'), r.at # "execute"
      PROVE  WorkerIInv'
  BY <1>1, <1>2, <1>4, <1>5, <1>6, <1>7, OneWorker DEF Becomes, Paired
<1>8. CASE Becomes(w, Aborted(w)) \/ Becomes(w, run[w])
  <2>1. Fine(Aborted(w), w, leases', tasks') /\ Fine(run[w], w, leases', tasks')
    BY <1>4, <1>5, FineMoves
  <2> QED BY <1>2, <1>4, <1>7, <1>8, <2>1, AbortedIsOff
<1>9. CASE /\ leases' # leases /\ Becomes(w, Leasing(Granted))
           /\ \E n \in Samples : Serve(PollCall(w), n)
  <2>1. Granted \in leases' /\ Granted.worker_id = w
    BY <1>1, <1>9, PollGrants
  <2>2. Granted \in Lease
    BY <1>5, <2>1 DEF IInv, TypeOK
  <2> DEFINE lease == Granted
             r == Leasing(lease)
  <2> HIDE DEF lease
  <2>3. /\ r \in Run /\ r.at = "start" /\ r.outcome = "none" /\ r.lease = lease
    BY <2>2 DEF Leasing, Off, Run, lease
  <2> HIDE DEF r
  <2>4. Fine(r, w, leases', tasks')
    BY <2>1, <2>3 DEF Fine, lease
  <2>5. Becomes(w, r)
    BY <1>9 DEF r, lease
  <2> QED BY <1>4, <1>7, <2>3, <2>4, <2>5
<1> QED BY <1>8, <1>9 DEF Poll

\* The steps of a Worker that touch no table: its own thread, its child, its
\* end and its start.
LEMMA LocalStep ==
    ASSUME WorkerIInv, NEW w \in Worker,
           \/ Create(w) \/ Prepare(w) \/ JoinReturns(w) \/ JoinTimesOut(w)
           \/ Infer(w) \/ Crash(w) \/ Register(w)
    PROVE  WorkerIInv' /\ [Next]_vars
<1>1. /\ Fine(run[w], w, leases, tasks) /\ Paired(run[w], child[w]) /\ run[w] \in Run
      /\ run \in [Worker -> Run] /\ child \in [Worker -> Child]
      /\ crashes \in 0..MaxCrashes /\ IInv /\ LateOK(late)
  BY WorkerParts
<1>2. UNCHANGED <<vars, late>> /\ crashes' \in 0..MaxCrashes
  <2>1. UNCHANGED <<vars, late>>
    BY DEF Create, Prepare, JoinReturns, JoinTimesOut, Infer, Compute, Die, Crash, Register
  <2>2. crashes' = crashes \/ (crashes < MaxCrashes /\ crashes' = crashes + 1)
    BY DEF Create, Prepare, JoinReturns, JoinTimesOut, Infer, Compute, Die, Crash, Register
  <2> QED BY <1>1, <2>1, <2>2, WorkerAssumption
<1>3. IInv' /\ [Next]_vars /\ LateOK(late)'
  BY <1>1, <1>2, RepositoryIdle DEF LateOK, vars
<1>4. ASSUME NEW r \in Run, NEW c, Becomes(w, r), child' = [child EXCEPT ![w] = c],
             Fine(r, w, leases', tasks'), Paired(r, c)
      PROVE  WorkerIInv'
  BY <1>2, <1>3, <1>4, OneWorker DEF Becomes
<1>5. ASSUME NEW r \in Run, NEW c, Becomes(w, r), child' = [child EXCEPT ![w] = c],
             ~Idle(w), r.at \notin {"off", "poll"},
             r.lease = run[w].lease, r.outcome = run[w].outcome, Paired(r, c)
      PROVE  WorkerIInv'
  <2>1. Fine(r, w, leases', tasks')
    BY <1>3, <1>5, FineMoves
  <2> QED BY <1>4, <1>5, <2>1
<1>6. NoChild \in Child /\ NoChild.at = "none"
  BY DEF NoChild, Child
<1>7. ASSUME NEW b \in BOOLEAN
      PROVE  /\ Failing(w, b) \in Run /\ Failing(w, b).at = "fail"
             /\ Failing(w, b).lease = run[w].lease /\ Failing(w, b).outcome = run[w].outcome
  BY <1>1 DEF Failing, Run
<1>8. child' = [child EXCEPT ![w] = child[w]] \/ ~UNCHANGED child
  BY <1>1
<1>9. ASSUME NEW c \in Child, Becomes(w, Aborted(w)), child' = [child EXCEPT ![w] = c],
             c.at = "none"
      PROVE  WorkerIInv'
  <2>1. Fine(Aborted(w), w, leases', tasks')
    BY <1>3, FineMoves
  <2>2. Paired(Aborted(w), c)
    BY <1>9, AbortedIsOff DEF Paired
  <2> QED BY <1>4, <1>9, <2>1, <2>2 DEF Fine
<1>10. CASE Create(w)
  <2>1. run[w].at = "create" /\ child[w] \in Child /\ child[w].at = "none" /\ UNCHANGED child
    BY <1>1, <1>10 DEF Create, At, Paired
  <2>2. CASE Becomes(w, Aborted(w))
    BY <1>3, <1>8, <1>9, <2>1, <2>2
  <2>3. CASE Becomes(w, [run[w] EXCEPT !.at = "prepare", !.beat = TRUE])
    <3> DEFINE r == [run[w] EXCEPT !.at = "prepare", !.beat = TRUE]
    <3>1. /\ r \in Run /\ r.at = "prepare"
          /\ r.lease = run[w].lease /\ r.outcome = run[w].outcome
      BY <1>1 DEF Run
    <3> HIDE DEF r
    <3>2. Becomes(w, r)
      BY <2>3 DEF r
    <3> QED BY <1>3, <1>5, <1>8, <2>1, <3>1, <3>2 DEF Paired, Idle
  <2> QED BY <1>10, <2>2, <2>3 DEF Create
<1>11. CASE Prepare(w)
  <2>1. run[w].at = "prepare" /\ child[w] \in Child /\ child[w].at = "none"
    BY <1>1, <1>11 DEF Prepare, At, Paired
  <2>2. CASE \E b \in BOOLEAN : Becomes(w, Failing(w, b)) /\ UNCHANGED child
    <3>1. PICK b \in BOOLEAN : Becomes(w, Failing(w, b)) /\ UNCHANGED child
      BY <2>2
    <3> QED BY <1>3, <1>5, <1>7, <1>8, <2>1, <3>1 DEF Paired, Idle
  <2>3. CASE /\ Becomes(w, [run[w] EXCEPT !.at = "execute"])
             /\ child' = [child EXCEPT ![w] = [NoChild EXCEPT !.at = "computing"]]
    <3> DEFINE r == [run[w] EXCEPT !.at = "execute"]
               c == [NoChild EXCEPT !.at = "computing"]
    <3>1. /\ r \in Run /\ r.at = "execute"
          /\ r.lease = run[w].lease /\ r.outcome = run[w].outcome
      BY <1>1 DEF Run
    <3>2. c \in Child /\ c.at = "computing"
      BY DEF NoChild, Child
    <3> HIDE DEF r, c
    <3>3. Becomes(w, r) /\ child' = [child EXCEPT ![w] = c]
      BY <2>3 DEF r, c
    <3> QED BY <1>3, <1>5, <2>1, <3>1, <3>2, <3>3 DEF Paired, Idle
  <2> QED BY <1>11, <2>2, <2>3 DEF Prepare
<1>12. CASE JoinReturns(w) \/ JoinTimesOut(w)
  <2>1. run[w].at = "execute" /\ child' = [child EXCEPT ![w] = NoChild]
    BY <1>12 DEF JoinReturns, JoinTimesOut, At
  <2>2. CASE \E b \in BOOLEAN : Becomes(w, Failing(w, b))
    BY <1>3, <1>5, <1>6, <1>7, <2>1, <2>2 DEF Paired, Idle
  <2>3. ASSUME NEW at \in {"publish", "receive"}, Becomes(w, [run[w] EXCEPT !.at = at])
        PROVE  WorkerIInv'
    <3> DEFINE r == [run[w] EXCEPT !.at = at]
    <3>1. /\ r \in Run /\ r.at = at
          /\ r.lease = run[w].lease /\ r.outcome = run[w].outcome
      BY <1>1 DEF Run
    <3> HIDE DEF r
    <3>2. Becomes(w, r)
      BY <2>3 DEF r
    <3>3. Paired(r, NoChild)
      BY <1>6, <3>1 DEF Paired
    <3> QED BY <1>5, <2>1, <3>1, <3>2, <3>3 DEF Idle
  <2>4. \/ \E b \in BOOLEAN : Becomes(w, Failing(w, b))
        \/ \E at \in {"publish", "receive"} : Becomes(w, [run[w] EXCEPT !.at = at])
    BY <1>12 DEF JoinReturns, JoinTimesOut
  <2> QED BY <1>3, <2>2, <2>3, <2>4
<1>13. CASE Infer(w)
  <2>1. PICK c \in Child : c.at # "none" /\ child' = [child EXCEPT ![w] = c]
    <3>1. CASE Compute(w)
      <4>1. \A c \in {[at |-> "ended", message |-> "ok"], [at |-> "ended", message |-> "error"],
                      [at |-> "stuck", message |-> "part"]} : c \in Child /\ c.at # "none"
        BY DEF Child
      <4> QED BY <3>1, <4>1 DEF Compute
    <3>2. CASE Die(w)
      <4>1. PICK message \in {child[w].message, "part"} :
               child' = [child EXCEPT ![w] = [at |-> "ended", message |-> message]]
        BY <3>2 DEF Die
      <4>2. child[w] \in Child
        BY <1>1
      <4>3. [at |-> "ended", message |-> message] \in Child
        BY <4>2 DEF Child
      <4> QED BY <4>1, <4>3
    <3> QED BY <1>13, <3>1, <3>2 DEF Infer
  <2>2. run[w].at = "execute"
    BY <1>1, <1>13 DEF Infer, Compute, Die, Paired
  <2>3. Becomes(w, run[w])
    BY <1>1, <1>13 DEF Infer, Compute, Die, Becomes
  <2> QED BY <1>1, <1>3, <1>5, <2>1, <2>2, <2>3 DEF Paired, Idle
<1>14. CASE Crash(w)
  BY <1>3, <1>6, <1>9, <1>14 DEF Crash
<1>15. CASE Register(w)
  <2> DEFINE r == [run[w] EXCEPT !.at = "poll"]
             c == child[w]
  <2>1. /\ child[w] \in Child /\ child[w].at = "none" /\ UNCHANGED child
        /\ Becomes(w, r) /\ At(w, "off")
    BY <1>1, <1>15 DEF Register, At, Paired
  <2>2. r \in Run /\ r.at = "poll"
    BY <1>1 DEF Run
  <2>3. Fine(r, w, leases', tasks')
    BY <1>3, <2>1, FineMoves
  <2>4. Paired(r, c)
    BY <2>1, <2>2 DEF Paired
  <2>5. child' = [child EXCEPT ![w] = c] /\ Becomes(w, r)
    BY <1>8, <2>1
  <2> HIDE DEF r, c
  <2>6. r \in Run
    BY <2>2
  <2>7. WorkerIInv'
    BY <1>4, <2>3, <2>4, <2>5, <2>6
  <2> QED BY <1>3, <2>7
<1> QED BY <1>10, <1>11, <1>12, <1>13, <1>14, <1>15

\* The repository moves and no Worker does.
LEMMA QuietStep ==
    ASSUME WorkerIInv, [Next]_vars, UNCHANGED <<run, child, crashes>>, late' \subseteq late
    PROVE  WorkerIInv'
<1>1. /\ IInv /\ run \in [Worker -> Run] /\ child \in [Worker -> Child]
      /\ \A w \in Worker : Fine(run[w], w, leases, tasks) /\ Paired(run[w], child[w])
      /\ LateOK(late) /\ crashes \in 0..MaxCrashes
  BY WorkerParts
<1>2. IInv' /\ leases \subseteq leases'
  BY <1>1, NextIInv, LeasesGrow
<1>3. \A w \in Worker : Fine(run[w], w, leases', tasks')
  BY <1>1, <1>2, FineStays
<1>4. LateOK(late)'
  BY <1>1, <1>2 DEF LateOK
<1>5. (/\ IInv
       /\ run \in [Worker -> Run] /\ child \in [Worker -> Child]
       /\ \A v \in Worker : Fine(run[v], v, leases, tasks) /\ Paired(run[v], child[v])
       /\ LateOK(late)
       /\ crashes \in 0..MaxCrashes)'
  BY <1>1, <1>2, <1>3, <1>4
<1> QED BY <1>5 DEF WorkerIInv, WorkerTypeOK, ChildOnlyWhileExecuting, Settled, Fine, Paired,
                    LateOK, Behind, At, Idle

\* A late call, and what is done by others than Workers.
LEMMA ArrivesStep ==
    ASSUME WorkerIInv, Arrives
    PROVE  WorkerIInv' /\ [Next]_vars
<1>1. PICK call \in late, n \in Samples : Serve(call, n) /\ late' = late \ {call}
  BY DEF Arrives
<1>2. call \in Call /\ (call.kind = "poll" \/ call.lease \in leases)
  BY WorkerParts DEF LateOK
<1>3. [Next]_vars
  BY <1>1, <1>2, ServeIsNext
<1> QED BY <1>1, <1>3, QuietStep DEF Arrives

LEMMA OthersStep ==
    ASSUME WorkerIInv, Others
    PROVE  WorkerIInv' /\ [Next]_vars
<1>1. [Next]_vars
  BY DEF Others, Next, ServeNext
<1> QED BY <1>1, QuietStep DEF Others, workerVars

\* Every step keeps the invariant and is a step of the repository or none.
LEMMA WorkerStep == WorkerIInv /\ [WorkerNext]_allVars => WorkerIInv' /\ [Next]_vars
<1> SUFFICES ASSUME WorkerIInv, [WorkerNext]_allVars PROVE WorkerIInv' /\ [Next]_vars
  OBVIOUS
<1>1. ASSUME NEW w \in Worker, RunOnce(w) \/ Heartbeat(w) \/ Infer(w) \/ Crash(w) \/ Register(w)
      PROVE  WorkerIInv' /\ [Next]_vars
  BY <1>1, PollStep, PostedStep, LocalStep DEF RunOnce
<1>2. CASE UNCHANGED allVars
  BY <1>2, QuietStep DEF allVars, workerVars
<1> QED BY <1>1, <1>2, ArrivesStep, OthersStep DEF WorkerNext

LEMMA WorkerInitIInv == WorkerInit => WorkerIInv
<1> SUFFICES ASSUME WorkerInit PROVE WorkerIInv
  OBVIOUS
<1>1. IInv
  BY InitIInv DEF WorkerInit
<1>2. /\ Off \in Run /\ NoChild \in Child /\ Paired(Off, NoChild)
      /\ \A w : Fine(Off, w, leases, tasks)
  BY DEF Off, NoChild, Run, Child, Fine, Paired
<1>3. LateOK({}) /\ 0 \in 0..MaxCrashes
  BY WorkerAssumption DEF LateOK
<1> QED BY <1>1, <1>2, <1>3, WorkerParts DEF WorkerInit

-----------------------------------------------------------------------------
(* The theorems *)

\* Workers present leases that they were given, and what they make of them
\* agrees with the tables, in every reachable state.
THEOREM WorkerInvariance == WorkerSpec => []WorkerIInv
<1> QED BY WorkerInitIInv, WorkerStep, PTL DEF WorkerSpec

\* The composition uses the repository as its specification allows: all that
\* is proved of Spec holds with these Workers.
THEOREM WorkersImplementRepository == WorkerSpec => Spec
<1>1. WorkerInit => Init
  BY DEF WorkerInit
<1> QED BY <1>1, WorkerStep, WorkerInvariance, PTL DEF WorkerSpec, Spec

\* Beside Workers that crash, repeat their calls and lose the answers, a task
\* still has the life that TaskLifecycle promises.
THEOREM WorkersKeepLifecycle == WorkerSpec => ImplementsLifecycle
<1> QED BY WorkersImplementRepository, Refinement, PTL

\* A run_once that ended well has its result stored, for good.
THEOREM SuccessIsStored == WorkerSpec => []SucceededMeansStored
<1>1. WorkerIInv => SucceededMeansStored
  BY DEF WorkerIInv, Settled, SucceededMeansStored
<1> QED BY <1>1, WorkerInvariance, PTL

\* The last lease a Worker held lives on between tasks only when its run_once
\* did not return.
THEOREM ReturnedLetGo == WorkerSpec => []OnlyAbortedKeepsLease
<1>1. WorkerIInv => OnlyAbortedKeepsLease
  <2> SUFFICES ASSUME WorkerIInv, NEW w \in Worker, NEW n \in Samples, Idle(w),
                      run[w].lease # NULL, check_lease(run[w].lease, n)
               PROVE  run[w].outcome = "aborted"
    BY DEF OnlyAbortedKeepsLease
  <2>1. run[w].outcome \in {"succeeded", "failed", "aborted"}
    BY DEF WorkerIInv, WorkerTypeOK, Run
  <2>2. run[w].outcome \notin {"succeeded", "failed"}
    BY DEF WorkerIInv, Settled, check_lease
  <2> QED BY <2>1, <2>2
<1> QED BY <1>1, WorkerInvariance, PTL

\* Inference runs only while the main thread waits for it.
THEOREM NoStrayChild == WorkerSpec => []ChildOnlyWhileExecuting
<1> QED BY WorkerInvariance, PTL DEF WorkerIInv

=============================================================================
