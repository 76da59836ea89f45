------------------------ MODULE TaskRepositoryProofs ------------------------
(***************************************************************************)
(* Proofs about TaskRepository, for every set of tasks, devices, Workers   *)
(* and requests and for every value of the time constants.                 *)
(***************************************************************************)
EXTENDS TaskRepository, TLAPS

-----------------------------------------------------------------------------
(* Rows: what each method makes of a row keeps the row's type and RowOK.   *)

\* min(now + LEASE_SECONDS, execution_deadline) is a time before the deadline.
LEMMA LeaseEndOK ==
    ASSUME NEW row \in Row, NEW n \in Nat
    PROVE  LeaseEnd(row, n) \in Nat /\ LeaseEnd(row, n) <= row.execution_deadline
BY NumberAssumption DEF LeaseEnd, Row

\* The delay of _backoff is defined for every attempt.
LEMMA BackoffType ==
    ASSUME NEW attempt \in Nat
    PROVE  backoff(attempt) \in Nat
BY NumberAssumption DEF backoff

\* Clearing the lease columns keeps the type of the row (fail, publish_result,
\* cancel, requeue_expired).
LEMMA UnleasedType ==
    ASSUME NEW row \in Row, NEW s \in Status
    PROVE  Unleased(row, s) \in Row
BY DEF Unleased, Row

\* Writing the columns of an error and of a result keeps the type of the row
\* (fail, publish_result).
LEMMA ErrorType ==
    ASSUME NEW row \in Row, NEW m \in Nat
    PROVE  [row EXCEPT !.next_attempt_at = m, !.error_json = EnvelopeFields] \in Row
BY DEF Row

LEMMA ResultType ==
    ASSUME NEW row \in Row, NEW result \in Result, NEW m \in Nat
    PROVE  [row EXCEPT !.result_json = result, !.result_expires_at = m] \in Row
BY DEF Row

\* A row never inserted has no lease, no result and no input.
LEMMA BlankOK ==
    ASSUME NEW t
    PROVE  Blank \in Row /\ RowOK(Blank, {}, t, {})
<1>1. Blank \in Row
  BY DEF Blank, Row, Status
<1>2. RowOK(Blank, {}, t, {})
  BY NumberAssumption
  DEF Blank, RowOK, LeasesOK, StatusOK, HolderOK, ResultOK, Held
<1> QED BY <1>1, <1>2

\* create_uploading inserts a row that no lease refers to.
LEMMA InsertedOK ==
    ASSUME NEW d \in Device, NEW e \in Request, NEW n \in Nat, NEW t, NEW I,
           NEW L, LeasesOK(Blank, L)
    PROVE  Inserted(d, e, n) \in Row /\ RowOK(Inserted(d, e, n), L, t, I)
<1>1. e.ttl_seconds \in Nat
  BY RequestAssumption
<1>2. Blank \in Row
  BY BlankOK
<1>3. Inserted(d, e, n) \in Row
  <2>1. n + e.ttl_seconds \in Nat
    BY <1>1
  <2>2. "uploading" \in Status
    BY DEF Status
  <2> QED BY <1>2, <2>1, <2>2 DEF Inserted, Row
<1>4. RowOK(Inserted(d, e, n), L, t, I)
  BY <1>1, NumberAssumption
  DEF Inserted, Blank, RowOK, LeasesOK, StatusOK, HolderOK, ResultOK, Held
<1> QED BY <1>3, <1>4

\* Closing a row that is not held only changes its status (expiry in
\* finalize_and_enqueue and requeue_expired).
LEMMA ExpiredOK ==
    ASSUME NEW row \in Row, NEW L, NEW t, NEW I, RowOK(row, L, t, I),
           row.status \in {"uploading", "queued"}
    PROVE  /\ [row EXCEPT !.status = "expired"] \in Row
           /\ RowOK([row EXCEPT !.status = "expired"], L, t, I)
<1>1. [row EXCEPT !.status = "expired"] \in Row
  BY DEF Row, Status, Terminal
<1>2. RowOK([row EXCEPT !.status = "expired"], L, t, I)
  BY DEF Row, RowOK, LeasesOK, StatusOK, HolderOK, ResultOK, Held
<1> QED BY <1>1, <1>2

\* finalize_and_enqueue queues a row together with its input.
LEMMA QueuedOK ==
    ASSUME NEW row \in Row, NEW L, NEW t, NEW I, RowOK(row, L, t, I),
           row.status = "uploading"
    PROVE  /\ [row EXCEPT !.status = "queued"] \in Row
           /\ RowOK([row EXCEPT !.status = "queued"], L, t, I \cup {t})
<1>1. [row EXCEPT !.status = "queued"] \in Row
  BY DEF Row, Status
<1>2. RowOK([row EXCEPT !.status = "queued"], L, t, I \cup {t})
  BY NumberAssumption DEF Row, RowOK, LeasesOK, StatusOK, HolderOK, ResultOK, Held
<1> QED BY <1>1, <1>2

\* cancel closes any live row.
LEMMA CanceledOK ==
    ASSUME NEW row \in Row, NEW L, NEW t, NEW I, RowOK(row, L, t, I),
           row.status \notin Terminal
    PROVE  /\ Unleased(row, "canceled") \in Row
           /\ RowOK(Unleased(row, "canceled"), L, t, I)
<1>1. Unleased(row, "canceled") \in Row
  BY UnleasedType DEF Status, Terminal
<1>2. RowOK(Unleased(row, "canceled"), L, t, I)
  BY DEF Row, Unleased, RowOK, LeasesOK, StatusOK, HolderOK, ResultOK, Held, Terminal
<1> QED BY <1>1, <1>2
\* claim_next: the new lease has the next generation and the row names it.
LEMMA LeasedOK ==
    ASSUME NEW row \in Row, NEW L, NEW t, NEW I, RowOK(row, L, t, I),
           row.status = "queued",
           NEW w \in Worker, NEW token \in Nat, NEW c \in Capability, NEW n \in Nat,
           NEW lease, lease.worker_id = w, lease.lease_token = token,
           lease.lease_generation = row.lease_generation + 1
    PROVE  /\ Leased(row, w, token, c, n) \in Row
           /\ RowOK(Leased(row, w, token, c, n), L \cup {lease}, t, I)
<1> DEFINE new == Leased(row, w, token, c, n)
           M   == L \cup {lease}
<1>1. LeaseEnd(row, n) \in Nat /\ LeaseEnd(row, n) <= row.execution_deadline
  BY LeaseEndOK
<1>2. hash_token(token) \in [sha256 : Nat] \cup {NULL}
  BY DEF hash_token
<1>3. c.capability_id \in CapabilityId
  BY DEF CapabilityId
<1>4. "leased" \in Status
  BY DEF Status, Held
<1>5. new \in Row
  <2> DEFINE end == LeaseEnd(row, n)
             hash == hash_token(token)
             id == c.capability_id
             next == row.attempt + 1
             gen == row.lease_generation + 1
  <2>1. /\ end \in Nat /\ hash \in [sha256 : Nat] \cup {NULL} /\ id \in CapabilityId
        /\ next \in Nat /\ gen \in Nat
    BY <1>1, <1>2, <1>3 DEF Row
  <2> HIDE DEF end, hash, id, next, gen
  <2>2. [row EXCEPT !.status = "leased", !.attempt = next, !.lease_owner = w,
                    !.lease_generation = gen, !.lease_token_hash = hash,
                    !.lease_until = end, !.bound_capability_id = id] \in Row
    BY <1>4, <2>1 DEF Row
  <2> QED BY <2>2 DEF Leased, end, hash, id, next, gen
<1>6. /\ new.status = "leased" /\ new.attempt = row.attempt + 1
      /\ new.lease_owner = w /\ new.lease_generation = row.lease_generation + 1
      /\ new.lease_token_hash = hash_token(token)
      /\ new.lease_until = LeaseEnd(row, n)
      /\ new.expires_at = row.expires_at
      /\ new.execution_deadline = row.execution_deadline
      /\ new.result_json = row.result_json
      /\ new.result_expires_at = row.result_expires_at
  BY DEF Leased, Row
<1>7. row.attempt \in Nat /\ row.lease_generation \in Nat /\ row.expires_at \in Nat
  BY DEF Row
<1> HIDE DEF new
<1>8. LeasesOK(new, M)
  BY <1>6, <1>7, NumberAssumption DEF RowOK, LeasesOK, StatusOK
<1>9. StatusOK(new, t, I)
  BY <1>6, <1>7 DEF RowOK, StatusOK
<1>10. HolderOK(new, M)
  BY <1>1, <1>6, <1>7, NullAssumption DEF RowOK, StatusOK, HolderOK, Held
<1>11. ResultOK(new, M)
  BY <1>6 DEF RowOK, ResultOK
<1> QED BY <1>5, <1>8, <1>9, <1>10, <1>11 DEF RowOK, new

\* start and heartbeat only move lease_until, never past the deadline.
LEMMA RenewedOK ==
    ASSUME NEW row \in Row, NEW L, NEW t, NEW I, RowOK(row, L, t, I),
           row.status \in Held, NEW n \in Nat
    PROVE  /\ Started(row, n) \in Row /\ RowOK(Started(row, n), L, t, I)
           /\ Heartbeaten(row, n) \in Row /\ RowOK(Heartbeaten(row, n), L, t, I)
<1>1. LeaseEnd(row, n) \in Nat /\ LeaseEnd(row, n) <= row.execution_deadline
  BY LeaseEndOK
<1>2. Started(row, n) \in Row /\ Heartbeaten(row, n) \in Row
  <2>1. "running" \in Status
    BY DEF Status, Held
  <2> QED BY <1>1, <2>1 DEF Started, Heartbeaten, Row
<1>3. RowOK(Started(row, n), L, t, I)
  BY <1>1, NullAssumption
  DEF Started, Row, RowOK, LeasesOK, StatusOK, HolderOK, ResultOK, Held
<1>4. RowOK(Heartbeaten(row, n), L, t, I)
  BY <1>1, NullAssumption
  DEF Heartbeaten, Row, RowOK, LeasesOK, StatusOK, HolderOK, ResultOK, Held
<1> QED BY <1>2, <1>3, <1>4

\* fail frees the row, for another attempt only while one is left.
LEMMA FailedOK ==
    ASSUME NEW row \in Row, NEW L, NEW t, NEW I, RowOK(row, L, t, I),
           row.status \in Held, NEW retryable \in BOOLEAN, NEW n \in Nat
    PROVE  /\ Failed(row, retryable, n) \in Row
           /\ RowOK(Failed(row, retryable, n), L, t, I)
<1>1. row.attempt \in Nat /\ n + backoff(row.attempt) \in Nat
  BY BackoffType DEF Row
<1>2. Unleased(row, "queued") \in Row /\ Unleased(row, "failed") \in Row
  BY UnleasedType DEF Status, Terminal
<1>3. Failed(row, retryable, n) \in Row
  BY <1>1, <1>2, ErrorType DEF Failed
<1>4. RowOK(Failed(row, retryable, n), L, t, I)
  BY DEF Failed, should_retry, Unleased, Row,
         RowOK, LeasesOK, StatusOK, HolderOK, ResultOK, Held
<1> QED BY <1>3, <1>4

\* publish_result stores the result of the lease the row names.
LEMMA SucceededOK ==
    ASSUME NEW row \in Row, NEW L, NEW t, NEW I, RowOK(row, L, t, I),
           row.status \in Held, NEW n \in Nat, row.execution_deadline > n,
           NEW lease \in L, lease.worker_id \in Worker, lease.lease_generation \in Nat,
           row.lease_generation = lease.lease_generation
    PROVE  /\ Succeeded(row, lease, n) \in Row
           /\ RowOK(Succeeded(row, lease, n), L, t, I)
<1> DEFINE result == [worker |-> lease.worker_id, generation |-> lease.lease_generation]
<1>1. result \in Result
  BY DEF Result
<1>2. n + RESULT_RETENTION_SECONDS \in Nat
  BY NumberAssumption
<1>3. Unleased(row, "succeeded") \in Row
  BY UnleasedType DEF Status, Terminal
<1>4. Succeeded(row, lease, n) \in Row
  BY <1>1, <1>2, <1>3, ResultType DEF Succeeded
<1> DEFINE new == Succeeded(row, lease, n)
<1>5. /\ new.status = "succeeded" /\ new.result_json = result
      /\ new.result_expires_at = n + RESULT_RETENTION_SECONDS
      /\ new.lease_owner = NULL /\ new.lease_token_hash = NULL /\ new.lease_until = NULL
      /\ new.attempt = row.attempt /\ new.lease_generation = row.lease_generation
      /\ new.expires_at = row.expires_at
      /\ new.execution_deadline = row.execution_deadline
  <2> DEFINE u == Unleased(row, "succeeded")
  <2>1. /\ u.status = "succeeded" /\ u.lease_owner = NULL
        /\ u.lease_token_hash = NULL /\ u.lease_until = NULL
        /\ u.attempt = row.attempt /\ u.lease_generation = row.lease_generation
        /\ u.expires_at = row.expires_at
        /\ u.execution_deadline = row.execution_deadline
    BY DEF Unleased, Row
  <2>2. u \in Row
    BY <1>3
  <2>3. new = [u EXCEPT !.result_json = result,
                        !.result_expires_at = n + RESULT_RETENTION_SECONDS]
    BY DEF Succeeded
  <2> HIDE DEF u, new, result
  <2> QED BY <2>1, <2>2, <2>3 DEF Row
<1>6. row.expires_at \in Nat
  BY DEF Row
<1> HIDE DEF new
<1>7. LeasesOK(new, L) /\ StatusOK(new, t, I) /\ HolderOK(new, L)
  BY <1>5 DEF RowOK, LeasesOK, StatusOK, HolderOK, Held
<1>8. ResultOK(new, L)
  <2>1. lease.lease_generation = new.attempt
    BY <1>5 DEF RowOK, LeasesOK
  <2>2. new.result_expires_at # NULL
    BY <1>2, <1>5, NullAssumption
  <2>3. new.result_expires_at - RESULT_RETENTION_SECONDS < new.expires_at
    BY <1>5, <1>6, NumberAssumption DEF RowOK, StatusOK
  <2>4. new.result_json # NULL
    BY <1>1, <1>5, NullAssumption DEF Result
  <2> QED BY <1>5, <2>1, <2>2, <2>3, <2>4 DEF ResultOK
<1> QED BY <1>4, <1>7, <1>8 DEF RowOK, new

\* requeue_expired closes, frees or leaves alone each row.
LEMMA SweptOK ==
    ASSUME NEW row \in Row, NEW L, NEW t, NEW I, RowOK(row, L, t, I),
           NEW n \in Nat
    PROVE  Swept(row, n) \in Row /\ RowOK(Swept(row, n), L, t, I)
<1> DEFINE again == row.expires_at > n /\ row.attempt < MAX_ATTEMPTS
<1>1. CASE row.status \in {"uploading", "queued"} /\ row.expires_at <= n
  BY <1>1, ExpiredOK DEF Swept, Lapsed, Held
<1>2. CASE Lapsed(row, n) /\ again
  <2>1. Swept(row, n) = [Unleased(row, "queued") EXCEPT !.next_attempt_at = n]
    BY <1>2 DEF Swept, Lapsed, Held
  <2>2. Unleased(row, "queued") \in Row
    BY UnleasedType DEF Status
  <2>3. Swept(row, n) \in Row
    BY <2>1, <2>2 DEF Row
  <2>4. RowOK(Swept(row, n), L, t, I)
    BY <1>2, <2>1
    DEF Lapsed, Unleased, Row, RowOK, LeasesOK, StatusOK, HolderOK, ResultOK, Held
  <2> QED BY <2>3, <2>4
<1>3. CASE Lapsed(row, n) /\ ~again
  <2>1. Swept(row, n) = [Unleased(row, "failed") EXCEPT !.error_json = BareError]
    BY <1>3 DEF Swept, Lapsed, Held
  <2>2. Unleased(row, "failed") \in Row
    BY UnleasedType DEF Status, Terminal
  <2>3. Swept(row, n) \in Row
    BY <2>1, <2>2 DEF Row
  <2>4. RowOK(Swept(row, n), L, t, I)
    BY <1>3, <2>1
    DEF Lapsed, Unleased, Row, RowOK, LeasesOK, StatusOK, HolderOK, ResultOK, Held
  <2> QED BY <2>3, <2>4
<1>4. CASE /\ ~(row.status \in {"uploading", "queued"} /\ row.expires_at <= n)
           /\ ~Lapsed(row, n)
  BY <1>4 DEF Swept
<1> QED BY <1>1, <1>2, <1>3, <1>4
-----------------------------------------------------------------------------
(* States: each method changes one row, or grants a lease, or sweeps.      *)

SameTask(r, q) == r.device = q.device /\ r.request = q.request

\* No method but create_uploading touches the device and the request of a row.
LEMMA TaskKept ==
    ASSUME NEW row \in Row
    PROVE  /\ \A s : SameTask([row EXCEPT !.status = s], row)
           /\ \A s : SameTask(Unleased(row, s), row)
           /\ \A w, tok, c, n : SameTask(Leased(row, w, tok, c, n), row)
           /\ \A n : SameTask(Started(row, n), row) /\ SameTask(Heartbeaten(row, n), row)
           /\ \A b, n : SameTask(Failed(row, b, n), row)
           /\ \A l, n : SameTask(Succeeded(row, l, n), row)
           /\ \A n : SameTask(Swept(row, n), row)
<1>1. \A s : SameTask([row EXCEPT !.status = s], row)
  BY DEF SameTask, Row
<1>2. \A s : SameTask(Unleased(row, s), row)
  BY DEF SameTask, Unleased, Row
<1>3. \A w, tok, c, n : SameTask(Leased(row, w, tok, c, n), row)
  BY DEF SameTask, Leased, Row
<1>4. \A n : SameTask(Started(row, n), row) /\ SameTask(Heartbeaten(row, n), row)
  BY DEF SameTask, Started, Heartbeaten, Row
<1>5. \A b, n : SameTask(Failed(row, b, n), row)
  BY DEF SameTask, Failed, Unleased, Row
<1>6. \A l, n : SameTask(Succeeded(row, l, n), row)
  BY DEF SameTask, Succeeded, Unleased, Row
<1>7. \A n : SameTask(Swept(row, n), row)
  BY DEF SameTask, Swept, Unleased, Row
<1> QED BY <1>1, <1>2, <1>3, <1>4, <1>5, <1>6, <1>7

\* A sample is a time.
LEMMA SampleType == TypeOK => Samples \subseteq Nat
BY DEF TypeOK, Samples

\* Keys stay unique when no row is inserted and none changes its task.
LEMMA KeysKept ==
    ASSUME OneTaskPerKey,
           \A u \in Task : (exists(u)' => exists(u)) /\ SameTask(tasks'[u], tasks[u])
    PROVE  OneTaskPerKey'
BY DEF OneTaskPerKey, exists, SameTask

\* The pattern of every method but claim_next and requeue_expired: one row is
\* replaced, nothing else but its input changes.
LEMMA OneRow ==
    ASSUME IInv, NEW t \in Task, exists(t), NEW r \in Row,
           SameTask(r, tasks[t]),
           tasks' = [tasks EXCEPT ![t] = r],
           UNCHANGED <<now, leases, tokens>>,
           inputs' \subseteq Task,
           \A u \in Task \ {t} : (u \in inputs') <=> (u \in inputs),
           RowOK(r, Of(t), t, inputs')
    PROVE  IInv'
<1>1. TypeOK'
  BY DEF IInv, TypeOK
<1>2. ASSUME NEW u \in Task
      PROVE  RowOK(tasks[u], Of(u), u, inputs)'
  <2>1. Of(u)' = Of(u)
    BY DEF Of
  <2>2. CASE u = t
    BY <2>1, <2>2 DEF IInv, TypeOK
  <2>3. CASE u # t
    <3>1. tasks'[u] = tasks[u] /\ ((u \in inputs)' <=> (u \in inputs))
      BY <2>3 DEF IInv, TypeOK
    <3>2. RowOK(tasks[u], Of(u), u, inputs)
      BY DEF IInv
    <3> QED BY <2>1, <3>1, <3>2 DEF RowOK, StatusOK
  <2> QED BY <2>2, <2>3
<1>3. OneTaskPerKey'
  <2>1. \A u \in Task : (exists(u)' => exists(u)) /\ SameTask(tasks'[u], tasks[u])
    BY DEF IInv, TypeOK, exists, SameTask
  <2> QED BY <2>1, KeysKept DEF IInv
<1> QED BY <1>1, <1>2, <1>3 DEF IInv

\* The empty database satisfies the invariant.
LEMMA InitIInv == Init => IInv
<1> SUFFICES ASSUME Init PROVE IInv
  OBVIOUS
<1>1. TypeOK
  BY BlankOK DEF Init, TypeOK
<1>2. ASSUME NEW t \in Task PROVE RowOK(tasks[t], Of(t), t, inputs)
  <2>1. Of(t) = {} /\ tasks[t] = Blank /\ inputs = {}
    BY DEF Init, Of
  <2> QED BY <2>1, BlankOK
<1>3. OneTaskPerKey
  BY DEF Init, OneTaskPerKey, exists, Blank
<1> QED BY <1>1, <1>2, <1>3 DEF IInv
\* create_uploading: a fresh row under a key no row has.
LEMMA CreateStep ==
    ASSUME IInv, NEW d \in Device, NEW e \in Request, NEW n \in Samples,
           create_uploading(d, e, n)
    PROVE  IInv'
<1>n. n \in Nat
  BY SampleType DEF IInv
<1>1. CASE UNCHANGED vars
  BY <1>1 DEF IInv, TypeOK, vars, Of, OneTaskPerKey, exists
<1>2. CASE /\ SameKey(d, e) = {}
           /\ \E t \in Task :
                 ~exists(t) /\ tasks' = [tasks EXCEPT ![t] = Inserted(d, e, n)]
           /\ UNCHANGED <<now, inputs, leases, tokens>>
  <2>1. PICK t \in Task : ~exists(t) /\ tasks' = [tasks EXCEPT ![t] = Inserted(d, e, n)]
    BY <1>2
  <2>2. LeasesOK(Blank, Of(t))
    <3>1. tasks[t].attempt = 0 /\ LeasesOK(tasks[t], Of(t))
      BY <2>1 DEF IInv, RowOK, StatusOK, exists
    <3>2. Blank.attempt = 0 /\ Blank.lease_generation = 0
      BY DEF Blank
    <3> QED BY <3>1, <3>2 DEF LeasesOK
  <2>3. /\ Inserted(d, e, n) \in Row
        /\ RowOK(Inserted(d, e, n), Of(t), t, inputs)
    BY <1>n, <2>2, InsertedOK
  <2>4. TypeOK'
    BY <1>2, <2>1, <2>3 DEF IInv, TypeOK
  <2>5. ASSUME NEW u \in Task PROVE RowOK(tasks[u], Of(u), u, inputs)'
    <3>1. Of(u)' = Of(u) /\ inputs' = inputs
      BY <1>2 DEF Of
    <3>2. CASE u = t
      BY <2>1, <2>3, <3>1, <3>2 DEF IInv, TypeOK
    <3>3. CASE u # t
      <4>1. tasks'[u] = tasks[u]
        BY <2>1, <3>3 DEF IInv, TypeOK
      <4> QED BY <3>1, <4>1 DEF IInv
    <3> QED BY <3>2, <3>3
  <2>6. OneTaskPerKey'
    <3>1. /\ tasks'[t].device = d /\ tasks'[t].request = e
          /\ \A u \in Task \ {t} : tasks'[u] = tasks[u]
      BY <2>1 DEF Inserted, Blank, IInv, TypeOK
    <3>2. \A u \in Task : ~(/\ exists(u)
                            /\ tasks[u].device = d
                            /\ tasks[u].request.idempotency_key = e.idempotency_key)
      BY <1>2 DEF SameKey
    <3> QED BY <3>1, <3>2 DEF IInv, OneTaskPerKey, exists
  <2> QED BY <2>4, <2>5, <2>6 DEF IInv
<1> QED BY <1>1, <1>2 DEF create_uploading

\* finalize_and_enqueue: closes an expired upload, or queues it with its input.
LEMMA FinalizeStep ==
    ASSUME IInv, NEW t \in Task, NEW digest, NEW n \in Samples,
           finalize_and_enqueue(t, digest, n)
    PROVE  IInv'
<1> DEFINE row == tasks[t]
<1>1. CASE UNCHANGED vars
  BY <1>1 DEF IInv, TypeOK, vars, Of, OneTaskPerKey, exists
<1>2. CASE ~UNCHANGED vars
  <2>1. /\ row.status = "uploading" /\ row \in Row
        /\ RowOK(row, Of(t), t, inputs)
    BY <1>2 DEF finalize_and_enqueue, IInv, TypeOK
  <2>2. exists(t)
    BY <2>1 DEF exists
  <2>3. CASE /\ tasks' = [tasks EXCEPT ![t] = [row EXCEPT !.status = "expired"]]
             /\ UNCHANGED <<now, inputs, leases, tokens>>
    <3>1. /\ [row EXCEPT !.status = "expired"] \in Row
          /\ RowOK([row EXCEPT !.status = "expired"], Of(t), t, inputs')
      BY <2>1, <2>3, ExpiredOK
    <3>2. SameTask([row EXCEPT !.status = "expired"], row)
      BY <2>1, TaskKept
    <3> QED BY <2>2, <2>3, <3>1, <3>2, OneRow DEF IInv, TypeOK
  <2>4. CASE /\ tasks' = [tasks EXCEPT ![t] = [row EXCEPT !.status = "queued"]]
             /\ inputs' = inputs \cup {t}
             /\ UNCHANGED <<now, leases, tokens>>
    <3>1. /\ [row EXCEPT !.status = "queued"] \in Row
          /\ RowOK([row EXCEPT !.status = "queued"], Of(t), t, inputs')
      BY <2>1, <2>4, QueuedOK
    <3>2. SameTask([row EXCEPT !.status = "queued"], row)
      BY <2>1, TaskKept
    <3>3. inputs' \subseteq Task /\ \A u \in Task \ {t} : (u \in inputs') <=> (u \in inputs)
      BY <2>4 DEF IInv, TypeOK
    <3> QED BY <2>2, <2>4, <3>1, <3>2, <3>3, OneRow
  <2> QED BY <1>2, <2>1, <2>3, <2>4 DEF finalize_and_enqueue
<1> QED BY <1>1, <1>2

\* cancel: closes a live row and clears its lease columns.
LEMMA CancelStep ==
    ASSUME IInv, NEW o, NEW t \in Task, cancel(o, t)
    PROVE  IInv'
<1>1. CASE UNCHANGED vars
  BY <1>1 DEF IInv, TypeOK, vars, Of, OneTaskPerKey, exists
<1>2. CASE /\ exists(t) /\ tasks[t].status \notin Terminal
           /\ tasks' = [tasks EXCEPT ![t] = Unleased(tasks[t], "canceled")]
           /\ UNCHANGED <<now, inputs, leases, tokens>>
  <2>1. tasks[t] \in Row /\ RowOK(tasks[t], Of(t), t, inputs)
    BY DEF IInv, TypeOK
  <2>2. /\ Unleased(tasks[t], "canceled") \in Row
        /\ RowOK(Unleased(tasks[t], "canceled"), Of(t), t, inputs')
        /\ SameTask(Unleased(tasks[t], "canceled"), tasks[t])
    BY <1>2, <2>1, CanceledOK, TaskKept
  <2> QED BY <1>2, <2>2, OneRow DEF IInv, TypeOK
<1> QED BY <1>1, <1>2 DEF cancel
\* claim_next: the granted lease has a generation no lease of the task had.
LEMMA ClaimStep ==
    ASSUME IInv, NEW w \in Worker, NEW list \in CapabilityLists, NEW n \in Samples,
           claim_next(w, list, n)
    PROVE  IInv'
<1>n. n \in Nat
  BY SampleType DEF IInv
<1>1. CASE UNCHANGED vars
  BY <1>1 DEF IInv, TypeOK, vars, Of, OneTaskPerKey, exists
<1>2. CASE ~UNCHANGED vars
  <2>1. PICK t \in Task, i \in DOMAIN list :
           tasks[t].status = "queued" /\ Grant(t, w, list[i], n)
    BY <1>2 DEF claim_next, Fitting, Windows, Due
  <2> DEFINE row == tasks[t]
             lease == [task_id |-> t, worker_id |-> w,
                       lease_generation |-> row.lease_generation + 1,
                       lease_token |-> tokens + 1, issued_at |-> now]
             new == Leased(row, w, tokens + 1, list[i], n)
  <2>2. /\ tasks' = [tasks EXCEPT ![t] = new]
        /\ leases' = leases \cup {lease}
        /\ tokens' = tokens + 1
        /\ UNCHANGED <<now, inputs>>
    BY <2>1 DEF Grant
  <2>3. row \in Row /\ RowOK(row, Of(t), t, inputs) /\ tokens + 1 \in Nat
    BY DEF IInv, TypeOK
  <2>4. list[i] \in Capability
    BY DEF Capability
  <2>5. lease \in Lease
    BY <2>3 DEF Lease, Row, IInv, TypeOK
  <2>6. new \in Row /\ RowOK(new, Of(t) \cup {lease}, t, inputs)
    <3>1. /\ lease.worker_id = w /\ lease.lease_token = tokens + 1
          /\ lease.lease_generation = row.lease_generation + 1
      OBVIOUS
    <3> HIDE DEF lease, row
    <3> QED BY <1>n, <2>1, <2>3, <2>4, <3>1, LeasedOK DEF row
  <2>7. SameTask(new, row)
    BY <2>3, TaskKept
  <2> HIDE DEF new
  <2>8. TypeOK'
    BY <2>2, <2>3, <2>5, <2>6 DEF IInv, TypeOK
  <2>9. ASSUME NEW u \in Task PROVE RowOK(tasks[u], Of(u), u, inputs)'
    <3>1. CASE u = t
      <4>1. Of(t)' = Of(t) \cup {lease}
        BY <2>2 DEF Of
      <4>2. tasks'[t] = new
        BY <2>2 DEF IInv, TypeOK
      <4> HIDE DEF lease
      <4> QED BY <2>2, <2>6, <3>1, <4>1, <4>2
    <3>2. CASE u # t
      <4>1. Of(u)' = Of(u) /\ tasks'[u] = tasks[u] /\ inputs' = inputs
        BY <2>2, <3>2 DEF Of, IInv, TypeOK
      <4> QED BY <4>1 DEF IInv
    <3> QED BY <3>1, <3>2
  <2>10. OneTaskPerKey'
    <3>1. \A u \in Task : (exists(u)' => exists(u)) /\ SameTask(tasks'[u], tasks[u])
      BY <2>1, <2>2, <2>7 DEF IInv, TypeOK, exists, SameTask
    <3> QED BY <3>1, KeysKept DEF IInv
  <2> QED BY <2>8, <2>9, <2>10 DEF IInv
<1> QED BY <1>1, <1>2

\* A lease that _check_lease lets through is one of its task's, and the task is
\* held before its deadline.
LEMMA CheckedLease ==
    ASSUME IInv, NEW lease \in leases, NEW n \in Nat, check_lease(lease, n)
    PROVE  /\ lease.task_id \in Task
           /\ lease.worker_id \in Worker /\ lease.lease_generation \in Nat
           /\ lease \in Of(lease.task_id)
           /\ exists(lease.task_id)
           /\ tasks[lease.task_id] \in Row
           /\ RowOK(tasks[lease.task_id], Of(lease.task_id), lease.task_id, inputs)
           /\ tasks[lease.task_id].status \in Held
           /\ tasks[lease.task_id].execution_deadline > n
           /\ tasks[lease.task_id].lease_generation = lease.lease_generation
<1>1. lease \in Lease
  BY DEF IInv, TypeOK
<1>2. lease.task_id \in Task /\ lease.worker_id \in Worker /\ lease.lease_generation \in Nat
  BY <1>1 DEF Lease
<1> QED BY <1>2 DEF IInv, TypeOK, Of, exists, check_lease, Held

\* start, heartbeat, fail, publish_result: one held row is replaced.
LEMMA LeaseMethodStep ==
    ASSUME IInv, NEW n \in Samples, LeaseStep(n)
    PROVE  IInv'
<1>n. n \in Nat
  BY SampleType DEF IInv
<1>1. CASE UNCHANGED vars
  BY <1>1 DEF IInv, TypeOK, vars, Of, OneTaskPerKey, exists
<1>2. CASE ~UNCHANGED vars
  <2>1. PICK lease \in leases :
           \/ start(lease, n)
           \/ heartbeat(lease, n)
           \/ \E retryable \in BOOLEAN : fail(lease, retryable, n)
           \/ publish_result(lease, n)
    BY DEF LeaseStep
  <2>2. check_lease(lease, n) /\ UNCHANGED <<now, inputs, leases, tokens>>
    BY <1>2, <2>1 DEF start, heartbeat, fail, publish_result, Refuse
  <2> DEFINE t == lease.task_id
             row == tasks[t]
  <2>3. /\ t \in Task /\ exists(t) /\ row \in Row /\ RowOK(row, Of(t), t, inputs')
        /\ row.status \in Held /\ row.execution_deadline > n
        /\ lease \in Of(t) /\ lease.worker_id \in Worker
        /\ lease.lease_generation \in Nat
        /\ row.lease_generation = lease.lease_generation
    BY <1>n, <2>2, CheckedLease
  <2>4. ASSUME NEW r \in Row, RowOK(r, Of(t), t, inputs'), SameTask(r, row),
               tasks' = [tasks EXCEPT ![t] = r]
        PROVE  IInv'
    BY <2>2, <2>3, <2>4, OneRow DEF IInv, TypeOK
  <2> HIDE DEF row, t
  <2>5. CASE tasks' = [tasks EXCEPT ![t] = Started(row, n)]
    BY <1>n, <2>3, <2>4, <2>5, RenewedOK, TaskKept
  <2>6. CASE tasks' = [tasks EXCEPT ![t] = Heartbeaten(row, n)]
    BY <1>n, <2>3, <2>4, <2>6, RenewedOK, TaskKept
  <2>7. ASSUME NEW retryable \in BOOLEAN, tasks' = [tasks EXCEPT ![t] = Failed(row, retryable, n)]
        PROVE  IInv'
    BY <1>n, <2>3, <2>4, <2>7, FailedOK, TaskKept
  <2>8. CASE tasks' = [tasks EXCEPT ![t] = Succeeded(row, lease, n)]
    BY <1>n, <2>3, <2>4, <2>8, SucceededOK, TaskKept
  <2> QED BY <1>2, <2>1, <2>5, <2>6, <2>7, <2>8
          DEF start, heartbeat, fail, publish_result, Refuse, row, t
<1> QED BY <1>1, <1>2

\* remove_input_artifacts: only a succeeded task loses its input.
LEMMA RemoveStep ==
    ASSUME IInv, NEW o, NEW t \in Task, remove_input_artifacts(o, t)
    PROVE  IInv'
<1>1. CASE UNCHANGED vars
  BY <1>1 DEF IInv, TypeOK, vars, Of, OneTaskPerKey, exists
<1>2. CASE /\ exists(t) /\ tasks[t].status = "succeeded"
           /\ inputs' = inputs \ {t}
           /\ UNCHANGED <<now, tasks, leases, tokens>>
  <2>1. TypeOK' /\ OneTaskPerKey'
    BY <1>2 DEF IInv, TypeOK, OneTaskPerKey, exists
  <2>2. ASSUME NEW u \in Task PROVE RowOK(tasks[u], Of(u), u, inputs)'
    <3>1. Of(u)' = Of(u) /\ tasks' = tasks /\ RowOK(tasks[u], Of(u), u, inputs)
      BY <1>2 DEF Of, IInv
    <3>2. StatusOK(tasks[u], u, inputs')
      BY <1>2, <3>1 DEF RowOK, StatusOK, Held
    <3> QED BY <3>1, <3>2 DEF RowOK
  <2> QED BY <2>1, <2>2 DEF IInv
<1> QED BY <1>1, <1>2 DEF remove_input_artifacts

\* requeue_expired: every row is swept at once.
LEMMA SweepStep ==
    ASSUME IInv, NEW n \in Samples, requeue_expired(n)
    PROVE  IInv'
<1>n. n \in Nat
  BY SampleType DEF IInv
<1>1. /\ tasks' = [t \in Task |-> Swept(tasks[t], n)]
      /\ UNCHANGED <<now, inputs, leases, tokens>>
  BY DEF requeue_expired
<1>2. ASSUME NEW u \in Task
      PROVE  /\ Swept(tasks[u], n) \in Row
             /\ RowOK(Swept(tasks[u], n), Of(u), u, inputs)
             /\ SameTask(Swept(tasks[u], n), tasks[u])
  <2>1. tasks[u] \in Row /\ RowOK(tasks[u], Of(u), u, inputs)
    BY DEF IInv, TypeOK
  <2> QED BY <1>n, <2>1, SweptOK, TaskKept
<1>3. TypeOK'
  BY <1>1, <1>2 DEF IInv, TypeOK
<1>4. ASSUME NEW u \in Task PROVE RowOK(tasks[u], Of(u), u, inputs)'
  <2>1. Of(u)' = Of(u) /\ tasks'[u] = Swept(tasks[u], n) /\ inputs' = inputs
    BY <1>1 DEF Of
  <2> QED BY <1>2, <2>1
<1>5. OneTaskPerKey'
  <2>1. \A u \in Task : exists(u)' => exists(u)
    BY <1>1 DEF exists, Swept, Lapsed, Held
  <2>2. \A u \in Task : SameTask(tasks'[u], tasks[u])
    BY <1>1, <1>2
  <2> QED BY <2>1, <2>2, KeysKept DEF IInv
<1> QED BY <1>3, <1>4, <1>5 DEF IInv

\* Every step of the repository keeps the invariant.
LEMMA NextIInv == IInv /\ [Next]_vars => IInv'
<1> SUFFICES ASSUME IInv, [Next]_vars PROVE IInv'
  OBVIOUS
<1>1. ASSUME NEW n \in Samples, DeviceStep(n) PROVE IInv'
  BY <1>1, CreateStep, FinalizeStep, CancelStep DEF DeviceStep
<1>2. ASSUME NEW n \in Samples, Claim(n) PROVE IInv'
  BY <1>2, ClaimStep DEF Claim
<1>3. ASSUME NEW n \in Samples, LeaseStep(n) PROVE IInv'
  BY <1>3, LeaseMethodStep
<1>4. ASSUME NEW o \in Owner, NEW t \in Task, remove_input_artifacts(o, t) PROVE IInv'
  BY <1>4, RemoveStep
<1>5. CASE Sweep
  BY <1>5, SweepStep DEF Sweep
<1>6. CASE Tick
  BY <1>6 DEF Tick, IInv, TypeOK, Of, OneTaskPerKey, exists
<1>7. CASE UNCHANGED vars
  BY <1>7 DEF IInv, TypeOK, vars, Of, OneTaskPerKey, exists
<1> QED BY <1>1, <1>2, <1>3, <1>4, <1>5, <1>6, <1>7 DEF Next, ServeNext

-----------------------------------------------------------------------------
(* The theorems *)

\* In every reachable state each row agrees with the leases granted for its
\* task, with the artifacts table and with the other rows' keys.
THEOREM Invariance == Spec => []IInv
<1> QED BY InitIInv, NextIInv, PTL DEF Spec
\* The variables keep their types.
THEOREM TypeCorrect == Spec => []TypeOK
<1> QED BY Invariance, PTL DEF IInv

\* At most one of a task's leases is ever honoured, whatever the clock samples
\* of the two calls: the fencing of late Workers.
THEOREM Fencing == Spec => []AtMostOneLiveLease
<1>1. IInv => AtMostOneLiveLease
  <2> SUFFICES ASSUME IInv, NEW l1 \in leases, NEW l2 \in leases,
                      NEW n1 \in Samples, NEW n2 \in Samples,
                      l1.task_id = l2.task_id,
                      check_lease(l1, n1), check_lease(l2, n2)
               PROVE  l1 = l2
    BY DEF AtMostOneLiveLease
  <2>1. n1 \in Nat /\ n2 \in Nat
    BY SampleType DEF IInv
  <2>2. l1 \in Of(l1.task_id) /\ l2 \in Of(l1.task_id)
    BY DEF Of
  <2>3. l1.lease_generation = l2.lease_generation
    BY DEF check_lease
  <2>4. LeasesOK(tasks[l1.task_id], Of(l1.task_id))
    BY <2>1, CheckedLease DEF RowOK
  <2> QED BY <2>2, <2>3, <2>4 DEF LeasesOK
<1> QED BY <1>1, Invariance, PTL

\* Only the last execution granted for a task can have stored its result.
THEOREM LastExecutionPublishes == Spec => []ResultFromLastLease
<1>1. IInv => ResultFromLastLease
  <2> SUFFICES ASSUME IInv, NEW t \in Task, tasks[t].result_json # NULL
               PROVE  \E lease \in Of(t) :
                        /\ tasks[t].result_json = [worker |-> lease.worker_id,
                                                   generation |-> lease.lease_generation]
                        /\ \A l \in Of(t) : l.lease_generation <= lease.lease_generation
    BY DEF ResultFromLastLease
  <2>1. RowOK(tasks[t], Of(t), t, inputs) /\ tasks[t].attempt \in Nat
    BY DEF IInv, TypeOK, Row
  <2>2. PICK lease \in Of(t) :
           /\ tasks[t].result_json = [worker |-> lease.worker_id,
                                      generation |-> lease.lease_generation]
           /\ lease.lease_generation = tasks[t].attempt
    BY <2>1 DEF RowOK, ResultOK
  <2>3. \A l \in Of(t) : l.lease_generation <= lease.lease_generation
    BY <2>1, <2>2 DEF RowOK, LeasesOK
  <2> QED BY <2>2, <2>3
<1> QED BY <1>1, Invariance, PTL

\* Every attempt is one lease and there are at most MAX_ATTEMPTS of them.
THEOREM BoundedAttempts == Spec => []AttemptsAreLeases
<1>1. IInv => AttemptsAreLeases
  <2> SUFFICES ASSUME IInv, NEW t \in Task
               PROVE  /\ tasks[t].attempt <= MAX_ATTEMPTS
                      /\ {lease.lease_generation : lease \in Of(t)} = 1..tasks[t].attempt
                      /\ \A l1, l2 \in Of(t) :
                            l1.lease_generation = l2.lease_generation => l1 = l2
    BY DEF AttemptsAreLeases
  <2>1. LeasesOK(tasks[t], Of(t))
    BY DEF IInv, RowOK
  <2> QED BY <2>1 DEF LeasesOK
<1> QED BY <1>1, Invariance, PTL

\* A queued or held task has its input.
THEOREM InputKept == Spec => []InputWhileRunnable
<1>1. IInv => InputWhileRunnable
  BY DEF IInv, RowOK, StatusOK, InputWhileRunnable
<1> QED BY <1>1, Invariance, PTL

\* An idempotency key names one task of its device.
THEOREM KeysUnique == Spec => []OneTaskPerKey
<1>1. IInv => OneTaskPerKey
  BY DEF IInv
<1> QED BY <1>1, Invariance, PTL
-----------------------------------------------------------------------------
(* Steps seen from one row, and the abstract specification.                *)

\* What one step of the repository may make of a row.
RowStep(r, q) ==
    \/ q = r
    \/ r.status = "absent"
       /\ \E d \in Device, e \in Request, n \in Nat : q = Inserted(d, e, n) /\ r.attempt = 0
    \/ r.status \in {"uploading", "queued"} /\ q = [r EXCEPT !.status = "expired"]
    \/ r.status = "uploading" /\ q = [r EXCEPT !.status = "queued"]
    \/ r.status \notin Terminal \cup {"absent"} /\ q = Unleased(r, "canceled")
    \/ r.status = "queued"
       /\ \E w, token : \E c \in Capability, n \in Nat :
             Suits(r.request, c) /\ q = Leased(r, w, token, c, n)
    \/ /\ r.status \in Held
       /\ WorkerOwner[r.lease_owner] = DeviceOwner[r.device]
       /\ \E n \in Nat : \/ q = Started(r, n)
                         \/ q = Heartbeaten(r, n)
                         \/ \E b \in BOOLEAN : q = Failed(r, b, n)
                         \/ \E l : /\ l.lease_generation = r.lease_generation
                                   /\ l.worker_id = r.lease_owner
                                   /\ q = Succeeded(r, l, n)
    \/ \E n \in Nat : q = Swept(r, n)

\* A row that is there stays the row of its device and request, and is not put
\* back.
MovesOn(r, q) ==
    /\ q.device = r.device /\ q.request = r.request
    /\ q.status # "absent"
    /\ q.status = "uploading" => r.status = "uploading"

LEMMA RowMovesOn ==
    ASSUME NEW r \in Row, NEW q, RowStep(r, q), r.status # "absent"
    PROVE  MovesOn(r, q)
<1>1. CASE q = r
  BY <1>1 DEF MovesOn
<1>2. CASE \/ r.status \in {"uploading", "queued"} /\ q = [r EXCEPT !.status = "expired"]
           \/ r.status = "uploading" /\ q = [r EXCEPT !.status = "queued"]
  BY <1>2 DEF Row, MovesOn
<1>3. CASE q = Unleased(r, "canceled")
  BY <1>3 DEF Row, Unleased, MovesOn
<1>4. CASE \E w, token, c, n : q = Leased(r, w, token, c, n)
  BY <1>4 DEF Row, Leased, MovesOn
<1>5. CASE \E n : q = Started(r, n) \/ q = Heartbeaten(r, n)
  BY <1>5 DEF Row, Started, Heartbeaten, MovesOn, Held
<1>6. CASE \E n, b : q = Failed(r, b, n)
  BY <1>6 DEF Row, Failed, Unleased, MovesOn
<1>7. CASE \E l, n : q = Succeeded(r, l, n)
  BY <1>7 DEF Row, Succeeded, Unleased, MovesOn
<1>8. CASE \E n : q = Swept(r, n)
  BY <1>8 DEF Row, Swept, Unleased, MovesOn
<1>9. CASE r.status \in Held /\ \E n \in Nat : q = Started(r, n) \/ q = Heartbeaten(r, n)
  BY <1>5, <1>9
<1> QED BY <1>1, <1>2, <1>3, <1>4, <1>5, <1>6, <1>7, <1>8 DEF RowStep

\* Every step of the repository is, for every row, one of these.
LEMMA RowSteps ==
    ASSUME IInv, [Next]_vars, NEW t \in Task
    PROVE  RowStep(tasks[t], tasks'[t])
<1>1. ASSUME NEW u \in Task, NEW q, tasks' = [tasks EXCEPT ![u] = q], RowStep(tasks[u], q)
      PROVE  RowStep(tasks[t], tasks'[t])
  <2>1. CASE t = u
    BY <1>1, <2>1 DEF IInv, TypeOK
  <2>2. CASE t # u
    <3>1. tasks'[t] = tasks[t]
      BY <1>1, <2>2 DEF IInv, TypeOK
    <3> QED BY <3>1 DEF RowStep
  <2> QED BY <2>1, <2>2
<1>2. CASE UNCHANGED tasks
  BY <1>2 DEF RowStep
<1>3. ASSUME NEW n \in Samples, DeviceStep(n), ~UNCHANGED tasks
      PROVE  RowStep(tasks[t], tasks'[t])
  <2>n. n \in Nat
    BY SampleType DEF IInv
  <2>1. ASSUME NEW d \in Device, NEW e \in Request, create_uploading(d, e, n)
        PROVE  RowStep(tasks[t], tasks'[t])
    <3>1. PICK u \in Task : ~exists(u) /\ tasks' = [tasks EXCEPT ![u] = Inserted(d, e, n)]
      BY <1>3, <2>1 DEF create_uploading, vars
    <3>2. tasks[u].status = "absent" /\ tasks[u].attempt = 0
      BY <3>1 DEF exists, IInv, RowOK, StatusOK
    <3>3. RowStep(tasks[u], Inserted(d, e, n))
      BY <2>n, <3>2 DEF RowStep
    <3> QED BY <1>1, <3>1, <3>3
  <2>2. ASSUME NEW u \in Task, NEW digest, finalize_and_enqueue(u, digest, n)
        PROVE  RowStep(tasks[t], tasks'[t])
    <3>1. /\ tasks[u].status = "uploading"
          /\ \/ tasks' = [tasks EXCEPT ![u] = [tasks[u] EXCEPT !.status = "expired"]]
             \/ tasks' = [tasks EXCEPT ![u] = [tasks[u] EXCEPT !.status = "queued"]]
      BY <1>3, <2>2 DEF finalize_and_enqueue, vars
    <3>2. /\ RowStep(tasks[u], [tasks[u] EXCEPT !.status = "expired"])
          /\ RowStep(tasks[u], [tasks[u] EXCEPT !.status = "queued"])
      BY <3>1 DEF RowStep
    <3> QED BY <1>1, <3>1, <3>2
  <2>3. ASSUME NEW o, NEW u \in Task, cancel(o, u)
        PROVE  RowStep(tasks[t], tasks'[t])
    <3>1. /\ tasks[u].status \notin Terminal \cup {"absent"}
          /\ tasks' = [tasks EXCEPT ![u] = Unleased(tasks[u], "canceled")]
      BY <1>3, <2>3 DEF cancel, vars, exists
    <3>2. RowStep(tasks[u], Unleased(tasks[u], "canceled"))
      BY <3>1 DEF RowStep
    <3> QED BY <1>1, <3>1, <3>2
  <2> QED BY <1>3, <2>1, <2>2, <2>3 DEF DeviceStep
<1>4. ASSUME NEW n \in Samples, Claim(n), ~UNCHANGED tasks
      PROVE  RowStep(tasks[t], tasks'[t])
  <2>n. n \in Nat
    BY SampleType DEF IInv
  <2>1. PICK w \in Worker, list \in CapabilityLists : claim_next(w, list, n)
    BY <1>4 DEF Claim
  <2>2. PICK u \in Task, i \in DOMAIN list :
           /\ tasks[u].status = "queued"
           /\ Suits(tasks[u].request, list[i])
           /\ Grant(u, w, list[i], n)
    BY <1>4, <2>1 DEF claim_next, Fitting, Windows, Due, IsMatch, vars
  <2>c. list[i] \in Capability
    BY DEF Capability
  <2>3. tasks' = [tasks EXCEPT ![u] = Leased(tasks[u], w, tokens + 1, list[i], n)]
    BY <2>2 DEF Grant
  <2>4. RowStep(tasks[u], Leased(tasks[u], w, tokens + 1, list[i], n))
    BY <2>n, <2>2, <2>c DEF RowStep
  <2> QED BY <1>1, <2>3, <2>4
<1>5. ASSUME NEW n \in Samples, LeaseStep(n), ~UNCHANGED tasks
      PROVE  RowStep(tasks[t], tasks'[t])
  <2>n. n \in Nat
    BY SampleType DEF IInv
  <2>1. PICK l \in leases :
           \/ start(l, n)
           \/ heartbeat(l, n)
           \/ \E b \in BOOLEAN : fail(l, b, n)
           \/ publish_result(l, n)
    BY <1>5 DEF LeaseStep
  <2>2. check_lease(l, n)
    BY <1>5, <2>1 DEF start, heartbeat, fail, publish_result, Refuse, vars
  <2> DEFINE u == l.task_id
  <2>3. /\ u \in Task /\ tasks[u].status \in Held
        /\ l.lease_generation = tasks[u].lease_generation
    BY <2>n, <2>2, CheckedLease
  <2>o. /\ l.worker_id = tasks[u].lease_owner
        /\ WorkerOwner[tasks[u].lease_owner] = DeviceOwner[tasks[u].device]
    BY <2>2 DEF check_lease, owner
  <2>4. \/ tasks' = [tasks EXCEPT ![u] = Started(tasks[u], n)]
        \/ tasks' = [tasks EXCEPT ![u] = Heartbeaten(tasks[u], n)]
        \/ \E b \in BOOLEAN : tasks' = [tasks EXCEPT ![u] = Failed(tasks[u], b, n)]
        \/ tasks' = [tasks EXCEPT ![u] = Succeeded(tasks[u], l, n)]
    BY <1>5, <2>1 DEF start, heartbeat, fail, publish_result, Refuse, vars
  <2>5. /\ RowStep(tasks[u], Started(tasks[u], n))
        /\ RowStep(tasks[u], Heartbeaten(tasks[u], n))
        /\ \A b \in BOOLEAN : RowStep(tasks[u], Failed(tasks[u], b, n))
        /\ RowStep(tasks[u], Succeeded(tasks[u], l, n))
    BY <2>n, <2>3, <2>o DEF RowStep
  <2> HIDE DEF u
  <2> QED BY <1>1, <2>3, <2>4, <2>5
<1>6. CASE Sweep
  <2>1. PICK n \in Samples : tasks' = [u \in Task |-> Swept(tasks[u], n)]
    BY <1>6 DEF Sweep, requeue_expired
  <2>2. n \in Nat
    BY SampleType DEF IInv
  <2> QED BY <2>1, <2>2 DEF RowStep
<1> QED BY <1>2, <1>3, <1>4, <1>5, <1>6
        DEF Next, ServeNext, Tick, remove_input_artifacts, vars

\* A terminal row is never written again: neither late calls nor cancels nor
\* sweeps change it.
THEOREM TerminalStays == Spec => TerminalIsFinal
<1>1. IInv /\ [Next]_vars =>
         [\A t \in Task : tasks[t].status \in Terminal => tasks'[t] = tasks[t]]_vars
  <2> SUFFICES ASSUME IInv, [Next]_vars, NEW t \in Task, tasks[t].status \in Terminal
               PROVE  tasks'[t] = tasks[t]
    OBVIOUS
  <2>1. RowStep(tasks[t], tasks'[t])
    BY RowSteps
  <2> QED BY <2>1 DEF RowStep, Terminal, Held, Swept, Lapsed
<1> QED BY <1>1, Invariance, PTL DEF Spec, TerminalIsFinal

\* What a step may make of an overdue row.
ClosesLate(r, q) == q = r \/ q.status \in Terminal \ {"succeeded"}

\* A method that commits when a row is overdue read the clock after its deadline.
LEMMA OverdueSample ==
    ASSUME IInv, NEW t \in Task, Overdue(t), NEW n \in Samples
    PROVE  /\ n \in Nat /\ tasks[t] \in Row
           /\ tasks[t].expires_at <= n /\ tasks[t].execution_deadline = tasks[t].expires_at
<1>1. n \in Nat /\ now \in Nat /\ now <= n + BUSY_TIMEOUT /\ BUSY_TIMEOUT \in Nat
  BY NumberAssumption DEF Samples, IInv, TypeOK
<1>2. tasks[t] \in Row /\ tasks[t].expires_at \in Nat
  BY DEF IInv, TypeOK, Row
<1>3. tasks[t].execution_deadline = tasks[t].expires_at
  BY DEF IInv, RowOK, StatusOK
<1>4. now >= tasks[t].expires_at + BUSY_TIMEOUT
  BY DEF Overdue
<1> QED BY <1>1, <1>2, <1>3, <1>4

\* A sweep closes what is overdue: a lapsed lease is not retried any more.
LEMMA SweptOverdue ==
    ASSUME NEW r \in Row, NEW n \in Nat, r.expires_at <= n
    PROVE  ClosesLate(r, Swept(r, n))
<1>1. r.expires_at \in Nat
  BY DEF Row
<1>2. CASE r.status \in {"uploading", "queued"}
  <2>1. Swept(r, n) = [r EXCEPT !.status = "expired"]
    BY <1>2 DEF Swept, Lapsed, Held
  <2>2. [r EXCEPT !.status = "expired"].status = "expired"
    BY DEF Row
  <2> QED BY <2>1, <2>2 DEF ClosesLate, Terminal
<1>3. CASE r.status \notin {"uploading", "queued"} /\ Lapsed(r, n)
  <2>1. Swept(r, n) = [Unleased(r, "failed") EXCEPT !.error_json = BareError]
    BY <1>1, <1>3 DEF Swept, Lapsed, Held
  <2> QED BY <2>1 DEF ClosesLate, Terminal, Unleased, Row
<1>4. CASE r.status \notin {"uploading", "queued"} /\ ~Lapsed(r, n)
  BY <1>4 DEF Swept, ClosesLate
<1> QED BY <1>2, <1>3, <1>4

\* Every step closes an overdue row or leaves it alone.
LEMMA OverdueSteps ==
    ASSUME IInv, [Next]_vars, NEW t \in Task, Overdue(t)
    PROVE  ClosesLate(tasks[t], tasks'[t])
<1>1. ASSUME NEW u \in Task, NEW q, tasks' = [tasks EXCEPT ![u] = q],
             t = u => ClosesLate(tasks[t], q)
      PROVE  ClosesLate(tasks[t], tasks'[t])
  <2>1. tasks'[t] = IF t = u THEN q ELSE tasks[t]
    BY <1>1 DEF IInv, TypeOK
  <2> QED BY <1>1, <2>1 DEF ClosesLate
<1>2. CASE UNCHANGED tasks
  BY <1>2 DEF ClosesLate
<1>3. exists(t) /\ tasks[t].status # "absent"
  BY DEF Overdue, exists
<1>4. ASSUME NEW n \in Samples, DeviceStep(n), ~UNCHANGED tasks
      PROVE  ClosesLate(tasks[t], tasks'[t])
  <2>1. ASSUME NEW d \in Device, NEW e \in Request, create_uploading(d, e, n)
        PROVE  ClosesLate(tasks[t], tasks'[t])
    <3>1. PICK u \in Task : ~exists(u) /\ tasks' = [tasks EXCEPT ![u] = Inserted(d, e, n)]
      BY <1>4, <2>1 DEF create_uploading, vars
    <3> QED BY <1>1, <1>3, <3>1
  <2>2. ASSUME NEW u \in Task, NEW digest, finalize_and_enqueue(u, digest, n)
        PROVE  ClosesLate(tasks[t], tasks'[t])
    <3>1. \/ tasks' = [tasks EXCEPT ![u] = [tasks[u] EXCEPT !.status = "expired"]]
          \/ /\ tasks[u].expires_at > n
             /\ tasks' = [tasks EXCEPT ![u] = [tasks[u] EXCEPT !.status = "queued"]]
      BY <1>4, <2>2 DEF finalize_and_enqueue, vars
    <3>2. tasks[t] \in Row /\ n \in Nat /\ tasks[t].expires_at \in Nat /\ tasks[t].expires_at <= n
      BY OverdueSample DEF Row
    <3>3. ClosesLate(tasks[t], [tasks[t] EXCEPT !.status = "expired"])
      BY <3>2 DEF ClosesLate, Terminal, Row
    <3>4. t = u => ~(tasks[u].expires_at > n)
      BY <3>2
    <3> QED BY <1>1, <3>1, <3>3, <3>4
  <2>3. ASSUME NEW o, NEW u \in Task, cancel(o, u)
        PROVE  ClosesLate(tasks[t], tasks'[t])
    <3>1. tasks' = [tasks EXCEPT ![u] = Unleased(tasks[u], "canceled")]
      BY <1>4, <2>3 DEF cancel, vars
    <3>2. ClosesLate(tasks[t], Unleased(tasks[t], "canceled"))
      BY OverdueSample, <1>4 DEF ClosesLate, Unleased, Terminal, Row
    <3> QED BY <1>1, <3>1, <3>2
  <2> QED BY <1>4, <2>1, <2>2, <2>3 DEF DeviceStep
<1>5. ASSUME NEW n \in Samples, Claim(n), ~UNCHANGED tasks
      PROVE  ClosesLate(tasks[t], tasks'[t])
  <2>1. PICK w \in Worker, list \in CapabilityLists : claim_next(w, list, n)
    BY <1>5 DEF Claim
  <2>2. PICK u \in Task, i \in DOMAIN list :
           tasks[u].expires_at > n /\ Grant(u, w, list[i], n)
    BY <1>5, <2>1 DEF claim_next, Fitting, Windows, Due, vars
  <2>3. tasks' = [tasks EXCEPT ![u] = Leased(tasks[u], w, tokens + 1, list[i], n)]
    BY <2>2 DEF Grant
  <2>4. t # u
    <3>1. n \in Nat /\ tasks[t].expires_at \in Nat /\ tasks[t].expires_at <= n
      BY OverdueSample DEF Row
    <3> QED BY <2>2, <3>1
  <2> QED BY <1>1, <2>3, <2>4
<1>6. ASSUME NEW n \in Samples, LeaseStep(n), ~UNCHANGED tasks
      PROVE  ClosesLate(tasks[t], tasks'[t])
  <2>1. PICK l \in leases :
           \/ start(l, n)
           \/ heartbeat(l, n)
           \/ \E b \in BOOLEAN : fail(l, b, n)
           \/ publish_result(l, n)
    BY <1>6 DEF LeaseStep
  <2>2. check_lease(l, n)
    BY <1>6, <2>1 DEF start, heartbeat, fail, publish_result, Refuse, vars
  <2> DEFINE u == l.task_id
  <2>3. u \in Task
    BY DEF IInv, TypeOK, Lease
  <2>4. t # u
    <3>1. n \in Nat /\ tasks[t].execution_deadline \in Nat /\ tasks[t].execution_deadline <= n
      BY OverdueSample DEF Row
    <3>2. tasks[u].execution_deadline > n
      BY <2>2 DEF check_lease
    <3> QED BY <3>1, <3>2
  <2>5. \/ tasks' = [tasks EXCEPT ![u] = Started(tasks[u], n)]
        \/ tasks' = [tasks EXCEPT ![u] = Heartbeaten(tasks[u], n)]
        \/ \E b \in BOOLEAN : tasks' = [tasks EXCEPT ![u] = Failed(tasks[u], b, n)]
        \/ tasks' = [tasks EXCEPT ![u] = Succeeded(tasks[u], l, n)]
    BY <1>6, <2>1 DEF start, heartbeat, fail, publish_result, Refuse, vars
  <2> HIDE DEF u
  <2> QED BY <1>1, <2>3, <2>4, <2>5
<1>7. CASE Sweep
  <2>1. PICK n \in Samples : tasks' = [u \in Task |-> Swept(tasks[u], n)]
    BY <1>7 DEF Sweep, requeue_expired
  <2>2. n \in Nat /\ tasks[t] \in Row /\ tasks[t].expires_at <= n
    BY OverdueSample
  <2> QED BY <2>1, <2>2, SweptOverdue
<1> QED BY <1>2, <1>4, <1>5, <1>6, <1>7
        DEF Next, ServeNext, Tick, remove_input_artifacts, vars

\* No lease outlives the deadline of its task, and what commits BUSY_TIMEOUT
\* past the deadline only closes the task, without a result.
THEOREM WithinDeadline == Spec => DeadlineRespected
<1> DEFINE A == \A t \in Task :
                   /\ tasks'[t].status \in Held =>
                         /\ tasks'[t].lease_until # NULL
                         /\ tasks'[t].lease_until <= tasks'[t].expires_at
                   /\ Overdue(t) =>
                         \/ tasks'[t] = tasks[t]
                         \/ tasks'[t].status \in Terminal \ {"succeeded"}
<1>1. IInv /\ IInv' /\ [Next]_vars => [A]_vars
  <2> SUFFICES ASSUME IInv, IInv', [Next]_vars, NEW t \in Task
               PROVE  /\ tasks'[t].status \in Held =>
                            /\ tasks'[t].lease_until # NULL
                            /\ tasks'[t].lease_until <= tasks'[t].expires_at
                      /\ Overdue(t) =>
                            \/ tasks'[t] = tasks[t]
                            \/ tasks'[t].status \in Terminal \ {"succeeded"}
    OBVIOUS
  <2>1. tasks'[t].status \in Held =>
           tasks'[t].lease_until # NULL /\ tasks'[t].lease_until <= tasks'[t].expires_at
    BY DEF IInv, RowOK, HolderOK
  <2>2. Overdue(t) => ClosesLate(tasks[t], tasks'[t])
    BY OverdueSteps
  <2> QED BY <2>1, <2>2 DEF ClosesLate
<1> QED BY <1>1, Invariance, PTL DEF Spec, DeadlineRespected

\* A held row is bound to a capability that suits its request, and only a
\* Worker of its owner ran it.
SuitablyHeld(r) ==
    /\ r.status \in Held =>
          \E c \in Capability : c.capability_id = r.bound_capability_id /\ Suits(r.request, c)
    /\ r.status = "running" => WorkerOwner[r.lease_owner] = DeviceOwner[r.device]
    /\ r.result_json # NULL => WorkerOwner[r.result_json.worker] = DeviceOwner[r.device]

LEMMA SuitablyHeldStays ==
    ASSUME NEW r \in Row, NEW q, NEW L, NEW t, NEW I,
           RowOK(r, L, t, I), SuitablyHeld(r), RowStep(r, q)
    PROVE  SuitablyHeld(q)
<1> DEFINE Own == WorkerOwner[r.lease_owner] = DeviceOwner[r.device]
<1>1. CASE q = r
  BY <1>1
<1>2. CASE r.status = "absent" /\ r.attempt = 0
           /\ \E d \in Device, e \in Request, n \in Nat : q = Inserted(d, e, n)
  BY <1>2 DEF Inserted, Blank, SuitablyHeld, Held
<1>n. r.status # "succeeded" => r.result_json = NULL
  BY DEF RowOK, ResultOK
<1>3. CASE \/ r.status \in {"uploading", "queued"} /\ q = [r EXCEPT !.status = "expired"]
           \/ r.status = "uploading" /\ q = [r EXCEPT !.status = "queued"]
  BY <1>3, <1>n DEF Row, SuitablyHeld, Held
<1>4. CASE r.status \notin Terminal \cup {"absent"} /\ q = Unleased(r, "canceled")
  BY <1>4, <1>n DEF Row, Terminal, Unleased, SuitablyHeld, Held
<1>5. CASE /\ r.status = "queued"
           /\ \E w, token : \E c \in Capability, n \in Nat :
                 Suits(r.request, c) /\ q = Leased(r, w, token, c, n)
  BY <1>5, <1>n DEF Row, Leased, SuitablyHeld, Held
<1>6. CASE r.status \in Held /\ Own /\ \E n \in Nat : q = Started(r, n) \/ q = Heartbeaten(r, n)
  BY <1>6 DEF Row, Started, Heartbeaten, SuitablyHeld, Held
<1>7. CASE r.status \in Held /\ \E n \in Nat, b \in BOOLEAN : q = Failed(r, b, n)
  BY <1>7, <1>n DEF Row, Failed, Unleased, SuitablyHeld, Held
<1>8. CASE /\ r.status \in Held
           /\ Own
           /\ \E l : \E n \in Nat : l.worker_id = r.lease_owner /\ q = Succeeded(r, l, n)
  BY <1>8 DEF Row, Succeeded, Unleased, SuitablyHeld, Held
<1>9. CASE \E n \in Nat : q = Swept(r, n)
  BY <1>9, <1>n DEF Row, Swept, Lapsed, Unleased, SuitablyHeld, Held
<1> QED BY <1>1, <1>2, <1>3, <1>4, <1>5, <1>6, <1>7, <1>8, <1>9 DEF RowStep

AllSuitablyHeld == \A t \in Task : SuitablyHeld(tasks[t])

LEMMA SuitableInvariance == Spec => []AllSuitablyHeld
<1>1. Init => AllSuitablyHeld
  BY DEF Init, Blank, AllSuitablyHeld, SuitablyHeld, Held
<1>2. IInv /\ AllSuitablyHeld /\ [Next]_vars => AllSuitablyHeld'
  <2> SUFFICES ASSUME IInv, AllSuitablyHeld, [Next]_vars, NEW t \in Task
               PROVE  SuitablyHeld(tasks'[t])
    BY DEF AllSuitablyHeld
  <2>1. RowStep(tasks[t], tasks'[t])
    BY RowSteps
  <2>2. tasks[t] \in Row /\ RowOK(tasks[t], Of(t), t, inputs) /\ SuitablyHeld(tasks[t])
    BY DEF IInv, TypeOK, AllSuitablyHeld
  <2> QED BY <2>1, <2>2, SuitablyHeldStays
<1> QED BY <1>1, <1>2, Invariance, PTL DEF Spec

\* The binding that runs a task meets every constraint of its request, for any
\* manifests and any order of registration and claims.
THEOREM RoutedRight == Spec => []BoundCapabilitySuits
<1>1. AllSuitablyHeld => BoundCapabilitySuits
  BY DEF AllSuitablyHeld, SuitablyHeld, BoundCapabilitySuits
<1> QED BY <1>1, SuitableInvariance, PTL

\* Owners are apart: a Worker of another owner may be leased a task, but it
\* never runs it and no result of its is stored.
THEOREM OwnersApart == Spec => []RunWithinOwner
<1>1. AllSuitablyHeld => RunWithinOwner
  BY DEF AllSuitablyHeld, SuitablyHeld, RunWithinOwner, owner
<1> QED BY <1>1, SuitableInvariance, PTL

\* The abstract life of a row that satisfies RowOK is read off its status and
\* its attempts.
LEMMA LifeOfRow ==
    ASSUME NEW r \in Row, NEW L, NEW t, NEW I, RowOK(r, L, t, I)
    PROVE  /\ LifeOf(r) = [phase |-> phase(r), executions |-> r.attempt,
                           published |-> IF r.status = "succeeded" THEN r.attempt ELSE 0]
           /\ LifeOf(r) \in Lifecycle!Life
<1>1. r.attempt \in 0..MAX_ATTEMPTS
  BY NumberAssumption DEF Row, RowOK, LeasesOK
<1>2. phase(r) \in Lifecycle!Phase
  BY DEF phase, Lifecycle!Phase
<1>3. r.result_json # NULL <=> r.status = "succeeded"
  BY DEF RowOK, ResultOK
<1>4. ASSUME r.status = "succeeded" PROVE r.result_json.generation = r.attempt
  <2>1. PICK lease \in L :
           /\ r.result_json = [worker |-> lease.worker_id,
                               generation |-> lease.lease_generation]
           /\ lease.lease_generation = r.attempt
    BY <1>4 DEF RowOK, ResultOK
  <2> QED BY <2>1
<1>5. LifeOf(r) = [phase |-> phase(r), executions |-> r.attempt,
                   published |-> IF r.status = "succeeded" THEN r.attempt ELSE 0]
  BY <1>3, <1>4 DEF LifeOf
<1>6. LifeOf(r) \in Lifecycle!Life
  BY <1>1, <1>2, <1>5, NumberAssumption DEF Lifecycle!Life
<1> QED BY <1>5, <1>6
\* The statuses and attempts of a row before and after a step.
LEMMA StatusSteps ==
    ASSUME NEW r \in Row, NEW q, RowStep(r, q)
    PROVE  \/ q.status = r.status /\ q.attempt = r.attempt
           \/ r.status = "absent" /\ q.status = "uploading" /\ q.attempt = r.attempt
           \/ r.status = "uploading" /\ q.status = "queued" /\ q.attempt = r.attempt
           \/ r.status = "queued" /\ q.status = "leased" /\ q.attempt = r.attempt + 1
           \/ r.status \in Held /\ q.status = "running" /\ q.attempt = r.attempt
           \/ /\ r.status \in Held /\ q.status = "queued" /\ q.attempt = r.attempt
              /\ r.attempt < MAX_ATTEMPTS
           \/ r.status \in Held /\ q.status = "succeeded" /\ q.attempt = r.attempt
           \/ /\ r.status \in {"uploading", "queued"} \cup Held
              /\ q.status \in {"failed", "expired", "canceled"}
              /\ q.attempt = r.attempt
<1>1. CASE q = r
  BY <1>1
<1>2. CASE r.status = "absent" /\ r.attempt = 0
           /\ \E d \in Device, e \in Request, n \in Nat : q = Inserted(d, e, n)
  BY <1>2 DEF Inserted, Blank
<1>3. CASE \/ r.status \in {"uploading", "queued"} /\ q = [r EXCEPT !.status = "expired"]
           \/ r.status = "uploading" /\ q = [r EXCEPT !.status = "queued"]
  BY <1>3 DEF Row
<1>4. CASE r.status \notin Terminal \cup {"absent"} /\ q = Unleased(r, "canceled")
  BY <1>4 DEF Row, Status, Unleased
<1>5. CASE r.status = "queued" /\ \E w, token, c : \E n \in Nat : q = Leased(r, w, token, c, n)
  BY <1>5 DEF Row, Leased
<1>6. CASE r.status \in Held /\ \E n \in Nat : q = Started(r, n) \/ q = Heartbeaten(r, n)
  BY <1>6 DEF Row, Started, Heartbeaten
<1>7. CASE r.status \in Held /\ \E n \in Nat, b \in BOOLEAN : q = Failed(r, b, n)
  BY <1>7 DEF Row, Failed, should_retry, Unleased
<1>8. CASE r.status \in Held /\ \E l : \E n \in Nat : q = Succeeded(r, l, n)
  BY <1>8 DEF Row, Succeeded, Unleased
<1>9. CASE \E n \in Nat : q = Swept(r, n)
  BY <1>9 DEF Row, Swept, Lapsed, Unleased
<1> QED BY <1>1, <1>2, <1>3, <1>4, <1>5, <1>6, <1>7, <1>8, <1>9 DEF RowStep

\* A step of a row is a step of its life, or leaves it as it was.
LEMMA LifeSteps ==
    ASSUME NEW r \in Row, NEW L, NEW t, NEW I, RowOK(r, L, t, I),
           NEW q \in Row, NEW M, NEW J, RowOK(q, M, t, J),
           RowStep(r, q)
    PROVE  LifeOf(q) = LifeOf(r) \/ Lifecycle!Step(LifeOf(r), LifeOf(q))
<1> DEFINE a == LifeOf(r)
           b == LifeOf(q)
<1>1. /\ a = [phase |-> phase(r), executions |-> r.attempt,
              published |-> IF r.status = "succeeded" THEN r.attempt ELSE 0]
      /\ b = [phase |-> phase(q), executions |-> q.attempt,
              published |-> IF q.status = "succeeded" THEN q.attempt ELSE 0]
  BY LifeOfRow
<1>2. r.status = "queued" => r.attempt < MAX_ATTEMPTS
  BY DEF RowOK, StatusOK
<1> HIDE DEF a, b
<1>3. CASE q.status = r.status /\ q.attempt = r.attempt
  BY <1>1, <1>3 DEF phase, a, b
<1>4. CASE r.status = "absent" /\ q.status = "uploading" /\ q.attempt = r.attempt
  <2>1. Lifecycle!Submit(a, b)
    BY <1>1, <1>4 DEF phase, Held, Lifecycle!Submit
  <2> QED BY <2>1 DEF Lifecycle!Step, a, b
<1>5. CASE r.status = "uploading" /\ q.status = "queued" /\ q.attempt = r.attempt
  <2>1. Lifecycle!Enqueue(a, b)
    BY <1>1, <1>5 DEF phase, Held, Lifecycle!Enqueue
  <2> QED BY <2>1 DEF Lifecycle!Step, a, b
<1>6. CASE r.status = "queued" /\ q.status = "leased" /\ q.attempt = r.attempt + 1
  <2>1. Lifecycle!Execute(a, b)
    <3>1. phase(r) = "ready" /\ phase(q) = "held"
      BY <1>6 DEF phase, Held
    <3>2. a = [phase |-> "ready", executions |-> r.attempt, published |-> 0]
      BY <1>1, <1>6, <3>1
    <3>3. b = [phase |-> "held", executions |-> r.attempt + 1, published |-> 0]
      BY <1>1, <1>6, <3>1
    <3> QED BY <1>2, <1>6, <3>2, <3>3 DEF Lifecycle!Execute
  <2> QED BY <2>1 DEF Lifecycle!Step, a, b
<1>7. CASE r.status \in Held /\ q.status = "running" /\ q.attempt = r.attempt
  BY <1>1, <1>7 DEF phase, Held, a, b
<1>8. CASE /\ r.status \in Held /\ q.status = "queued" /\ q.attempt = r.attempt
           /\ r.attempt < MAX_ATTEMPTS
  <2>1. Lifecycle!GiveUp(a, b)
    BY <1>1, <1>8 DEF phase, Held, Lifecycle!GiveUp
  <2> QED BY <2>1 DEF Lifecycle!Step, a, b
<1>9. CASE r.status \in Held /\ q.status = "succeeded" /\ q.attempt = r.attempt
  <2>1. Lifecycle!Publish(a, b)
    <3>1. phase(r) = "held" /\ phase(q) = "published"
      BY <1>9 DEF phase, Held
    <3>2. a = [phase |-> "held", executions |-> r.attempt, published |-> 0]
      BY <1>1, <1>9, <3>1 DEF Held
    <3>3. b = [phase |-> "published", executions |-> r.attempt, published |-> r.attempt]
      BY <1>1, <1>9, <3>1
    <3> QED BY <3>2, <3>3 DEF Lifecycle!Publish
  <2> QED BY <2>1 DEF Lifecycle!Step, a, b
<1>10. CASE /\ r.status \in {"uploading", "queued"} \cup Held
            /\ q.status \in {"failed", "expired", "canceled"}
            /\ q.attempt = r.attempt
  <2>1. Lifecycle!Close(a, b)
    BY <1>1, <1>10 DEF phase, Held, Lifecycle!Close
  <2> QED BY <2>1 DEF Lifecycle!Step, a, b
<1> QED BY StatusSteps, <1>3, <1>4, <1>5, <1>6, <1>7, <1>8, <1>9, <1>10

\* The repository implements TaskLifecycle: bounded executions, one holder at a
\* time, one published result, and closed tasks that stay closed.
THEOREM Refinement == Spec => ImplementsLifecycle
<1> DEFINE life == [t \in Task |-> LifeOf(tasks[t])]
<1>1. Init => Lifecycle!Init
  <2> SUFFICES ASSUME Init PROVE Lifecycle!Init
    OBVIOUS
  <2>1. LifeOf(Blank) = [phase |-> "unknown", executions |-> 0, published |-> 0]
    <3>1. Blank.status = "absent" /\ Blank.attempt = 0 /\ Blank.result_json = NULL
      BY DEF Blank
    <3>2. phase(Blank) = "unknown"
      BY <3>1 DEF phase, Held
    <3> QED BY <3>1, <3>2 DEF LifeOf
  <2> QED BY <2>1 DEF Init, Lifecycle!Init
<1>2. IInv /\ IInv' /\ [Next]_vars => [Lifecycle!Next]_life
  <2> SUFFICES ASSUME IInv, IInv', [Next]_vars PROVE Lifecycle!Next
    OBVIOUS
  <2>1. ASSUME NEW t \in Task
        PROVE  /\ life'[t] \in Lifecycle!Life
               /\ life'[t] = life[t] \/ Lifecycle!Step(life[t], life'[t])
    <3>1. /\ tasks[t] \in Row /\ RowOK(tasks[t], Of(t), t, inputs)
          /\ tasks'[t] \in Row /\ RowOK(tasks'[t], Of(t)', t, inputs')
      BY DEF IInv, TypeOK
    <3>2. RowStep(tasks[t], tasks'[t])
      BY RowSteps
    <3>3. life[t] = LifeOf(tasks[t]) /\ life'[t] = LifeOf(tasks'[t])
      BY DEF LifeOf
    <3>4. LifeOf(tasks'[t]) \in Lifecycle!Life
      BY <3>1, LifeOfRow
    <3>5. \/ LifeOf(tasks'[t]) = LifeOf(tasks[t])
          \/ Lifecycle!Step(LifeOf(tasks[t]), LifeOf(tasks'[t]))
      BY <3>1, <3>2, LifeSteps
    <3> HIDE DEF life
    <3> QED BY <3>3, <3>4, <3>5
  <2>2. life' \in [Task -> Lifecycle!Life]
    BY <2>1
  <2> QED BY <2>1, <2>2 DEF Lifecycle!Next
<1> QED BY <1>1, <1>2, Invariance, PTL DEF Spec, ImplementsLifecycle, Lifecycle!Spec
=============================================================================
