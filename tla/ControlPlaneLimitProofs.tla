----------------------- MODULE ControlPlaneLimitProofs -----------------------
(***************************************************************************)
(* Proofs about ControlPlane: how far concurrent requests pass the quota,  *)
(* and which steps leave a file behind that nobody removes.                *)
(***************************************************************************)
EXTENDS ControlPlaneProofs, FiniteSetTheorems

-----------------------------------------------------------------------------
(* Which rows are open *)

\* An open row was open before, and is the same device's, unless it was just
\* inserted.
LEMMA OpenBefore ==
    ASSUME IInv, [Next]_vars, NEW t \in Task, NEW d, t \in ActiveOf(d)', exists(t)
    PROVE  t \in ActiveOf(d)
<1>1. RowStep(tasks[t], tasks'[t]) /\ tasks[t] \in Row
  BY RowSteps DEF IInv, TypeOK
<1>2. tasks'[t].device = tasks[t].device
  BY <1>1, RowMovesOn DEF MovesOn, exists
<1>3. tasks[t].status \in Terminal => tasks'[t] = tasks[t]
  BY <1>1 DEF RowStep, Terminal, Held, Swept, Lapsed
<1> QED BY <1>2, <1>3 DEF ActiveOf, Active, exists

\* No method but create_uploading inserts a row.
LEMMA NothingInserted ==
    ASSUME IInv, NEW t \in Task, exists(t)', NEW n \in Samples,
           \/ UNCHANGED tasks
           \/ \E u \in Task : \E digest : finalize_and_enqueue(u, digest, n)
           \/ \E o \in Owner, u \in Task : cancel(o, u)
           \/ Claim(n) \/ LeaseStep(n) \/ requeue_expired(n)
    PROVE  exists(t)
<1>1. ASSUME NEW u \in Task, NEW r, tasks' = [tasks EXCEPT ![u] = r], exists(u)
      PROVE  exists(t)
  BY <1>1 DEF exists, IInv, TypeOK
<1>2. CASE UNCHANGED tasks
  BY <1>2 DEF exists
<1>3. ASSUME NEW u \in Task, NEW digest, finalize_and_enqueue(u, digest, n)
      PROVE  exists(t)
  BY <1>1, <1>2, <1>3 DEF finalize_and_enqueue, vars, exists
<1>4. ASSUME NEW o, NEW u \in Task, cancel(o, u)
      PROVE  exists(t)
  BY <1>1, <1>2, <1>4 DEF cancel, vars
<1>5. CASE Claim(n)
  <2>1. PICK w \in Worker, list \in CapabilityLists : claim_next(w, list, n)
    BY <1>5 DEF Claim
  <2>2. CASE ~UNCHANGED tasks
    <3>1. PICK u \in Due(n) : \E c : Grant(u, w, c, n)
      <4>1. PICK W \in Windows(n) :
               \/ UNCHANGED vars
               \/ \E u \in Fitting(W, list), i \in DOMAIN list : Grant(u, w, list[i], n)
        BY <2>1 DEF claim_next
      <4>2. Fitting(W, list) \subseteq Due(n)
        BY DEF Fitting, Windows
      <4> QED BY <2>2, <4>1, <4>2 DEF vars
    <3>2. u \in Task /\ exists(u)
      BY DEF Due, exists
    <3> QED BY <1>1, <3>1, <3>2 DEF Grant
  <2> QED BY <1>2, <2>2
<1>6. CASE LeaseStep(n)
  <2>1. PICK lease \in leases :
           start(lease, n) \/ heartbeat(lease, n) \/ publish_result(lease, n)
           \/ \E retryable \in BOOLEAN : fail(lease, retryable, n)
    BY <1>6 DEF LeaseStep
  <2>2. CASE UNCHANGED vars
    BY <1>2, <2>2 DEF vars
  <2>3. CASE ~UNCHANGED vars
    <3>1. check_lease(lease, n) /\ n \in Nat
      BY <2>1, <2>3, SampleType DEF start, heartbeat, fail, publish_result, Refuse, IInv
    <3>2. lease.task_id \in Task /\ exists(lease.task_id)
      BY <3>1, CheckedLease
    <3>3. \E r : tasks' = [tasks EXCEPT ![lease.task_id] = r]
      BY <2>1, <2>3 DEF start, heartbeat, fail, publish_result, Refuse
    <3> QED BY <1>1, <3>2, <3>3
  <2> QED BY <2>2, <2>3
<1>7. CASE requeue_expired(n)
  BY <1>7 DEF requeue_expired, Swept, Lapsed, Held, exists
<1> QED BY <1>2, <1>3, <1>4, <1>5, <1>6, <1>7

\* The steps of the server without Insert open no row of a device.
LEMMA NothingOpened ==
    ASSUME ControlIInv, Stop \/ OneMethod \/ UNCHANGED serverVars
                        \/ \E c \in Http : Route(c) /\ ~Insert(c),
           NEW d
    PROVE  ActiveOf(d)' \subseteq ActiveOf(d)
<1> USE DEF ControlIInv
<1>1. [Next]_vars
  BY ControlStep DEF ControlNext
<1>2. ASSUME NEW n \in Samples,
             \/ UNCHANGED tasks
             \/ \E u \in Task : \E digest : finalize_and_enqueue(u, digest, n)
             \/ \E o \in Owner, u \in Task : cancel(o, u)
             \/ Claim(n) \/ LeaseStep(n) \/ requeue_expired(n)
      PROVE  ActiveOf(d)' \subseteq ActiveOf(d)
  <2> SUFFICES ASSUME NEW t \in Task, t \in ActiveOf(d)' PROVE t \in ActiveOf(d)
    BY DEF ActiveOf, Active
  <2>1. exists(t)'
    BY DEF ActiveOf, Active
  <2>2. exists(t)
    BY <1>2, <2>1, NothingInserted
  <2> QED BY <1>1, <2>2, OpenBefore
<1>3. now \in Samples
  BY NumberAssumption DEF IInv, TypeOK, Samples
<1>4. CASE UNCHANGED tasks
  BY <1>2, <1>3, <1>4
<1>5. CASE Stop \/ UNCHANGED serverVars
  BY <1>4, <1>5 DEF Stop, serverVars, vars
<1>6. CASE OneMethod
  <2>1. ASSUME NEW n \in Samples, NEW lease \in leases, n >= lease.issued_at,
               \/ start(lease, n) \/ heartbeat(lease, n)
               \/ \E retryable \in BOOLEAN : fail(lease, retryable, n)
        PROVE  LeaseStep(n)
    BY <2>1 DEF LeaseStep
  <2>2. \/ UNCHANGED tasks
        \/ \E n \in Samples : \/ \E o \in Owner, u \in Task : cancel(o, u)
                              \/ Claim(n) \/ LeaseStep(n) \/ requeue_expired(n)
    BY <1>6, <2>1 DEF OneMethod, Sweep, Tick
  <2> QED BY <1>2, <1>4, <2>2
<1>7. ASSUME NEW c \in Http, Route(c), ~Insert(c)
      PROVE  ActiveOf(d)' \subseteq ActiveOf(d)
  <2>1. CASE Finalize(c)
    <3>1. http[c].task \in Task
      BY <2>1 DEF Finalize, In, UploadsApart, Uploading
    <3> QED BY <1>2, <2>1, <3>1 DEF Finalize
  <2>2. CASE Publish(c)
    BY <1>2, <2>2 DEF Publish, LeaseStep
  <2>3. CASE ~Finalize(c) /\ ~Publish(c)
    <3>1. UNCHANGED tasks
      BY <1>7, <2>3, Zenon DEF Route, Reserve, CountInstance, Begin, WriteFails, Written, Release,
         remove_input_artifacts, ReleaseFails, FinalizeFails, Unlink, vars
    <3> QED BY <1>4, <3>1, Zenon
  <2> QED BY <2>1, <2>2, <2>3
<1> QED BY <1>5, <1>6, <1>7

-----------------------------------------------------------------------------
(* Which requests are about to insert *)

Asking(d) == {c \in Http : http[c].at \in {"count", "insert"} /\ http[c].device = d}
Admitted == {c \in Http : In(c, "insert")}

\* A request of create_task begins in Reserve, and is let in by CountInstance.
LEMMA RequestMoves ==
    ASSUME ControlIInv, NEW c \in Http, Route(c)
    PROVE  \E r : /\ Becomes(c, r)
                  /\ r.at = "count" => Reserve(c)
                  /\ r.at = "insert" => /\ CountInstance(c)
                                        /\ r.device = http[c].device
                                        /\ Cardinality(Active) < MAX_INSTANCE_ACTIVE
<1> USE DEF ControlIInv, ControlTypeOK
<1>1. Free.at = "free"
  BY Unnamed
<1>2. CASE Reserve(c)
  <2>1. PICK d \in Device, e \in Request : Becomes(c, Creating("count", d, e))
    BY <1>2 DEF Reserve
  <2>2. Creating("count", d, e).at = "count"
    BY DEF Creating, Free
  <2> QED BY <1>2, <2>1, <2>2
<1>3. CASE CountInstance(c)
  <2> DEFINE r == Creating("insert", http[c].device, http[c].request)
  <2>1. \/ Becomes(c, r) /\ Cardinality(Active) < MAX_INSTANCE_ACTIVE
        \/ Becomes(c, Free)
    BY <1>3 DEF CountInstance
  <2>2. r.device = http[c].device /\ r.at = "insert"
    BY DEF Creating, Free
  <2> HIDE DEF r
  <2> QED BY <1>1, <1>3, <2>1, <2>2
<1>4. CASE \/ Insert(c) \/ WriteFails(c) \/ Finalize(c) \/ FinalizeFails(c)
           \/ ReleaseFails(c) \/ Unlink(c)
  <2>1. Becomes(c, Free)
    BY <1>4 DEF Insert, WriteFails, Finalize, FinalizeFails, ReleaseFails, Unlink
  <2> QED BY <1>1, <2>1
<1>5. CASE Begin(c)
  <2>1. PICK t \in Task : Becomes(c, [Free EXCEPT !.at = "writing", !.task = t, !.file = artifact(t)])
    BY <1>5, Zenon DEF Begin
  <2>2. [Free EXCEPT !.at = "writing", !.task = t, !.file = artifact(t)].at = "writing"
    BY DEF Free
  <2> QED BY <2>1, <2>2
<1>6. CASE Publish(c)
  <2>1. PICK lease \in leases : Becomes(c, [Free EXCEPT !.at = "release", !.task = lease.task_id])
    BY <1>6, Zenon DEF Publish
  <2>2. [Free EXCEPT !.at = "release", !.task = lease.task_id].at = "release"
    BY DEF Free
  <2> QED BY <2>1, <2>2
<1>7. CASE Written(c) \/ Release(c)
  <2> DEFINE written == [http[c] EXCEPT !.at = "finalize"]
             released == [http[c] EXCEPT !.at = "unlink", !.file = path[http[c].task]]
  <2>1. Becomes(c, written) \/ Becomes(c, released)
    BY <1>7 DEF Written, Release
  <2>2. written.at = "finalize" /\ released.at = "unlink"
    BY DEF HttpRequest
  <2> HIDE DEF written, released
  <2> QED BY <2>1, <2>2
<1> QED BY <1>2, <1>3, <1>4, <1>5, <1>6, <1>7 DEF Route

\* A step other than Reserve adds no request of a device, and one other than
\* CountInstance lets none in.
LEMMA NothingAsked ==
    ASSUME ControlIInv, [ControlNext]_serverVars, NEW d
    PROVE  /\ (\A c \in Http : ~Reserve(c)) => Asking(d)' \subseteq Asking(d)
           /\ (\A c \in Http : ~CountInstance(c)) => Admitted' \subseteq Admitted
<1> USE DEF ControlIInv, ControlTypeOK, Asking, Admitted, In
<1>1. CASE Stop
  BY <1>1, Unnamed DEF Stop
<1>2. CASE OneMethod \/ UNCHANGED serverVars
  BY <1>2 DEF OneMethod, serverVars, controlVars
<1>3. ASSUME NEW c \in Http, Route(c)
      PROVE  /\ ~Reserve(c) => Asking(d)' \subseteq Asking(d)
             /\ ~CountInstance(c) => Admitted' \subseteq Admitted
  <2>1. PICK r : /\ Becomes(c, r)
                 /\ r.at = "count" => Reserve(c)
                 /\ r.at = "insert" => /\ CountInstance(c)
                                       /\ r.device = http[c].device
                                       /\ Cardinality(Active) < MAX_INSTANCE_ACTIVE
    BY <1>3, RequestMoves
  <2>2. \A e \in Http : e # c => http'[e] = http[e]
    BY <2>1 DEF Becomes
  <2>3. http'[c] = r
    BY <2>1 DEF Becomes
  <2>4. CountInstance(c) => http[c].at = "count"
    BY DEF CountInstance
  <2>5. ASSUME ~Reserve(c) PROVE Asking(d)' \subseteq Asking(d)
    BY <2>1, <2>2, <2>3, <2>4, <2>5
  <2>6. ASSUME ~CountInstance(c) PROVE Admitted' \subseteq Admitted
    BY <2>1, <2>2, <2>3, <2>6
  <2> QED BY <2>5, <2>6
<1> QED BY <1>1, <1>2, <1>3 DEF ControlNext

\* What a step does to the two sets that QuotaOvershoot counts.
LEMMA QuotaCases ==
    ASSUME ControlIInv, [ControlNext]_serverVars, NEW d \in Device
    PROVE  \/ ActiveOf(d)' \subseteq ActiveOf(d) /\ Asking(d)' \subseteq Asking(d)
           \/ ActiveOf(d)' = ActiveOf(d) /\ reserve(d)
           \/ \E c \in Asking(d), t \in Task :
                 ActiveOf(d)' \subseteq ActiveOf(d) \cup {t} /\ Asking(d)' \subseteq Asking(d) \ {c}
<1>1. CASE \A c \in Http : ~Insert(c) /\ ~Reserve(c)
  BY <1>1, NothingOpened, NothingAsked DEF ControlNext
<1>2. ASSUME NEW c \in Http, Reserve(c)
      PROVE  \/ ActiveOf(d)' \subseteq ActiveOf(d) /\ Asking(d)' \subseteq Asking(d)
             \/ ActiveOf(d)' = ActiveOf(d) /\ reserve(d)
  <2>1. PICK e \in Device, q \in Request : reserve(e) /\ Becomes(c, Creating("count", e, q))
    BY <1>2 DEF Reserve
  <2>2. ActiveOf(d)' = ActiveOf(d)
    BY <1>2 DEF Reserve, vars, ActiveOf, Active, exists
  <2>3. CASE e = d
    BY <2>1, <2>2, <2>3
  <2>4. CASE e # d
    <3>1. Creating("count", e, q).device = e
      BY DEF Creating, Free
    <3>2. Asking(d)' \subseteq Asking(d)
      BY <2>1, <2>4, <3>1 DEF Asking, Becomes, ControlIInv, ControlTypeOK
    <3> QED BY <2>2, <3>2
  <2> QED BY <2>3, <2>4
<1>3. ASSUME NEW c \in Http, Insert(c)
      PROVE  \/ ActiveOf(d)' \subseteq ActiveOf(d) /\ Asking(d)' \subseteq Asking(d)
             \/ \E t \in Task :
                   /\ c \in Asking(d)
                   /\ ActiveOf(d)' \subseteq ActiveOf(d) \cup {t}
                   /\ Asking(d)' \subseteq Asking(d) \ {c}
  <2>1. PICK n \in Samples : create_uploading(http[c].device, http[c].request, n)
    BY <1>3 DEF Insert
  <2>2. Asking(d)' \subseteq Asking(d) \ {c}
    <3>1. Becomes(c, Free) /\ Free.at = "free"
      BY <1>3, Unnamed DEF Insert
    <3> QED BY <3>1 DEF Asking, Becomes, ControlIInv, ControlTypeOK
  <2>3. CASE UNCHANGED vars
    BY <2>2, <2>3 DEF vars, ActiveOf, Active, exists
  <2>4. CASE ~UNCHANGED vars
    <3>1. PICK t \in Task : tasks' = [tasks EXCEPT ![t] = Inserted(http[c].device, http[c].request, n)]
      BY <2>1, <2>4 DEF create_uploading
    <3>2. tasks \in [Task -> Row]
      BY DEF ControlIInv, IInv, TypeOK
    <3>3. ActiveOf(d)' \subseteq ActiveOf(d) \cup {t}
      BY <3>1, <3>2 DEF ActiveOf, Active, exists
    <3>4. CASE http[c].device = d
      <4>1. c \in Asking(d)
        BY <1>3, <3>4 DEF Insert, In, Asking
      <4> QED BY <2>2, <3>3, <4>1
    <3>5. CASE http[c].device # d
      <4>1. tasks'[t].device = http[c].device
        BY <3>1, <3>2 DEF Inserted, Blank
      <4>2. ActiveOf(d)' \subseteq ActiveOf(d)
        BY <3>3, <3>5, <4>1 DEF ActiveOf
      <4> QED BY <2>2, <4>2
    <3> QED BY <3>4, <3>5
  <2> QED BY <2>3, <2>4
<1> QED BY <1>1, <1>2, <1>3

\* What a step does to the two sets that InstanceOvershoot counts.
LEMMA InstanceCases ==
    ASSUME ControlIInv, [ControlNext]_serverVars
    PROVE  \/ Active' \subseteq Active /\ Admitted' \subseteq Admitted
           \/ Active' = Active /\ Cardinality(Active) < MAX_INSTANCE_ACTIVE
           \/ \E c \in Admitted, t \in Task :
                 Active' \subseteq Active \cup {t} /\ Admitted' \subseteq Admitted \ {c}
<1>1. ASSUME \A c \in Http : ~Insert(c) PROVE Active' \subseteq Active
  <2> SUFFICES ASSUME NEW t \in Active' PROVE t \in Active
    OBVIOUS
  <2>1. PICK d : d = tasks'[t].device
    OBVIOUS
  <2>2. t \in ActiveOf(d)'
    BY <2>1 DEF ActiveOf
  <2>3. ActiveOf(d)' \subseteq ActiveOf(d)
    BY <1>1, NothingOpened DEF ControlNext
  <2> QED BY <2>2, <2>3 DEF ActiveOf
<1>2. CASE \A c \in Http : ~Insert(c) /\ ~CountInstance(c)
  BY <1>1, <1>2, NothingAsked
<1>3. ASSUME NEW c \in Http, CountInstance(c)
      PROVE  \/ Active' \subseteq Active /\ Admitted' \subseteq Admitted
             \/ Active' = Active /\ Cardinality(Active) < MAX_INSTANCE_ACTIVE
  <2>1. Active' = Active
    BY <1>3 DEF CountInstance, vars, Active, exists
  <2>2. CASE Becomes(c, Free)
    BY <2>1, <2>2, Unnamed DEF Becomes, Admitted, In, ControlIInv, ControlTypeOK
  <2>3. CASE Cardinality(Active) < MAX_INSTANCE_ACTIVE
    BY <2>1, <2>3
  <2> QED BY <1>3, <2>2, <2>3 DEF CountInstance
<1>4. ASSUME NEW c \in Http, Insert(c)
      PROVE  \/ Active' \subseteq Active /\ Admitted' \subseteq Admitted
             \/ \E t \in Task :
                   /\ c \in Admitted
                   /\ Active' \subseteq Active \cup {t}
                   /\ Admitted' \subseteq Admitted \ {c}
  <2>1. PICK n \in Samples : create_uploading(http[c].device, http[c].request, n)
    BY <1>4 DEF Insert
  <2>2. c \in Admitted /\ Admitted' \subseteq Admitted \ {c}
    <3>1. Becomes(c, Free) /\ In(c, "insert")
      BY <1>4 DEF Insert
    <3> QED BY <3>1, Unnamed DEF Admitted, Becomes, In, ControlIInv, ControlTypeOK
  <2>3. CASE UNCHANGED vars
    BY <2>2, <2>3 DEF vars, Active, exists
  <2>4. CASE ~UNCHANGED vars
    <3>1. PICK t \in Task : tasks' = [tasks EXCEPT ![t] = Inserted(http[c].device, http[c].request, n)]
      BY <2>1, <2>4 DEF create_uploading
    <3>2. tasks \in [Task -> Row]
      BY DEF ControlIInv, IInv, TypeOK
    <3>3. Active' \subseteq Active \cup {t}
      BY <3>1, <3>2 DEF Active, exists
    <3> QED BY <2>2, <3>3
  <2> QED BY <2>3, <2>4
<1> QED BY <1>2, <1>3, <1>4

\* A limit is passed by no more than the requests in flight: whoever counted
\* last found the open rows below it, and from then on an insert only replaces
\* a request by a row.
LEMMA LimitKept ==
    ASSUME NEW max \in Nat, NEW open, NEW open1 \in SUBSET Task,
           NEW asking \in SUBSET Http, NEW asking1 \in SUBSET Http,
           open \in SUBSET Task,
           Cardinality(open) + Cardinality(asking) < max + Cardinality(Http),
           \/ open1 \subseteq open /\ asking1 \subseteq asking
           \/ open1 = open /\ Cardinality(open) < max
           \/ \E c \in asking, t \in Task :
                 open1 \subseteq open \cup {t} /\ asking1 \subseteq asking \ {c}
    PROVE  Cardinality(open1) + Cardinality(asking1) < max + Cardinality(Http)
<1>1. /\ IsFiniteSet(open) /\ IsFiniteSet(open1) /\ IsFiniteSet(asking) /\ IsFiniteSet(asking1)
      /\ Cardinality(asking1) <= Cardinality(Http)
  BY ControlAssumption, FS_Subset
<1>2. /\ Cardinality(open) \in Nat /\ Cardinality(open1) \in Nat
      /\ Cardinality(asking) \in Nat /\ Cardinality(asking1) \in Nat
      /\ Cardinality(Http) \in Nat
  BY <1>1, ControlAssumption, FS_CardinalityType
<1>3. CASE open1 \subseteq open /\ asking1 \subseteq asking
  <2>1. Cardinality(open1) <= Cardinality(open) /\ Cardinality(asking1) <= Cardinality(asking)
    BY <1>1, <1>3, FS_Subset
  <2> QED BY <1>2, <2>1
<1>4. CASE open1 = open /\ Cardinality(open) < max
  BY <1>1, <1>2, <1>4
<1>5. ASSUME NEW c \in asking, NEW t \in Task,
             open1 \subseteq open \cup {t}, asking1 \subseteq asking \ {c}
      PROVE  Cardinality(open1) + Cardinality(asking1) < max + Cardinality(Http)
  <2>1. Cardinality(asking1) <= Cardinality(asking) - 1
    <3>1. /\ IsFiniteSet(asking \ {c})
          /\ Cardinality(asking \ {c}) = Cardinality(asking) - 1
      BY <1>1, FS_RemoveElement
    <3>2. Cardinality(asking1) <= Cardinality(asking \ {c})
      BY <1>5, <3>1, FS_Subset
    <3> QED BY <3>1, <3>2
  <2>2. Cardinality(open1) <= Cardinality(open) + 1
    <3>1. /\ IsFiniteSet(open \cup {t})
          /\ \/ Cardinality(open \cup {t}) = Cardinality(open)
             \/ Cardinality(open \cup {t}) = Cardinality(open) + 1
      BY <1>1, FS_AddElement
    <3>2. Cardinality(open1) <= Cardinality(open \cup {t})
      BY <1>5, <3>1, FS_Subset
    <3> QED BY <1>2, <3>1, <3>2
  <2> QED BY <1>2, <2>1, <2>2
<1> QED BY <1>3, <1>4, <1>5

LEMMA QuotaStep ==
    ASSUME ControlIInv, QuotaOvershoot, [ControlNext]_serverVars
    PROVE  QuotaOvershoot'
<1> SUFFICES ASSUME NEW d \in Device
             PROVE  (Cardinality(ActiveOf(d)) + Cardinality(Asking(d))
                       < MAX_DEVICE_ACTIVE + Cardinality(Http))'
  BY DEF QuotaOvershoot, Asking
<1>1. /\ ActiveOf(d) \in SUBSET Task /\ ActiveOf(d)' \in SUBSET Task
      /\ Asking(d) \in SUBSET Http /\ Asking(d)' \in SUBSET Http
  BY DEF ActiveOf, Active, Asking
<1>2. Cardinality(ActiveOf(d)) + Cardinality(Asking(d)) < MAX_DEVICE_ACTIVE + Cardinality(Http)
  BY DEF QuotaOvershoot, Asking
<1>3. MAX_DEVICE_ACTIVE \in Nat
  BY ControlAssumption
<1>4. \/ ActiveOf(d)' \subseteq ActiveOf(d) /\ Asking(d)' \subseteq Asking(d)
      \/ ActiveOf(d)' = ActiveOf(d) /\ Cardinality(ActiveOf(d)) < MAX_DEVICE_ACTIVE
      \/ \E c \in Asking(d), t \in Task :
            ActiveOf(d)' \subseteq ActiveOf(d) \cup {t} /\ Asking(d)' \subseteq Asking(d) \ {c}
  BY QuotaCases DEF reserve
<1> QED BY <1>1, <1>2, <1>3, <1>4, LimitKept

LEMMA InstanceStep ==
    ASSUME ControlIInv, InstanceOvershoot, [ControlNext]_serverVars
    PROVE  InstanceOvershoot'
<1>1. /\ Active \in SUBSET Task /\ Active' \in SUBSET Task
      /\ Admitted \in SUBSET Http /\ Admitted' \in SUBSET Http
  BY DEF Active, Admitted
<1>2. Cardinality(Active) + Cardinality(Admitted) < MAX_INSTANCE_ACTIVE + Cardinality(Http)
  BY DEF InstanceOvershoot, Admitted
<1>3. MAX_INSTANCE_ACTIVE \in Nat
  BY ControlAssumption
<1>4. (Cardinality(Active) + Cardinality(Admitted) < MAX_INSTANCE_ACTIVE + Cardinality(Http))'
  BY <1>1, <1>2, <1>3, InstanceCases, LimitKept
<1> QED BY <1>4 DEF InstanceOvershoot, Admitted

\* However many requests count at the same time, what a device has open and is
\* about to insert stays below its limit plus the requests in flight
\* (quotas.py counts without writing a reservation).
THEOREM OvershootBounded == ControlSpec => []QuotaOvershoot
<1>1. ControlInit => QuotaOvershoot
  <2> SUFFICES ASSUME ControlInit, NEW d \in Device
               PROVE  Cardinality(ActiveOf(d)) + Cardinality(Asking(d))
                        < MAX_DEVICE_ACTIVE + Cardinality(Http)
    BY DEF QuotaOvershoot, Asking
  <2>1. ActiveOf(d) = {}
    BY DEF ControlInit, Init, ActiveOf, Active, exists, Blank
  <2>2. Asking(d) = {}
    BY Unnamed DEF ControlInit, Asking
  <2> QED BY <2>1, <2>2, ControlAssumption, FS_EmptySet, FS_CardinalityType
<1>2. ControlIInv /\ QuotaOvershoot /\ [ControlNext]_serverVars => QuotaOvershoot'
  BY QuotaStep
<1> QED BY <1>1, <1>2, ControlInvariance, PTL DEF ControlSpec

\* The count of the whole instance is passed no further than that either.
THEOREM InstanceOvershootBounded == ControlSpec => []InstanceOvershoot
<1>1. ControlInit => InstanceOvershoot
  <2> SUFFICES ASSUME ControlInit
               PROVE  Cardinality(Active) + Cardinality(Admitted)
                        < MAX_INSTANCE_ACTIVE + Cardinality(Http)
    BY DEF InstanceOvershoot, Admitted
  <2>1. Active = {}
    BY DEF ControlInit, Init, Active, exists, Blank
  <2>2. Admitted = {}
    BY Unnamed DEF ControlInit, Admitted, In
  <2> QED BY <2>1, <2>2, ControlAssumption, FS_EmptySet, FS_CardinalityType
<1>2. ControlIInv /\ InstanceOvershoot /\ [ControlNext]_serverVars => InstanceOvershoot'
  BY InstanceStep
<1> QED BY <1>1, <1>2, ControlInvariance, PTL DEF ControlSpec

-----------------------------------------------------------------------------
(* Files that nothing names *)

\* What names a complete file: a row, or a request that goes on.
NamedFiles == {path[t] : t \in inputs} \cup {http[c].file : c \in Http}

\* The step of one request, when every name it drops is taken over.
LEMMA NamesKept ==
    ASSUME ControlTypeOK, NEW c \in Http, NEW r, Becomes(c, r),
           files' \subseteq files \cup {r.file},
           \A t \in inputs : path[t] \in files' => path[t] \in NamedFiles',
           http[c].file \in files' => http[c].file \in NamedFiles'
    PROVE  Orphans' \subseteq Orphans
<1>1. http'[c] = r /\ \A d \in Http \ {c} : http'[d] = http[d]
  BY OneRequest
<1> SUFFICES ASSUME NEW f \in files', f \notin NamedFiles' PROVE f \in files /\ f \notin NamedFiles
  BY DEF Orphans, NamedFiles
<1>2. \A d \in Http : http'[d].file # f
  BY DEF NamedFiles
<1>3. f \in files
  BY <1>1, <1>2
<1>4. \A t \in inputs : path[t] # f
  OBVIOUS
<1>5. \A d \in Http : http[d].file # f
  BY <1>1, <1>2
<1> QED BY <1>3, <1>4, <1>5 DEF NamedFiles

\* Every step but a stop and the end of an upload that stores no row keeps a
\* name for every file it does not remove.
LEMMA OrphansStep ==
    ASSUME ControlIInv, NEW c \in Http, Route(c)
    PROVE  \/ Orphans' \subseteq Orphans
           \/ In(c, "finalize") /\ http'[c] = Free /\ inputs' = inputs
<1> USE DEF ControlIInv
<1>0. /\ path \in [Task -> File \cup {NULL}] /\ files \subseteq File /\ NULL \notin File
      /\ inputs \subseteq Task
  BY ControlAssumption DEF ControlTypeOK, IInv, TypeOK
<1>1. ASSUME NEW r, Becomes(c, r), UNCHANGED <<path, inputs, files>>, http[c].file = NULL
      PROVE  Orphans' \subseteq Orphans
  BY <1>0, <1>1, NamesKept DEF NamedFiles
<1>2. CASE Reserve(c) \/ CountInstance(c) \/ Insert(c) \/ Begin(c) \/ Publish(c) \/ ReleaseFails(c)
  <2>1. http[c].file = NULL
    BY <1>2 DEF Reserve, CountInstance, Insert, Begin, Publish, ReleaseFails, RequestsOK, In
  <2>2. UNCHANGED <<path, inputs, files>>
    BY <1>2 DEF Reserve, CountInstance, Insert, create_uploading, Begin, Publish, publish_result,
       Refuse, ReleaseFails, vars
  <2>3. \E r : Becomes(c, r)
    BY <1>2 DEF Reserve, CountInstance, Insert, Begin, Publish, ReleaseFails
  <2> QED BY <1>1, <2>1, <2>2, <2>3
<1>3. CASE WriteFails(c) \/ Unlink(c)
  <2>1. /\ Becomes(c, Free) /\ files' = files \ {http[c].file} /\ UNCHANGED <<path, inputs>>
    BY <1>3 DEF WriteFails, Unlink, vars
  <2> QED BY <2>1, NamesKept DEF NamedFiles
<1>4. CASE Written(c)
  <2> DEFINE r == [http[c] EXCEPT !.at = "finalize"]
  <2>1. /\ Becomes(c, r) /\ files' = files \cup {http[c].file} /\ UNCHANGED <<path, inputs>>
    BY <1>4 DEF Written, vars
  <2>2. r.file = http[c].file
    BY DEF ControlTypeOK, HttpRequest
  <2> HIDE DEF r
  <2>3. http'[c].file = http[c].file
    BY <2>1, <2>2, OneRequest
  <2> QED BY <2>1, <2>2, <2>3, NamesKept DEF NamedFiles
<1>5. CASE Finalize(c)
  <2>1. In(c, "finalize") /\ Becomes(c, Free) /\ UNCHANGED files /\ Named(c)
    BY <1>5 DEF Finalize
  <2>2. CASE inputs' = inputs
    BY <2>1, <2>2, OneRequest
  <2>3. CASE inputs' # inputs
    <3> DEFINE t == http[c].task
    <3>1. inputs' = inputs \cup {t} /\ path' = [path EXCEPT ![t] = http[c].file]
      BY <1>5, <2>1, <2>3 DEF Finalize, finalize_and_enqueue, vars, Named
    <3>2. t \in Task /\ t \notin inputs
      BY <2>1, <2>3, <3>1 DEF UploadsApart, Uploading, In
    <3>3. path'[t] = http[c].file /\ \A u \in inputs : path'[u] = path[u]
      BY <1>0, <3>1, <3>2
    <3>4. http[c].file \in NamedFiles' /\ \A u \in inputs : path[u] \in NamedFiles'
      BY <3>1, <3>3 DEF NamedFiles
    <3> QED BY <2>1, <3>4, NamesKept
  <2> QED BY <2>2, <2>3
<1>6. CASE Release(c)
  <2> DEFINE t == http[c].task
             r == [http[c] EXCEPT !.at = "unlink", !.file = path[t]]
  <2>1. /\ In(c, "release") /\ Becomes(c, r) /\ UNCHANGED files
        /\ path' = [path EXCEPT ![t] = NULL] /\ remove_input_artifacts(owner(t), t)
    BY <1>6 DEF Release
  <2>2. t \in Task /\ http[c].file = NULL
    BY <2>1 DEF RequestsOK, In
  <2>3. inputs' \subseteq inputs /\ inputs \subseteq inputs' \cup {t}
    BY <2>1 DEF remove_input_artifacts, vars
  <2>4. r.file = path[t]
    BY DEF ControlTypeOK, HttpRequest
  <2> HIDE DEF r
  <2>5. path[t] \in NamedFiles'
    <3>1. http'[c].file = path[t]
      BY <2>1, <2>4, OneRequest
    <3> QED BY <3>1 DEF NamedFiles
  <2>6. \A u \in inputs : path[u] \in NamedFiles'
    <3>1. \A u \in inputs \ {t} : path'[u] = path[u] /\ u \in inputs'
      BY <1>0, <2>1, <2>3
    <3> QED BY <2>5, <3>1 DEF NamedFiles
  <2> QED BY <1>0, <2>1, <2>2, <2>6, NamesKept
<1>7. CASE FinalizeFails(c)
  <2>1. In(c, "finalize") /\ Becomes(c, Free) /\ inputs' = inputs
    BY <1>7 DEF FinalizeFails, vars
  <2> QED BY <2>1, OneRequest
<1> QED BY <1>2, <1>3, <1>4, <1>5, <1>6, <1>7 DEF Route

\* A complete file loses its last name only in a stop of the server or at the
\* end of an upload that stores no row: publishing and broken uploads leave
\* none behind (routes_devices.py, routes_workers.py, storage.py).
THEOREM NothingElseLeaks == ControlSpec => OnlyUnstoredUploadsLeak
<1>1. ControlIInv /\ [ControlNext]_serverVars =>
         [\/ Orphans' \subseteq Orphans
          \/ stops' # stops
          \/ \E c \in Http : In(c, "finalize") /\ http'[c] = Free /\ inputs' = inputs]_serverVars
  <2> SUFFICES ASSUME ControlIInv, ControlNext
               PROVE  \/ Orphans' \subseteq Orphans
                      \/ stops' # stops
                      \/ \E c \in Http : In(c, "finalize") /\ http'[c] = Free /\ inputs' = inputs
    OBVIOUS
  <2>1. CASE Stop
    <3>1. stops \in Nat /\ stops' = stops + 1
      BY <2>1, ControlAssumption DEF Stop, ControlIInv, ControlTypeOK
    <3> QED BY <3>1
  <2>2. CASE OneMethod
    <3>1. UNCHANGED <<http, files, path>>
      BY <2>2 DEF OneMethod, controlVars
    <3>2. inputs' = inputs
      BY <2>2, OneMethodInputs
    <3> QED BY <3>1, <3>2 DEF Orphans
  <2>3. ASSUME NEW c \in Http, Route(c)
        PROVE  \/ Orphans' \subseteq Orphans
               \/ In(c, "finalize") /\ http'[c] = Free /\ inputs' = inputs
    BY <2>3, OrphansStep
  <2> QED BY <2>1, <2>2, <2>3 DEF ControlNext
<1> QED BY <1>1, ControlInvariance, PTL DEF ControlSpec, OnlyUnstoredUploadsLeak

=============================================================================
