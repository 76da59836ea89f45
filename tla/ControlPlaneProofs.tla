------------------------- MODULE ControlPlaneProofs -------------------------
(***************************************************************************)
(* Proofs about ControlPlane, for any number of requests in flight and any *)
(* number of stops.                                                        *)
(***************************************************************************)
EXTENDS ControlPlane, TaskRepositoryProofs

-----------------------------------------------------------------------------
(* What a step of the repository leaves alone.                             *)

\* A result stays stored.
LEMMA SucceededStays ==
    ASSUME IInv, [Next]_vars, NEW t \in Task, tasks[t].status = "succeeded"
    PROVE  tasks'[t].status = "succeeded"
<1>1. RowStep(tasks[t], tasks'[t])
  BY RowSteps
<1> QED BY <1>1 DEF RowStep, Terminal, Held, Swept, Lapsed

\* A task keeps the request and the device it was created with.
LEMMA RequestsStay ==
    ASSUME IInv, [Next]_vars, RowsHaveRequests
    PROVE  RowsHaveRequests'
<1> SUFFICES ASSUME NEW t \in Task, exists(t)'
             PROVE  tasks'[t].request \in Request /\ tasks'[t].device \in Device
  BY DEF RowsHaveRequests
<1> DEFINE r == tasks[t]
           q == tasks'[t]
<1>1. RowStep(r, q) /\ r \in Row
  BY RowSteps DEF IInv, TypeOK
<1>2. exists(t) => r.request \in Request /\ r.device \in Device
  BY DEF RowsHaveRequests
<1>3. CASE \E d \in Device, e \in Request, n \in Nat : q = Inserted(d, e, n)
  BY <1>3 DEF Inserted, Blank
<1>4. CASE ~\E d \in Device, e \in Request, n \in Nat : q = Inserted(d, e, n)
  <2> HIDE DEF r, q
  <2>1. SameTask(q, r)
    <3>1. CASE q = r
      BY <3>1 DEF SameTask
    <3>2. CASE q # r
      <4>1. \/ \E s : q = [r EXCEPT !.status = s]
            \/ \E s : q = Unleased(r, s)
            \/ \E w, tok, k, n : q = Leased(r, w, tok, k, n)
            \/ \E n : q = Started(r, n) \/ q = Heartbeaten(r, n)
            \/ \E n, x : q = Failed(r, x, n) \/ q = Succeeded(r, x, n)
            \/ \E n : q = Swept(r, n)
        BY <1>1, <1>4, <3>2 DEF RowStep
      <4> QED BY <1>1, <4>1, TaskKept
    <3> QED BY <3>1, <3>2
  <2>2. r.status = "absent" => q.status = "absent"
    BY <1>1, <1>4 DEF RowStep, Held, Swept, Lapsed
  <2>3. q.status # "absent" /\ (r.status # "absent" => r.request \in Request /\ r.device \in Device)
    BY <1>2 DEF exists, r, q
  <2> QED BY <2>1, <2>2, <2>3 DEF SameTask, q
<1> QED BY <1>3, <1>4

-----------------------------------------------------------------------------
(* The steps of a request                                                  *)

\* One request moves on.
LEMMA OneRequest ==
    ASSUME ControlTypeOK, NEW c \in Http, NEW r, Becomes(c, r)
    PROVE  /\ http'[c] = r
           /\ \A d \in Http \ {c} : http'[d] = http[d]
           /\ r \in HttpRequest => http' \in [Http -> HttpRequest]
BY DEF ControlTypeOK, Becomes

\* Steps on the repository alone.
LEMMA MethodStep ==
    ASSUME ControlIInv, [Next]_vars, inputs' = inputs, UNCHANGED controlVars
    PROVE  ControlIInv'
<1>1. IInv /\ IInv'
  BY NextIInv DEF ControlIInv
<1>2. RowsHaveRequests'
  BY <1>1, RequestsStay DEF ControlIInv
<1>3. RequestsOK'
  BY <1>1, SucceededStays DEF ControlIInv, RequestsOK, In, controlVars
<1>4. ControlTypeOK' /\ RowsNameFiles' /\ UploadsApart' /\ FilesCounted'
  BY DEF ControlIInv, ControlTypeOK, RowsNameFiles, UploadsApart, Uploading, FilesCounted,
         controlVars
<1> QED BY <1>1, <1>2, <1>3, <1>4 DEF ControlIInv

\* A request that is free, or about to insert, names no file.
LEMMA Unnamed == Free \in HttpRequest /\ Free.at = "free" /\ Free.file = NULL
BY DEF Free, HttpRequest

LEMMA Inserting ==
    ASSUME NEW d \in Device, NEW e \in Request, NEW at \in {"count", "insert"}, NEW r,
           r = Creating(at, d, e)
    PROVE  /\ r \in HttpRequest /\ r.at = at /\ r.file = NULL
           /\ r.device \in Device /\ r.request \in Request
BY DEF Creating, Free, HttpRequest

\* A request becomes one that names no file, and the files stay: create_task,
\* a file that was finalized too late, an answer.
LEMMA NamelessStep ==
    ASSUME ControlIInv, [Next]_vars, inputs' = inputs, UNCHANGED <<path, files, uploads, stops>>,
           NEW c \in Http, NEW r \in HttpRequest, Becomes(c, r),
           r.file = NULL, r.at \in {"free", "count", "insert", "release"},
           r.at \in {"count", "insert"} => r.device \in Device /\ r.request \in Request,
           r.at = "release" => r.task \in Task /\ tasks'[r.task].status = "succeeded"
    PROVE  ControlIInv'
<1>1. IInv /\ IInv' /\ ControlTypeOK
  BY NextIInv DEF ControlIInv
<1>2. http'[c] = r /\ (\A d \in Http \ {c} : http'[d] = http[d]) /\ http' \in [Http -> HttpRequest]
  BY <1>1, OneRequest
<1>3. RowsHaveRequests'
  BY <1>1, RequestsStay DEF ControlIInv
<1>4. RequestsOK'
  BY <1>1, <1>2, SucceededStays DEF ControlIInv, RequestsOK, In
<1>5. UploadsApart'
  BY <1>2 DEF ControlIInv, UploadsApart, Uploading
<1>6. FilesCounted'
  BY <1>2 DEF ControlIInv, FilesCounted
<1>7. ControlTypeOK' /\ RowsNameFiles'
  BY <1>2 DEF ControlIInv, ControlTypeOK, RowsNameFiles
<1> QED BY <1>1, <1>3, <1>4, <1>5, <1>6, <1>7 DEF ControlIInv

\* begin: a name that nothing has.
LEMMA BeginStep ==
    ASSUME ControlIInv, NEW c \in Http, Begin(c)
    PROVE  ControlIInv' /\ [Next]_vars
<1>1. PICK t \in Task :
         /\ tasks[t].status = "uploading"
         /\ Becomes(c, [Free EXCEPT !.at = "writing", !.task = t, !.file = artifact(t)])
  BY DEF Begin
<1> DEFINE f == artifact(t)
           r == [Free EXCEPT !.at = "writing", !.task = t, !.file = f]
<1>2. /\ UNCHANGED <<vars, files, path, stops>> /\ uploads' = uploads + 1 /\ uploads < MaxFiles
      /\ In(c, "free")
  BY DEF Begin
<1>3. IInv /\ IInv' /\ ControlTypeOK /\ [Next]_vars
  BY <1>2, NextIInv DEF ControlIInv
<1>4. uploads \in Nat /\ uploads' \in 0..MaxFiles
  BY <1>2, <1>3, ControlAssumption DEF ControlTypeOK
<1>5. f \in File /\ f.id = uploads + 1 /\ f.task = t
  BY <1>4 DEF artifact, File
<1>6. r \in HttpRequest /\ r.at = "writing" /\ r.task = t /\ r.file = f
  BY <1>5 DEF Free, HttpRequest
<1> HIDE DEF f, r
<1>7. http'[c] = r /\ (\A d \in Http \ {c} : http'[d] = http[d]) /\ http' \in [Http -> HttpRequest]
  <2>1. Becomes(c, r)
    BY <1>1 DEF r, f
  <2> QED BY <1>3, <1>6, <2>1, OneRequest
<1>8. /\ \A g \in files : g.id \in Nat /\ g.id <= uploads
      /\ \A d \in Http : http[d].file # NULL => http[d].file.id \in Nat /\ http[d].file.id <= uploads
  BY <1>3 DEF ControlIInv, FilesCounted, ControlTypeOK, HttpRequest, File
<1>9. f \notin files /\ f # NULL /\ \A d \in Http : http[d].file # f
  BY <1>4, <1>5, <1>8, ControlAssumption
<1>10. \A u \in Task : path[u] # f
  BY <1>9 DEF ControlIInv, RowsNameFiles
<1>11. UploadsApart'
  BY <1>2, <1>4, <1>5, <1>6, <1>7, <1>8, <1>9, <1>10 DEF ControlIInv, UploadsApart, Uploading
<1>12. FilesCounted'
  BY <1>2, <1>4, <1>5, <1>6, <1>7, <1>8 DEF FilesCounted
<1>13. RequestsOK'
  BY <1>2, <1>6, <1>7 DEF ControlIInv, RequestsOK, In, vars
<1>14. ControlTypeOK' /\ RowsNameFiles' /\ RowsHaveRequests'
  BY <1>2, <1>4, <1>7 DEF ControlIInv, ControlTypeOK, RowsNameFiles, RowsHaveRequests, exists, vars
<1> QED BY <1>3, <1>11, <1>12, <1>13, <1>14 DEF ControlIInv

\* A failed upload and the end of publish: a file goes that no row names and
\* no other upload writes.
LEMMA RemovalStep ==
    ASSUME ControlIInv, NEW c \in Http, WriteFails(c) \/ Unlink(c)
    PROVE  ControlIInv' /\ [Next]_vars
<1> DEFINE f == http[c].file
<1>1. /\ UNCHANGED <<vars, path, uploads, stops>> /\ files' = files \ {f}
      /\ Becomes(c, Free) /\ http[c].at \in {"writing", "unlink"}
  BY DEF WriteFails, Unlink, In
<1>2. IInv /\ IInv' /\ ControlTypeOK /\ [Next]_vars
  BY <1>1, NextIInv DEF ControlIInv
<1>3. /\ http'[c] = Free /\ (\A d \in Http \ {c} : http'[d] = http[d])
      /\ http' \in [Http -> HttpRequest]
  BY <1>1, <1>2, Unnamed, OneRequest
<1>4. \A t \in Task : path[t] # NULL => path[t] # f
  BY <1>1 DEF ControlIInv, UploadsApart, Uploading, RequestsOK, In
<1>5. \A t \in Task : t \in inputs => path[t] # NULL /\ path[t] # f
  <2>1. NULL \notin files
    BY <1>2, ControlAssumption DEF ControlTypeOK
  <2> QED BY <1>4, <2>1 DEF ControlIInv, RowsNameFiles
<1>6. RowsNameFiles' /\ RowsHaveRequests' /\ FilesCounted' /\ ControlTypeOK'
  BY <1>1, <1>3, <1>5, Unnamed
  DEF ControlIInv, RowsNameFiles, RowsHaveRequests, FilesCounted, ControlTypeOK, exists, vars
<1>7. UploadsApart'
  BY <1>1, <1>3, Unnamed DEF ControlIInv, UploadsApart, Uploading
<1>8. \A d \in Http \ {c} : http[d].at = "finalize" => http[d].file # f
  BY DEF ControlIInv, UploadsApart, Uploading
<1>9. RequestsOK'
  BY <1>1, <1>3, <1>8, Unnamed DEF ControlIInv, RequestsOK, In, vars
<1> QED BY <1>2, <1>6, <1>7, <1>9 DEF ControlIInv

\* os.replace: the file is complete, and still nobody else's.
LEMMA WrittenStep ==
    ASSUME ControlIInv, NEW c \in Http, Written(c)
    PROVE  ControlIInv' /\ [Next]_vars
<1> DEFINE f == http[c].file
           r == [http[c] EXCEPT !.at = "finalize"]
<1>1. /\ UNCHANGED <<vars, path, uploads, stops>> /\ files' = files \cup {f}
      /\ Becomes(c, r) /\ http[c].at = "writing"
  BY DEF Written, In
<1>2. IInv /\ IInv' /\ ControlTypeOK /\ [Next]_vars
  BY <1>1, NextIInv DEF ControlIInv
<1>3. /\ f # NULL /\ f.id <= uploads /\ f \in File /\ f.task = http[c].task
  BY <1>1, <1>2 DEF ControlIInv, UploadsApart, Uploading, ControlTypeOK, HttpRequest
<1>4. /\ r \in HttpRequest /\ r.at = "finalize" /\ r.file = f /\ r.task = http[c].task
  BY <1>2 DEF ControlTypeOK, HttpRequest
<1> HIDE DEF r
<1>5. http'[c] = r /\ (\A d \in Http \ {c} : http'[d] = http[d]) /\ http' \in [Http -> HttpRequest]
  BY <1>1, <1>2, <1>4, OneRequest
<1>6. RowsNameFiles' /\ RowsHaveRequests' /\ FilesCounted' /\ ControlTypeOK'
  BY <1>1, <1>3, <1>4, <1>5
  DEF ControlIInv, RowsNameFiles, RowsHaveRequests, FilesCounted, ControlTypeOK, exists, vars
<1>7. UploadsApart'
  BY <1>1, <1>3, <1>4, <1>5 DEF ControlIInv, UploadsApart, Uploading
<1>8. RequestsOK'
  BY <1>1, <1>4, <1>5 DEF ControlIInv, RequestsOK, In, vars
<1> QED BY <1>2, <1>6, <1>7, <1>8 DEF ControlIInv

\* finalize_and_enqueue is a step of the repository; when it takes the input,
\* the row names the file.
LEMMA FinalizeRoute ==
    ASSUME ControlIInv, NEW c \in Http, Finalize(c)
    PROVE  ControlIInv' /\ [Next]_vars
<1> DEFINE t == http[c].task
           f == http[c].file
<1>1. /\ http[c].at = "finalize" /\ Becomes(c, Free) /\ UNCHANGED <<files, uploads, stops>>
      /\ Named(c)
  BY DEF Finalize, In
<1>2. PICK n \in Samples : finalize_and_enqueue(t, canonical_json_digest(tasks[t].request), n)
  BY DEF Finalize
<1>3. IInv /\ ControlTypeOK /\ t \in Task /\ f \in files /\ f.task = t
  BY <1>1 DEF ControlIInv, UploadsApart, Uploading, RequestsOK, In
<1>4. [Next]_vars
  <2>1. CASE exists(t)
    <3>1. tasks[t].request \in Request
      BY <1>3, <2>1 DEF ControlIInv, RowsHaveRequests
    <3> QED BY <1>2, <1>3, <3>1 DEF Next, ServeNext, DeviceStep
  <2>2. CASE ~exists(t)
    BY <1>2, <2>2 DEF finalize_and_enqueue, exists
  <2> QED BY <2>1, <2>2
<1>5. IInv'
  BY <1>3, <1>4, NextIInv
<1>6. CASE inputs' = inputs
  BY <1>1, <1>4, <1>6, Unnamed, NamelessStep DEF Named
<1>7. CASE inputs' # inputs
  <2>1. inputs' = inputs \cup {t} /\ path' = [path EXCEPT ![t] = f]
    BY <1>1, <1>2, <1>7 DEF finalize_and_enqueue, vars, Named
  <2>2. /\ http'[c] = Free /\ (\A d \in Http \ {c} : http'[d] = http[d])
        /\ http' \in [Http -> HttpRequest]
    BY <1>1, <1>3, Unnamed, OneRequest
  <2>3. path'[t] = f /\ (\A u \in Task \ {t} : path'[u] = path[u]) /\ path' \in [Task -> File \cup {NULL}]
    BY <1>3, <2>1 DEF ControlTypeOK
  <2>4. ControlTypeOK'
    BY <1>1, <1>3, <2>2, <2>3 DEF ControlTypeOK
  <2>5. RowsNameFiles'
    BY <1>1, <1>3, <2>1, <2>3 DEF ControlIInv, RowsNameFiles
  <2>6. \A d \in Http \ {c} : http[d].file # f
    BY <1>1 DEF ControlIInv, UploadsApart, Uploading
  <2>7. UploadsApart'
    BY <1>1, <2>2, <2>3, <2>6, Unnamed DEF ControlIInv, UploadsApart, Uploading
  <2>8. FilesCounted'
    BY <1>1, <2>2, Unnamed DEF ControlIInv, FilesCounted
  <2>9. RowsHaveRequests'
    BY <1>3, <1>4, RequestsStay DEF ControlIInv
  <2>10. RequestsOK'
    BY <1>1, <1>3, <1>4, <2>2, <2>3, <2>6, Unnamed, SucceededStays DEF ControlIInv, RequestsOK, In
  <2> QED BY <1>4, <1>5, <2>4, <2>5, <2>7, <2>8, <2>9, <2>10 DEF ControlIInv
<1> QED BY <1>4, <1>6, <1>7

\* reserve, create_uploading and publish_result touch no file.
LEMMA TableRoutes ==
    ASSUME ControlIInv, NEW c \in Http, Reserve(c) \/ CountInstance(c) \/ Insert(c) \/ Publish(c)
                                          \/ ReleaseFails(c) \/ FinalizeFails(c)
    PROVE  ControlIInv' /\ [Next]_vars
<1>0. IInv /\ ControlTypeOK
  BY DEF ControlIInv
<1>1. CASE Reserve(c)
  <2>1. PICK d \in Device, e \in Request : Becomes(c, Creating("count", d, e))
    BY <1>1 DEF Reserve
  <2> DEFINE r == Creating("count", d, e)
  <2>2. /\ r \in HttpRequest /\ r.at = "count" /\ r.file = NULL
        /\ r.device \in Device /\ r.request \in Request
    BY Inserting
  <2> HIDE DEF r
  <2>3. Becomes(c, r)
    BY <2>1 DEF r
  <2>4. UNCHANGED <<vars, path, files, uploads, stops>> /\ inputs' = inputs
    BY <1>1 DEF Reserve, vars
  <2> QED BY <2>2, <2>3, <2>4, NamelessStep
<1>2. CASE Insert(c)
  <2>1. http[c].device \in Device /\ http[c].request \in Request
    BY <1>2 DEF Insert, In, ControlIInv, RequestsOK
  <2>2. PICK n \in Samples : create_uploading(http[c].device, http[c].request, n)
    BY <1>2 DEF Insert
  <2>3. [Next]_vars /\ inputs' = inputs
    BY <2>1, <2>2 DEF Next, ServeNext, DeviceStep, create_uploading, vars
  <2> QED BY <1>2, <2>3, Unnamed, NamelessStep DEF Insert
<1>3. CASE Publish(c)
  <2>1. PICK lease \in leases, n \in Samples :
           /\ n >= lease.issued_at /\ check_lease(lease, n) /\ publish_result(lease, n)
           /\ Becomes(c, [Free EXCEPT !.at = "release", !.task = lease.task_id])
    BY <1>3 DEF Publish
  <2>2. [Next]_vars
    BY <2>1 DEF Next, ServeNext, LeaseStep
  <2> DEFINE t == lease.task_id
             r == [Free EXCEPT !.at = "release", !.task = t]
  <2>3. t \in Task /\ tasks[t] \in Row
    BY <1>0 DEF IInv, TypeOK, Lease
  <2>4. tasks' = [tasks EXCEPT ![t] = Succeeded(tasks[t], lease, n)] /\ inputs' = inputs
    BY <2>1 DEF publish_result, Refuse
  <2>5. tasks'[t].status = "succeeded"
    <3>1. tasks'[t] = Succeeded(tasks[t], lease, n)
      BY <1>0, <2>3, <2>4 DEF IInv, TypeOK
    <3> QED BY <2>3, <3>1 DEF Succeeded, Unleased, Row
  <2>6. r \in HttpRequest /\ r.at = "release" /\ r.file = NULL /\ r.task = t
    BY <2>3 DEF Free, HttpRequest
  <2>7. Becomes(c, r) /\ UNCHANGED <<path, files, uploads, stops>>
    BY <1>3, <2>1 DEF Publish
  <2> HIDE DEF r, t
  <2> QED BY <2>2, <2>3, <2>4, <2>5, <2>6, <2>7, NamelessStep
<1>4. CASE CountInstance(c)
  <2>1. http[c].device \in Device /\ http[c].request \in Request
    BY <1>4 DEF CountInstance, In, ControlIInv, RequestsOK
  <2> DEFINE r == Creating("insert", http[c].device, http[c].request)
  <2>2. /\ r \in HttpRequest /\ r.at = "insert" /\ r.file = NULL
        /\ r.device \in Device /\ r.request \in Request
    BY <2>1, Inserting
  <2> HIDE DEF r
  <2>3. Becomes(c, r) \/ Becomes(c, Free)
    BY <1>4 DEF CountInstance, r
  <2>4. UNCHANGED <<vars, path, files, uploads, stops>> /\ inputs' = inputs
    BY <1>4 DEF CountInstance, vars
  <2> QED BY <2>2, <2>3, <2>4, Unnamed, NamelessStep
<1>5. CASE ReleaseFails(c) \/ FinalizeFails(c)
  <2>1. UNCHANGED <<vars, path, files, uploads, stops>> /\ inputs' = inputs /\ Becomes(c, Free)
    BY <1>5 DEF ReleaseFails, FinalizeFails, vars
  <2> QED BY <2>1, Unnamed, NamelessStep
<1> QED BY <1>1, <1>2, <1>3, <1>4, <1>5

\* remove_input_artifacts: the row goes first, and its file is the request's.
LEMMA ReleaseRoute ==
    ASSUME ControlIInv, NEW c \in Http, Release(c)
    PROVE  ControlIInv' /\ [Next]_vars
<1> DEFINE t == http[c].task
           f == path[t]
           r == [http[c] EXCEPT !.at = "unlink", !.file = f]
<1>1. /\ http[c].at = "release" /\ Becomes(c, r) /\ UNCHANGED <<files, uploads, stops>>
      /\ path' = [path EXCEPT ![t] = NULL] /\ remove_input_artifacts(owner(t), t)
  BY DEF Release, In
<1>2. IInv /\ ControlTypeOK /\ t \in Task /\ tasks[t].status = "succeeded"
  BY <1>1 DEF ControlIInv, RequestsOK, In
<1>3. exists(t) /\ owner(t) \in Owner
  <2>1. exists(t)
    BY <1>2 DEF exists
  <2>2. tasks[t].device \in Device
    BY <1>2, <2>1 DEF ControlIInv, RowsHaveRequests
  <2> QED BY <2>1, <2>2 DEF owner, Owner
<1>4. [Next]_vars
  BY <1>1, <1>2, <1>3 DEF Next, ServeNext
<1>5. IInv' /\ RowsHaveRequests'
  BY <1>2, <1>4, NextIInv, RequestsStay DEF ControlIInv
<1>6. inputs' = inputs \ {t}
  BY <1>1, <1>2, <1>3 DEF remove_input_artifacts
<1>7. /\ f \in File \cup {NULL}
      /\ r \in HttpRequest /\ r.at = "unlink" /\ r.file = f /\ r.task = t
  <2>1. f \in File \cup {NULL}
    BY <1>2 DEF ControlTypeOK
  <2> HIDE DEF f
  <2> QED BY <1>2, <2>1 DEF ControlTypeOK, HttpRequest
<1> HIDE DEF r
<1>8. http'[c] = r /\ (\A d \in Http \ {c} : http'[d] = http[d]) /\ http' \in [Http -> HttpRequest]
  BY <1>1, <1>2, <1>7, OneRequest
<1>9. /\ path'[t] = NULL /\ (\A u \in Task \ {t} : path'[u] = path[u])
      /\ path' \in [Task -> File \cup {NULL}]
  BY <1>1, <1>2 DEF ControlTypeOK
<1>10. \A u \in Task \ {t} : path[u] # NULL => path[u] # f
  BY <1>2 DEF ControlIInv, RowsNameFiles
<1>11. f # NULL => f \in files
  BY <1>2 DEF ControlIInv, RowsNameFiles
<1>12. ControlTypeOK'
  BY <1>1, <1>2, <1>8, <1>9 DEF ControlTypeOK
<1>13. RowsNameFiles'
  BY <1>1, <1>2, <1>6, <1>9 DEF ControlIInv, RowsNameFiles
<1>14. \A d \in Http : Uploading(d) => http[d].file # f
  BY <1>2 DEF ControlIInv, UploadsApart
<1>15. UploadsApart'
  <2> HIDE DEF f
  <2> QED BY <1>1, <1>7, <1>8, <1>9, <1>14 DEF ControlIInv, UploadsApart, Uploading
<1>16. FilesCounted'
  <2>1. f # NULL => f.id <= uploads
    BY <1>11 DEF ControlIInv, FilesCounted
  <2> HIDE DEF f
  <2> QED BY <1>1, <1>7, <1>8, <2>1 DEF ControlIInv, FilesCounted
<1>17. RequestsOK'
  <2>1. \A d \in Http : In(d, "release") => tasks'[http[d].task].status = "succeeded"
    BY <1>2, <1>4, SucceededStays DEF ControlIInv, RequestsOK
  <2> HIDE DEF f
  <2> QED BY <1>1, <1>7, <1>8, <1>9, <1>10, <2>1 DEF ControlIInv, RequestsOK, In
<1> QED BY <1>4, <1>5, <1>12, <1>13, <1>15, <1>16, <1>17 DEF ControlIInv

\* The server stops: requests are gone, rows and files stay.
LEMMA StopStep ==
    ASSUME ControlIInv, Stop
    PROVE  ControlIInv' /\ [Next]_vars
<1>1. /\ UNCHANGED <<vars, files, path, uploads>> /\ http' = [c \in Http |-> Free]
      /\ stops' = stops + 1 /\ stops < MaxStops
  BY DEF Stop
<1>2. IInv /\ IInv' /\ ControlTypeOK /\ [Next]_vars
  BY <1>1, NextIInv DEF ControlIInv
<1>3. http' \in [Http -> HttpRequest] /\ \A c \in Http : http'[c] = Free
  BY <1>1, Unnamed
<1>4. stops' \in 0..MaxStops
  BY <1>1, <1>2, ControlAssumption DEF ControlTypeOK
<1>5. UploadsApart' /\ FilesCounted' /\ RequestsOK'
  BY <1>1, <1>3, Unnamed DEF ControlIInv, UploadsApart, Uploading, FilesCounted, RequestsOK, In
<1>6. ControlTypeOK' /\ RowsNameFiles' /\ RowsHaveRequests'
  BY <1>1, <1>3, <1>4
  DEF ControlIInv, ControlTypeOK, RowsNameFiles, RowsHaveRequests, exists, vars
<1> QED BY <1>2, <1>5, <1>6 DEF ControlIInv

\* Only finalize and the release after publish touch the artifacts table.
LEMMA OneMethodInputs ==
    ASSUME OneMethod
    PROVE  inputs' = inputs
<1>1. ASSUME NEW n \in Samples, Claim(n) PROVE inputs' = inputs
  BY <1>1 DEF Claim, claim_next, Grant, vars
<1>2. ASSUME NEW o, NEW t, cancel(o, t) PROVE inputs' = inputs
  BY <1>2 DEF cancel, vars
<1>3. ASSUME NEW lease, NEW n, NEW b, start(lease, n) \/ heartbeat(lease, n) \/ fail(lease, b, n)
      PROVE  inputs' = inputs
  BY <1>3 DEF start, heartbeat, fail, Refuse, vars
<1> QED BY <1>1, <1>2, <1>3 DEF OneMethod, Sweep, requeue_expired, Tick

\* Routes of one method, the sweep and the clock.
LEMMA OneMethodStep ==
    ASSUME ControlIInv, OneMethod
    PROVE  ControlIInv' /\ [Next]_vars
<1>1. [Next]_vars
  BY DEF OneMethod, Next, ServeNext, DeviceStep, LeaseStep
<1>2. inputs' = inputs
  BY OneMethodInputs
<1> QED BY <1>1, <1>2, MethodStep DEF OneMethod

\* Every step keeps the invariant and is a step of the repository or none.
LEMMA ControlStep == ControlIInv /\ [ControlNext]_serverVars => ControlIInv' /\ [Next]_vars
<1> SUFFICES ASSUME ControlIInv, [ControlNext]_serverVars PROVE ControlIInv' /\ [Next]_vars
  OBVIOUS
<1>1. ASSUME NEW c \in Http, Route(c) PROVE ControlIInv' /\ [Next]_vars
  BY <1>1, TableRoutes, BeginStep, RemovalStep, WrittenStep, FinalizeRoute, ReleaseRoute DEF Route
<1>2. CASE UNCHANGED serverVars
  BY <1>2, MethodStep DEF serverVars, vars
<1> QED BY <1>1, <1>2, StopStep, OneMethodStep DEF ControlNext

LEMMA ControlInitIInv == ControlInit => ControlIInv
<1> SUFFICES ASSUME ControlInit PROVE ControlIInv
  OBVIOUS
<1>1. IInv
  BY InitIInv DEF ControlInit
<1>2. \A c \in Http : http[c] = Free
  BY DEF ControlInit
<1>3. ControlTypeOK
  BY Unnamed, ControlAssumption DEF ControlInit, ControlTypeOK
<1>4. RowsNameFiles /\ UploadsApart /\ FilesCounted /\ RequestsOK
  BY <1>2, Unnamed
  DEF ControlInit, Init, RowsNameFiles, UploadsApart, Uploading, FilesCounted, RequestsOK, In
<1>5. RowsHaveRequests
  BY DEF ControlInit, Init, RowsHaveRequests, exists, Blank
<1> QED BY <1>1, <1>3, <1>4, <1>5 DEF ControlIInv

-----------------------------------------------------------------------------
(* The theorems *)

\* Rows, files and requests agree in every reachable state.
THEOREM ControlInvariance == ControlSpec => []ControlIInv
<1> QED BY ControlInitIInv, ControlStep, PTL DEF ControlSpec

\* The routes use the repository as its specification allows: all that is
\* proved of Spec holds for the server.
THEOREM RoutesImplementRepository == ControlSpec => Spec
<1>1. ControlInit => Init
  BY DEF ControlInit
<1> QED BY <1>1, ControlStep, ControlInvariance, PTL DEF ControlSpec, Spec

\* download_input finds the file of every row, whatever other uploads fail and
\* whenever the server stops.
THEOREM InputServed == ControlSpec => []RowHasFile
<1>1. ControlIInv => RowHasFile
  BY DEF ControlIInv, RowsNameFiles, RowHasFile
<1> QED BY <1>1, ControlInvariance, PTL

\* The input of a task is never replaced by a later upload.
THEOREM InputImmutable == ControlSpec => InputIsImmutable
<1>1. ControlIInv /\ [ControlNext]_serverVars =>
         [\A t \in Task : t \in inputs =>
             path'[t] = path[t] \/ (path'[t] = NULL /\ t \notin inputs')]_serverVars
  <2> SUFFICES ASSUME ControlIInv, ControlNext, NEW t \in Task, t \in inputs
               PROVE  path'[t] = path[t] \/ (path'[t] = NULL /\ t \notin inputs')
    OBVIOUS
  <2>1. path \in [Task -> File \cup {NULL}] /\ path[t] \in files
    BY DEF ControlIInv, ControlTypeOK, RowsNameFiles
  <2>2. CASE path' = path
    BY <2>2
  <2>3. ASSUME NEW c \in Http, Finalize(c) PROVE path'[t] = path[t]
    <3>1. CASE inputs' = inputs
      BY <2>3, <3>1 DEF Finalize, Named
    <3>2. CASE inputs' # inputs
      <4>1. http[c].task # t
        <5>1. inputs' = inputs \cup {http[c].task}
          BY <2>3, <3>2 DEF Finalize, finalize_and_enqueue, vars
        <5> QED BY <3>2, <5>1
      <4> QED BY <2>1, <2>3, <3>2, <4>1 DEF Finalize, Named
    <3> QED BY <3>1, <3>2
  <2>4. ASSUME NEW c \in Http, Release(c)
        PROVE  path'[t] = path[t] \/ (path'[t] = NULL /\ t \notin inputs')
    <3>1. path' = [path EXCEPT ![http[c].task] = NULL]
      BY <2>4 DEF Release
    <3>2. CASE http[c].task # t
      BY <2>1, <3>1, <3>2
    <3>3. CASE http[c].task = t
      <4>1. ControlIInv'
        BY <2>4, ReleaseRoute
      <4>2. path'[t] = NULL
        BY <2>1, <3>1, <3>3
      <4>3. NULL \notin files'
        BY <4>1, ControlAssumption DEF ControlIInv, ControlTypeOK
      <4> QED BY <4>1, <4>2, <4>3 DEF ControlIInv, RowsNameFiles
    <3> QED BY <3>2, <3>3
  <2> QED BY <2>2, <2>3, <2>4
          DEF ControlNext, Stop, OneMethod, Route, Reserve, CountInstance, Insert, Begin,
              WriteFails, Written, FinalizeFails, Publish, ReleaseFails, Unlink, controlVars
<1> QED BY <1>1, ControlInvariance, PTL DEF ControlSpec, InputIsImmutable
=============================================================================
