----------------------------- MODULE ControlPlane -----------------------------
(***************************************************************************)
(* The routes of the server that take several steps: create_task (quota,   *)
(* then insert), upload_input (file, then row) and publish_worker_result   *)
(* (result, then the input row, then the input file), with                 *)
(* server/quotas.py and server/storage.py under them.                      *)
(*                                                                         *)
(* http[c] is a request in flight.  Every other route is one method of     *)
(* TaskRepository.  A file is complete when its name loses .part; only     *)
(* complete files are in files.                                            *)
(*                                                                         *)
(* Left out: sizes, the byte budget and the free disk space, which only    *)
(* refuse more requests (a refusal changes nothing), and the files of      *)
(* results, which no route writes.                                         *)
(***************************************************************************)
EXTENDS TaskRepository

CONSTANTS
    Http,                                      \* requests in flight
    MAX_DEVICE_ACTIVE, MAX_INSTANCE_ACTIVE,
    MaxFiles, MaxStops                         \* bounds: uploads, server stops

File == [task : Task, id : Nat]

ASSUME ControlAssumption ==
    /\ IsFiniteSet(Http) /\ Http # {}
    /\ IsFiniteSet(Task)
    /\ MAX_DEVICE_ACTIVE \in Nat \ {0}
    /\ MAX_INSTANCE_ACTIVE \in Nat \ {0}
    /\ MaxFiles \in Nat
    /\ MaxStops \in Nat
    /\ NULL \notin File

VARIABLES
    http,       \* each request in flight
    files,      \* the complete files under the artifact root
    path,       \* the column path of a task's input row
    uploads,    \* how many artifact ids were drawn
    stops

controlVars == <<http, files, path, uploads, stops>>
serverVars == <<vars, controlVars>>

Free == [at |-> "free", device |-> NULL, request |-> NULL, task |-> NULL, file |-> NULL]

HttpRequest ==
    [at : {"free", "count", "insert", "writing", "finalize", "release", "unlink"},
     device : Device \cup {NULL}, request : Request \cup {NULL},
     task : Task \cup {NULL}, file : File \cup {NULL}]

ControlTypeOK ==
    /\ http \in [Http -> HttpRequest]
    /\ files \subseteq File
    /\ path \in [Task -> File \cup {NULL}]
    /\ uploads \in 0..MaxFiles
    /\ stops \in 0..MaxStops

ControlInit ==
    /\ Init
    /\ http = [c \in Http |-> Free]
    /\ files = {}
    /\ path = [t \in Task |-> NULL]
    /\ uploads = 0
    /\ stops = 0

In(c, at) == http[c].at = at
Becomes(c, next) == http' = [http EXCEPT ![c] = next]

-----------------------------------------------------------------------------
(* POST /v1/tasks *)

Active == {t \in Task : exists(t) /\ tasks[t].status \notin Terminal}
ActiveOf(d) == {t \in Active : tasks[t].device = d}

\* Slip: the limit itself is let through.
reserve_OneMore(d) == Cardinality(ActiveOf(d)) <= MAX_DEVICE_ACTIVE

\* A reservation counts, one read after the other, and writes nothing.
reserve(d) == Cardinality(ActiveOf(d)) < MAX_DEVICE_ACTIVE

Creating(at, d, e) == [Free EXCEPT !.at = at, !.device = d, !.request = e]

Reserve(c) ==
    /\ In(c, "free")
    /\ \E d \in Device, e \in Request : reserve(d) /\ Becomes(c, Creating("count", d, e))
    /\ UNCHANGED <<vars, files, path, uploads, stops>>

\* Slip: the limit itself is let through.
CountInstance_OneMore(c) ==
    /\ In(c, "count")
    /\ Becomes(c, IF Cardinality(Active) <= MAX_INSTANCE_ACTIVE
                  THEN Creating("insert", http[c].device, http[c].request)
                  ELSE Free)
    /\ UNCHANGED <<vars, files, path, uploads, stops>>

CountInstance(c) ==
    /\ In(c, "count")
    /\ Becomes(c, IF Cardinality(Active) < MAX_INSTANCE_ACTIVE
                  THEN Creating("insert", http[c].device, http[c].request)
                  ELSE Free)
    /\ UNCHANGED <<vars, files, path, uploads, stops>>

Insert(c) ==
    /\ In(c, "insert")
    /\ \E n \in Samples : create_uploading(http[c].device, http[c].request, n)
    /\ Becomes(c, Free)
    /\ UNCHANGED <<files, path, uploads, stops>>

-----------------------------------------------------------------------------
(* PUT /v1/tasks/{task_id}/input *)

\* upload_input is a coroutine: between its last chunk and its answer it holds
\* the event loop, and so keeps other coroutines (poll_worker too) out.
LoopFree == \A c \in Http : ~In(c, "finalize")

\* Slip: one name per task.
artifact_PerTask(t) == [task |-> t, id |-> 0]

artifact(t) == [task |-> t, id |-> uploads + 1]

Begin(c) ==
    /\ In(c, "free")
    /\ LoopFree
    /\ uploads < MaxFiles
    /\ uploads' = uploads + 1
    /\ \E t \in Task :
          /\ tasks[t].status = "uploading"
          /\ Becomes(c, [Free EXCEPT !.at = "writing", !.task = t, !.file = artifact(t)])
    /\ UNCHANGED <<vars, files, path, stops>>

\* The stream is longer or shorter than declared, or breaks.
WriteFails(c) ==
    /\ In(c, "writing")
    /\ LoopFree
    /\ files' = files \ {http[c].file}
    /\ Becomes(c, Free)
    /\ UNCHANGED <<vars, path, uploads, stops>>

Written(c) ==
    /\ In(c, "writing")
    /\ LoopFree
    /\ files' = files \cup {http[c].file}
    /\ Becomes(c, [http[c] EXCEPT !.at = "finalize"])
    /\ UNCHANGED <<vars, path, uploads, stops>>

\* Slip: the row names the file that came last.
Named_Last(c) ==
    path' = [path EXCEPT ![http[c].task] = http[c].file]

\* The row names the file of the upload that queued the task.
Named(c) ==
    IF inputs' = inputs
    THEN UNCHANGED path
    ELSE path' = [path EXCEPT ![http[c].task] = http[c].file]

\* An upload that comes too late is answered, and its file stays.
Finalize(c) ==
    LET t == http[c].task
    IN  /\ In(c, "finalize")
        /\ \E n \in Samples :
              finalize_and_enqueue(t, canonical_json_digest(tasks[t].request), n)
        /\ Named(c)
        /\ Becomes(c, Free)
        /\ UNCHANGED <<files, uploads, stops>>

\* The write lock is not had in time, with the file complete: the answer is an
\* error, no row names the file, and the task waits for its input as before.
FinalizeFails(c) ==
    /\ In(c, "finalize")
    /\ Becomes(c, Free)
    /\ UNCHANGED <<vars, files, path, uploads, stops>>

-----------------------------------------------------------------------------
(* PUT /v1/workers/tasks/{task_id}/result *)

\* A lease that is refused ends the request.
Publish(c) ==
    /\ In(c, "free")
    /\ \E lease \in leases, n \in Samples :
          /\ n >= lease.issued_at
          /\ check_lease(lease, n)
          /\ publish_result(lease, n)
          /\ Becomes(c, [Free EXCEPT !.at = "release", !.task = lease.task_id])
    /\ UNCHANGED <<files, path, uploads, stops>>

\* Slip: the row goes, and its path is not returned.
Release_Forgets(c) ==
    LET t == http[c].task
    IN  /\ In(c, "release")
        /\ remove_input_artifacts(owner(t), t)
        /\ Becomes(c, [http[c] EXCEPT !.at = "unlink", !.file = NULL])
        /\ path' = [path EXCEPT ![t] = NULL]
        /\ UNCHANGED <<files, uploads, stops>>

Release(c) ==
    LET t == http[c].task
    IN  /\ In(c, "release")
        /\ remove_input_artifacts(owner(t), t)
        /\ Becomes(c, [http[c] EXCEPT !.at = "unlink", !.file = path[t]])
        /\ path' = [path EXCEPT ![t] = NULL]
        /\ UNCHANGED <<files, uploads, stops>>

\* The write lock is not had in time: the result is stored, the answer is an
\* error, and the input stays.
ReleaseFails(c) ==
    /\ In(c, "release")
    /\ Becomes(c, Free)
    /\ UNCHANGED <<vars, files, path, uploads, stops>>

Unlink(c) ==
    /\ In(c, "unlink")
    /\ files' = files \ {http[c].file}
    /\ Becomes(c, Free)
    /\ UNCHANGED <<vars, path, uploads, stops>>

-----------------------------------------------------------------------------
(* The rest of the server *)

\* The server is stopped and started on the same data.
Stop ==
    /\ stops < MaxStops
    /\ stops' = stops + 1
    /\ http' = [c \in Http |-> Free]
    /\ UNCHANGED <<vars, files, path, uploads>>

OneMethod ==
    /\ \/ \E n \in Samples :
             \/ LoopFree /\ Claim(n)
             \/ \E o \in Owner, t \in Task : cancel(o, t)
             \/ \E lease \in leases :
                   /\ n >= lease.issued_at
                   /\ \/ start(lease, n)
                      \/ heartbeat(lease, n)
                      \/ \E retryable \in BOOLEAN : fail(lease, retryable, n)
       \/ Sweep
       \/ Tick
    /\ UNCHANGED controlVars

Route(c) ==
    \/ Reserve(c) \/ CountInstance(c) \/ Insert(c)
    \/ Begin(c) \/ WriteFails(c) \/ Written(c) \/ Finalize(c) \/ FinalizeFails(c)
    \/ Publish(c) \/ Release(c) \/ ReleaseFails(c) \/ Unlink(c)

ControlNext == Stop \/ OneMethod \/ \E c \in Http : Route(c)

ControlSpec == ControlInit /\ [][ControlNext]_serverVars

-----------------------------------------------------------------------------
(* Properties *)

\* The input that a row names is on the disk, complete: download_input finds
\* it, whatever other uploads of the task fail and whichever request stops.
RowHasFile ==
    \A t \in Task : t \in inputs => path[t] \in files

\* Once an input is stored for a task it is that file until it is released: an
\* upload that runs beside it, or is repeated, cannot replace it.
InputIsImmutable ==
    [][\A t \in Task : t \in inputs => path'[t] = path[t] \/ (path'[t] = NULL /\ t \notin inputs')]_serverVars

\* Complete files that nothing names any more and no request will remove.
Orphans == files \ ({path[t] : t \in inputs} \cup {http[c].file : c \in Http})

\* A file is left behind by a stop of the server, or by an upload that ends
\* without a row of its own: another had queued the task, the task was closed
\* meanwhile, or the write lock was not had.  Nothing else leaves one, and
\* publishing in particular does not, whatever runs beside it.
OnlyUnstoredUploadsLeak ==
    [][Orphans' \subseteq Orphans
       \/ stops' # stops
       \/ \E c \in Http : In(c, "finalize") /\ http'[c] = Free /\ inputs' = inputs]_serverVars

\* Requests that count at the same time may pass the quota together, but by no
\* more than their number: what a device has open and is about to insert stays
\* below the limit plus the requests in flight.
QuotaOvershoot ==
    \A d \in Device :
        Cardinality(ActiveOf(d))
            + Cardinality({c \in Http : http[c].at \in {"count", "insert"} /\ http[c].device = d})
            < MAX_DEVICE_ACTIVE + Cardinality(Http)

\* The same of the whole instance, whose count is read after the device's.
InstanceOvershoot ==
    Cardinality(Active) + Cardinality({c \in Http : In(c, "insert")})
        < MAX_INSTANCE_ACTIVE + Cardinality(Http)
-----------------------------------------------------------------------------
(* The inductive invariant: rows and uploads name different files. *)

Uploading(c) == http[c].at \in {"writing", "finalize"}

RowsNameFiles ==
    \A t \in Task : IF t \in inputs THEN path[t] \in files /\ path[t].task = t ELSE path[t] = NULL

UploadsApart ==
    \A c \in Http : Uploading(c) =>
        /\ http[c].task \in Task
        /\ http[c].file # NULL
        /\ http[c].file.id <= uploads
        /\ http[c].file.task = http[c].task
        /\ \A t \in Task : path[t] # http[c].file
        /\ \A d \in Http \ {c} : http[d].file # http[c].file

\* No file was drawn that is not counted.
FilesCounted ==
    /\ \A f \in files : f.id <= uploads
    /\ \A c \in Http : http[c].file # NULL => http[c].file.id <= uploads

RowsHaveRequests ==
    \A t \in Task : exists(t) => tasks[t].request \in Request /\ tasks[t].device \in Device

RequestsOK ==
    \A c \in Http :
        /\ http[c].at \in {"count", "insert"} => http[c].device \in Device /\ http[c].request \in Request
        /\ In(c, "finalize") => http[c].file \in files
        /\ In(c, "release") => http[c].task \in Task /\ tasks[http[c].task].status = "succeeded"
        /\ In(c, "unlink") => \A t \in Task : path[t] # NULL => path[t] # http[c].file
        /\ http[c].file # NULL => http[c].at \in {"writing", "finalize", "unlink"}

\* A row names a complete file that no upload can still remove, and a request
\* that removes one removes a file that no row names.
ControlIInv ==
    /\ IInv
    /\ ControlTypeOK
    /\ RowsNameFiles
    /\ UploadsApart
    /\ FilesCounted
    /\ RowsHaveRequests
    /\ RequestsOK
=============================================================================
