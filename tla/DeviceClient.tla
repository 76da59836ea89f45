---------------------------- MODULE DeviceClient ----------------------------
(***************************************************************************)
(* The device SDK (packages/sdk-python) over the routes of the server:     *)
(* create_task posts the envelope and then puts the input, wait_for_result *)
(* polls, and _request repeats each request that gets no usable answer.    *)
(*                                                                         *)
(* sdk[k] is the thread of client k.  A request that changes something is  *)
(* carried by a request of ControlPlane, call, so that its handler goes on *)
(* when the client has given it up, and other requests, late repetitions   *)
(* among them, run beside it.  A read is one step.                         *)
(*                                                                         *)
(* Left out: cancel_task, which is one call of OneMethod, and the pauses   *)
(* between attempts.                                                       *)
(***************************************************************************)
EXTENDS ControlPlane

CONSTANTS
    Client, ClientDevice,       \* the SDK's clients and the device of each
    Rereadable,                 \* BOOLEAN values: bytes and paths, or a stream
    MAX_RETRIES, WAIT_TIMEOUT,
    MaxCalls                    \* bound: calls of create_task

ASSUME ClientAssumption ==
    /\ ClientDevice \in [Client -> Device]
    /\ Rereadable \subseteq BOOLEAN
    /\ MAX_RETRIES \in Nat
    /\ WAIT_TIMEOUT \in Nat
    /\ MaxCalls \in Nat
    /\ NULL \notin Http
    /\ NULL \notin Task

VARIABLES sdk, calls

deviceVars == <<serverVars, sdk, calls>>

SdkCall ==
    [at : {"idle", "post", "put", "get", "result"},
     request : Request \cup {NULL}, rereadable : BOOLEAN, unread : BOOLEAN,
     attempt : 0..MAX_RETRIES, call : Http \cup {NULL}, task : Task \cup {NULL},
     deadline : Nat,
     outcome : {"none", "created", "returned", "task_failed", "timed_out", "refused", "raised"},
     got : Result \cup {NULL}]

Unused ==
    [at |-> "idle", request |-> NULL, rereadable |-> TRUE, unread |-> FALSE, attempt |-> 0,
     call |-> NULL, task |-> NULL, deadline |-> 0, outcome |-> "none", got |-> NULL]

DeviceInit ==
    /\ ControlInit
    /\ sdk = [k \in Client |-> Unused]
    /\ calls = 0

Sets(k, next) == sdk' = [sdk EXCEPT ![k] = next]

-----------------------------------------------------------------------------
(* _request *)

\* The next request of k, with all its attempts before it.
Asks(k, at) == [sdk[k] EXCEPT !.at = at, !.attempt = 0, !.call = NULL]

Ends(k, outcome) ==
    [Asks(k, "idle") EXCEPT !.outcome = outcome, !.rereadable = TRUE, !.unread = FALSE, !.deadline = 0]

\* An answer below 500 that is an error and not 429 is raised at once.
Refused(k) == [Unused EXCEPT !.outcome = "refused"]

\* No answer, 429 or 5xx: one more attempt, or the error is raised.
Again(k) ==
    IF sdk[k].attempt < MAX_RETRIES
    THEN [sdk[k] EXCEPT !.attempt = @ + 1, !.call = NULL]
    ELSE [Unused EXCEPT !.outcome = "raised"]

\* 429 is answered to the last attempt too: the error then is a refusal.
Exhausted(k) ==
    IF sdk[k].attempt < MAX_RETRIES THEN Again(k) ELSE Refused(k)

\* The request does not arrive, or its answer is lost or an error of the
\* server; a handler that runs goes on.  What was read of a stream is gone.
Lost(k) ==
    /\ sdk[k].at # "idle"
    /\ \E unread \in {sdk[k].unread, sdk[k].rereadable /\ sdk[k].unread} :
          Sets(k, [Again(k) EXCEPT !.unread = unread])
    /\ UNCHANGED <<serverVars, calls>>

-----------------------------------------------------------------------------
(* create_task *)

create_task(k) ==
    /\ sdk[k].at = "idle"
    /\ calls < MaxCalls
    /\ calls' = calls + 1
    /\ \E e \in Request, rereadable \in Rereadable :
          Sets(k, [Unused EXCEPT !.at = "post", !.request = e,
                                 !.rereadable = rereadable, !.unread = TRUE])
    /\ UNCHANGED serverVars

\* The quota of the device is checked before the key is looked at.
Post(k) ==
    /\ sdk[k].at = "post"
    /\ sdk[k].call = NULL
    /\ \/ /\ ~reserve(ClientDevice[k])
          /\ Sets(k, Exhausted(k))
          /\ UNCHANGED serverVars
       \/ \E c \in Http :
             /\ Reserve(c)
             /\ http'[c].device = ClientDevice[k]
             /\ http'[c].request = sdk[k].request
             /\ Sets(k, [sdk[k] EXCEPT !.call = c])
    /\ UNCHANGED calls

\* A stream that was read has nothing left for the declared length, and the
\* request fails in the client; a task that does not wait for input any more
\* is refused.
Put(k) ==
    /\ sdk[k].at = "put"
    /\ sdk[k].call = NULL
    /\ \/ /\ tasks[sdk[k].task].status # "uploading"
          /\ Sets(k, Refused(k))
          /\ UNCHANGED serverVars
       \/ /\ sdk[k].unread
          /\ \E c \in Http :
                /\ Begin(c)
                /\ http'[c].task = sdk[k].task
                /\ Sets(k, [sdk[k] EXCEPT !.call = c, !.unread = sdk[k].rereadable])
    /\ UNCHANGED calls

\* _view parses the error of a task; one that it cannot parse is a 500.
Readable(row) == row.error_json # NULL => {"code", "message", "request_id"} \subseteq row.error_json

SameRequest(row, request) ==
    canonical_json_digest(row.request) = canonical_json_digest(request)

\* The row of the key is answered, unless it was posted with another request.
RowAnswers(k, row, t) ==
    CASE ~SameRequest(row, sdk[k].request) -> Refused(k)
      [] ~Readable(row) -> Again(k)
      [] OTHER -> [Asks(k, "put") EXCEPT !.task = t]

\* What the client makes of the end of its POST: a quota is exhausted, or the
\* key has a row.
PostAnswers(k, c) ==
    IF In(c, "count")
    THEN {Exhausted(k)}
    ELSE {RowAnswers(k, tasks'[t], t) :
             t \in {u \in Task :
                      /\ tasks'[u].status # "absent"
                      /\ tasks'[u].device = ClientDevice[k]
                      /\ tasks'[u].request.idempotency_key = sdk[k].request.idempotency_key}}

\* Slip: any answer to the upload is taken for the queued view.
PutAnswers_Any(k, c) == {Ends(k, "created")}

\* The end of its PUT: the body did not fit, the disk failed, the task has
\* expired, the write lock was not had, or the row as it is now.  (An error
\* beside a row that another upload had queued is a Lost answer.)
PutAnswers(k, c) ==
    LET t == sdk[k].task
        expired == tasks[t].status = "uploading" /\ tasks'[t].status = "expired"
    IN  CASE In(c, "writing") -> {Refused(k), Again(k)}
          [] In(c, "finalize") /\ expired -> {Refused(k)}
          [] In(c, "finalize") /\ tasks'[t].status = "uploading" -> {Again(k)}
          [] OTHER -> {IF Readable(tasks'[t]) THEN Ends(k, "created") ELSE Again(k)}

Answers(k, c) ==
    IF sdk[k].at = "post" THEN PostAnswers(k, c) ELSE PutAnswers(k, c)

\* A handler moves on; the client that waits for it hears of its end.
Serve(c) ==
    LET waiting == {k \in Client : sdk[k].call = c}
    IN  /\ Route(c)
        /\ IF http'[c].at # "free" \/ waiting = {}
           THEN UNCHANGED sdk
           ELSE \E k \in waiting : \E next \in Answers(k, c) : Sets(k, next)
        /\ UNCHANGED calls

-----------------------------------------------------------------------------
(* wait_for_result *)

wait_for_result(k) ==
    /\ sdk[k].at = "idle"
    /\ sdk[k].outcome \in {"created", "timed_out"}
    /\ now + WAIT_TIMEOUT <= MaxTime
    /\ Sets(k, [Asks(k, "get") EXCEPT !.deadline = now + WAIT_TIMEOUT, !.outcome = "none"])
    /\ UNCHANGED <<serverVars, calls>>

\* Of the statuses the server knows, only two end the wait.
Seen(k) ==
    LET row == tasks[sdk[k].task]
    IN  CASE row.status = "succeeded" -> Asks(k, "result")
          [] row.status = "failed" -> Ends(k, "task_failed")
          [] OTHER -> IF now >= sdk[k].deadline THEN Ends(k, "timed_out") ELSE Asks(k, "get")

Get(k) ==
    /\ sdk[k].at = "get"
    /\ Sets(k, IF Readable(tasks[sdk[k].task]) THEN Seen(k) ELSE Again(k))
    /\ UNCHANGED <<serverVars, calls>>

GetResult(k) ==
    LET row == tasks[sdk[k].task]
    IN  /\ sdk[k].at = "result"
        /\ Sets(k, IF row.status # "succeeded" \/ row.result_expires_at <= now
                   THEN Refused(k)
                   ELSE [Ends(k, "returned") EXCEPT !.got = row.result_json])
        /\ UNCHANGED <<serverVars, calls>>

-----------------------------------------------------------------------------
(* The specification *)

\* Connections break when the server stops.
Restart ==
    /\ Stop
    /\ sdk' = [k \in Client |-> IF sdk[k].call # NULL THEN Again(k) ELSE sdk[k]]
    /\ UNCHANGED calls

Application(k) == create_task(k) \/ wait_for_result(k)

Attempt(k) == Post(k) \/ Put(k) \/ Get(k) \/ GetResult(k) \/ Lost(k)

DeviceNext ==
    \/ \E k \in Client : Application(k) \/ Attempt(k)
    \/ \E c \in Http : Serve(c)
    \/ OneMethod /\ UNCHANGED <<sdk, calls>>
    \/ Restart

DeviceSpec == DeviceInit /\ [][DeviceNext]_deviceVars

-----------------------------------------------------------------------------
(* Properties *)

\* What a call of the SDK told its caller is so and stays so, whichever
\* attempts were repeated and whichever answers were lost: a created task is
\* the row of the caller's device and request, and has its input unless it has
\* ended (it may have ended before the input was stored: the upload of a task
\* that is canceled or expires beside it is answered with the closed row); a
\* returned result is the stored one; a failed task failed.
OutcomeIsTrue ==
    \A k \in Client :
        LET row == tasks[sdk[k].task]
        IN  /\ sdk[k].outcome = "created" =>
                  /\ row.device = ClientDevice[k]
                  /\ row.request = sdk[k].request
                  /\ row.status \notin {"absent", "uploading"}
                  /\ row.status \notin Terminal => sdk[k].task \in inputs
            /\ sdk[k].outcome = "returned" =>
                  sdk[k].got # NULL /\ sdk[k].got = row.result_json
            /\ sdk[k].outcome = "task_failed" => row.status = "failed"

\* wait_for_result reports the end of a task: it neither runs into its timeout
\* on a task that has ended nor gives up because the error of the task cannot
\* be read.
EndedTaskIsReported ==
    [][\A k \in Client :
          LET row == tasks[sdk[k].task]
          IN  /\ sdk[k].at = "get"
              /\ sdk'[k].outcome \in {"timed_out"} \cup IF Readable(row) THEN {} ELSE {"raised"}
              => row.status \notin Terminal]_deviceVars
-----------------------------------------------------------------------------
(* The inductive invariant: what a client knows of its task, and which      *)
(* request of the server it waits for.                                     *)

HasTask(s) ==
    s.at \in {"put", "get", "result"} \/ s.outcome \in {"created", "timed_out", "returned", "task_failed"}

\* What s may rely on of the row of its task.
OwnRow(k, s, row) ==
    /\ row.device = ClientDevice[k] /\ row.request = s.request
    /\ row.status # "absent"
    /\ s.at = "get" \/ s.outcome \in {"created", "timed_out"} => row.status # "uploading"
    /\ s.at = "result" => row.status = "succeeded"
    /\ s.outcome = "returned" =>
          row.status = "succeeded" /\ s.got # NULL /\ s.got = row.result_json
    /\ s.outcome = "task_failed" => row.status = "failed"

Told(k) ==
    /\ sdk[k].at # "idle" => sdk[k].request \in Request /\ sdk[k].outcome = "none"
    /\ HasTask(sdk[k]) => sdk[k].task \in Task /\ OwnRow(k, sdk[k], tasks[sdk[k].task])

\* r is the request of the server that carries s.
Carries(k, s, r) ==
    \/ /\ s.at = "post"
       /\ r.at \in {"count", "insert"} /\ r.device = ClientDevice[k] /\ r.request = s.request
    \/ /\ s.at = "put"
       /\ r.at \in {"writing", "finalize"} /\ r.task = s.task

Waits(k) == sdk[k].call # NULL => Carries(k, sdk[k], http[sdk[k].call])

\* A client waits for a request of its own, and what it was told of its task
\* remains so: a repetition meets the same row, and rows only move on.
ClientIInv ==
    /\ sdk \in [Client -> SdkCall]
    /\ calls \in 0..MaxCalls
    /\ \A k \in Client : Told(k) /\ Waits(k)
    /\ \A j, k \in Client : sdk[j].call # NULL /\ sdk[j].call = sdk[k].call => j = k
=============================================================================
