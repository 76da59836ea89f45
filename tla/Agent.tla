-------------------------------- MODULE Agent -------------------------------
(***************************************************************************)
(* The local Agent: agent/api.py over the store and the runtime            *)
(* controller, with the worker loop of agent/worker.py.                    *)
(*                                                                         *)
(* Client c is one request in flight.  Handlers declared with def run in   *)
(* a thread pool and interleave statement by statement; verify_model is    *)
(* async and holds the event loop between its awaits.  execution_lock is   *)
(* shared by the verifications and the worker loop.  crash is the death of *)
(* the process; create_agent_app then starts over on the same database.    *)
(*                                                                         *)
(* Left out: the read-only handlers (session, environments, models, events *)
(* and the preflight of test_model), the content of samples and results,   *)
(* and what a task does: run_once is one interval under the lock.          *)
(***************************************************************************)
EXTENDS AgentStore, AgentRuntimeController

CONSTANTS
    Client,
    Works,                          \* the configurations whose inference works
    MaxVerifications, MaxCrashes    \* bounds

ASSUME WorksAssumption ==
    Works \subseteq Config /\ MaxVerifications \in Nat /\ MaxCrashes \in Nat

VARIABLES
    call,           \* the request each client has in flight
    poll,           \* the GUI's one status request
    loops,          \* what the worker loop in each thread is doing
    lock,           \* who holds execution_lock
    verifications, crashes

agentVars == <<call, poll, loops, lock, verifications, crashes>>
vars == <<storeVars, controllerVars, agentVars>>

\* at: the statement to run next.  config is the binding verify_model read or
\* save_model was given, expected the one whose digest verify_model took,
\* thread the one stop captured, then what follows the stop.
Call == [at : {"idle", "stop", "join", "switch", "store", "digest", "unmark",
               "acquire", "infer", "select", "update", "release", "start", "accept"},
         b : Binding \cup {NULL}, config : Config \cup {NULL},
         expected : Config \cup {NULL}, thread : 0..MaxThreads,
         then : {"idle", "store"}]

Idle == [at |-> "idle", b |-> NULL, config |-> NULL, expected |-> NULL,
         thread |-> 0, then |-> "idle"]

\* offered is first what list_bindings returned, then what the factory keeps;
\* unchecked are the bindings build_binding_factory has still to look at.
Loop == [at : {"none", "build", "check", "waiting", "acquire", "running"},
         offered : [Binding -> Config \cup {NULL}], unchecked : SUBSET Binding]
NoLoop == [at |-> "none", offered |-> [b \in Binding |-> NULL], unchecked |-> {}]

TypeOK ==
    /\ StoreTypeOK
    /\ ControllerTypeOK
    /\ call \in [Client -> Call]
    /\ poll \in {"idle", "read", "repair"}
    /\ loops \in [Thread -> Loop]
    /\ lock \in {"free", "verification", "worker"}
    /\ verifications \in 0..MaxVerifications
    /\ crashes \in 0..MaxCrashes

Init ==
    /\ StoreInit
    /\ ControllerInit
    /\ call = [c \in Client |-> Idle]
    /\ poll = "idle"
    /\ loops = [i \in Thread |-> NoLoop]
    /\ lock = "free"
    /\ verifications = 0
    /\ crashes = 0

At(c, at) == call[c].at = at
Goto(c, at) == call' = [call EXCEPT ![c].at = at]
Return(c) == call' = [call EXCEPT ![c] = Idle]

\* Between these statements verify_model does not await: no other coroutine
\* runs, only the handlers of the thread pool and the worker thread.
LoopFree == \A c \in Client : call[c].at \notin {"digest", "unmark", "update"}

-----------------------------------------------------------------------------
(* runtime.stop and the handlers that call it *)

save_model(c, b, config) ==
    /\ At(c, "idle")
    /\ call' = [call EXCEPT ![c] =
                   [Idle EXCEPT !.at = IF accepting THEN "stop" ELSE "store",
                                !.b = b, !.config = config, !.then = "store"]]
    /\ UNCHANGED <<storeVars, controllerVars, poll, loops, lock, verifications, crashes>>

accepting_off(c) ==
    /\ At(c, "idle")
    /\ call' = [call EXCEPT ![c].at = "stop"]
    /\ UNCHANGED <<storeVars, controllerVars, poll, loops, lock, verifications, crashes>>

Stop(c) ==
    /\ At(c, "stop")
    /\ stop_set(started)
    /\ call' = [call EXCEPT ![c] = [@ EXCEPT !.at = IF started = 0 THEN "switch" ELSE "join",
                                             !.thread = started]]
    /\ UNCHANGED <<storeVars, poll, loops, lock, verifications, crashes>>

\* join gives up after two seconds, whatever the thread does.
Join(c) ==
    /\ At(c, "join")
    /\ stop_settle(call[c].thread)
    /\ Goto(c, "switch")
    /\ UNCHANGED <<storeVars, poll, loops, lock, verifications, crashes>>

Switch(c) ==
    /\ At(c, "switch")
    /\ set_accepting(FALSE)
    /\ IF call[c].then = "store" THEN Goto(c, "store") ELSE Return(c)
    /\ UNCHANGED <<controllerVars, poll, loops, lock, verifications, crashes>>

Store(c) ==
    /\ At(c, "store")
    /\ save_binding(call[c].b, call[c].config)
    /\ Return(c)
    /\ UNCHANGED <<controllerVars, poll, loops, lock, verifications, crashes>>

-----------------------------------------------------------------------------
(* POST /v1/accepting with enabled = true *)

\* Without a verified enabled binding: 409.
accepting_on(c) ==
    /\ At(c, "idle")
    /\ has_verified_enabled_binding
    /\ Goto(c, "start")
    /\ UNCHANGED <<storeVars, controllerVars, poll, loops, lock, verifications, crashes>>

\* A thread that is still stopping: 503.
Start(c) ==
    /\ At(c, "start")
    /\ \/ StillStopping /\ Return(c) /\ UNCHANGED controllerVars
       \/ start /\ Goto(c, "accept")
    /\ UNCHANGED <<storeVars, poll, loops, lock, verifications, crashes>>

Accept(c) ==
    /\ At(c, "accept")
    /\ set_accepting(TRUE)
    /\ Return(c)
    /\ UNCHANGED <<controllerVars, poll, loops, lock, verifications, crashes>>

-----------------------------------------------------------------------------
(* GET /v1/status *)

\* Slip: a stopped runtime is not taken for a pause.
PollRuntime_ErrorOnly ==
    /\ poll = "idle"
    /\ state = "error"
    /\ poll' = "read"
    /\ UNCHANGED <<storeVars, controllerVars, call, loops, lock, verifications, crashes>>

\* The runtime's state is read first and not again.
PollRuntime ==
    /\ poll = "idle"
    /\ state \in {"error", "stopped"}
    /\ poll' = "read"
    /\ UNCHANGED <<storeVars, controllerVars, call, loops, lock, verifications, crashes>>

PollAccepting ==
    /\ poll = "read"
    /\ poll' = IF accepting THEN "repair" ELSE "idle"
    /\ UNCHANGED <<storeVars, controllerVars, call, loops, lock, verifications, crashes>>

PollRepair ==
    /\ poll = "repair"
    /\ set_accepting(FALSE)
    /\ poll' = "idle"
    /\ UNCHANGED <<controllerVars, call, loops, lock, verifications, crashes>>

Poll == PollRuntime \/ PollAccepting \/ PollRepair

-----------------------------------------------------------------------------
(* POST /v1/models/{binding_id}/verify *)

\* An unknown binding: 404.
verify_model(c, b) ==
    /\ At(c, "idle")
    /\ LoopFree
    /\ get_binding(b) # NULL
    /\ verifications < MaxVerifications
    /\ verifications' = verifications + 1
    /\ call' = [call EXCEPT ![c] = [Idle EXCEPT !.at = "digest", !.b = b,
                                                !.config = get_binding(b)]]
    /\ UNCHANGED <<storeVars, controllerVars, poll, loops, lock, crashes>>

\* binding_digest reads the binding once more.
Digest(c) ==
    /\ At(c, "digest")
    /\ call' = [call EXCEPT ![c] = [@ EXCEPT !.at = "unmark",
                                             !.expected = get_binding(call[c].b)]]
    /\ UNCHANGED <<storeVars, controllerVars, poll, loops, lock, verifications, crashes>>

\* A sample that is missing or too large ends the request here.
Unmark(c) ==
    /\ At(c, "unmark")
    /\ mark_unverified(call[c].b)
    /\ Goto(c, "acquire") \/ Return(c)
    /\ UNCHANGED <<controllerVars, poll, loops, lock, verifications, crashes>>

\* Slip: the verification does not wait for the worker.
Acquire_Always(c) ==
    /\ At(c, "acquire")
    /\ lock' = "verification"
    /\ Goto(c, "infer")
    /\ UNCHANGED <<storeVars, controllerVars, poll, loops, verifications, crashes>>

Acquire(c) ==
    /\ At(c, "acquire")
    /\ lock = "free"
    /\ lock' = "verification"
    /\ Goto(c, "infer")
    /\ UNCHANGED <<storeVars, controllerVars, poll, loops, verifications, crashes>>

Infer(c) ==
    /\ At(c, "infer")
    /\ Goto(c, IF call[c].config \in Works THEN "select" ELSE "release")
    /\ UNCHANGED <<storeVars, controllerVars, poll, loops, lock, verifications, crashes>>

\* mark_verified: read the row and compare its digest with the expected one.
Select(c) ==
    /\ At(c, "select")
    /\ LoopFree
    /\ Goto(c, IF get_binding(call[c].b) = call[c].expected THEN "update" ELSE "release")
    /\ UNCHANGED <<storeVars, controllerVars, poll, loops, lock, verifications, crashes>>

Update(c) ==
    /\ At(c, "update")
    /\ mark_verified_update(call[c].b, call[c].expected)
    /\ Goto(c, "release")
    /\ UNCHANGED <<controllerVars, poll, loops, lock, verifications, crashes>>

Release(c) ==
    /\ At(c, "release")
    /\ lock' = "free"
    /\ Return(c)
    /\ UNCHANGED <<storeVars, controllerVars, poll, loops, verifications, crashes>>

-----------------------------------------------------------------------------
(* The worker thread: _run of the controller around AgentWorkerLoop *)

Enter(i) == run_enter(i) /\ UNCHANGED <<storeVars, agentVars>>

Enter2(i) ==
    /\ run_forever(i)
    /\ loops' = [loops EXCEPT ![i] = [NoLoop EXCEPT !.at = "build"]]
    /\ UNCHANGED <<storeVars, call, poll, lock, verifications, crashes>>

\* build_binding_factory: one query for the bindings ...
ListBindings(i) ==
    /\ loops[i].at = "build"
    /\ loops' = [loops EXCEPT ![i] =
                    [at |-> "check", unchecked |-> Binding,
                     offered |-> [b \in Binding |-> get_binding(b)]]]
    /\ UNCHANGED <<storeVars, controllerVars, call, poll, lock, verifications, crashes>>

Checked(loop, b) ==
    LET config == loop.offered[b]
        kept == IF config \in Enabled /\ is_verified(b) THEN config ELSE NULL
    IN  [loop EXCEPT !.unchecked = @ \ {b}, !.offered = [@ EXCEPT ![b] = kept]]

\* ... and one more for each that is enabled; then register.
CheckBinding(i) ==
    /\ loops[i].at = "check"
    /\ \E b \in loops[i].unchecked :
          loops' = [loops EXCEPT ![i] = Checked(@, b)]
    /\ UNCHANGED <<storeVars, controllerVars, call, poll, lock, verifications, crashes>>

Register(i) ==
    /\ loops[i].at = "check"
    /\ loops[i].unchecked = {}
    /\ loops' = [loops EXCEPT ![i].at = "waiting"]
    /\ UNCHANGED <<storeVars, controllerVars, call, poll, lock, verifications, crashes>>

\* Slip: the loop does not look at its event.
Continue_Always(i) ==
    /\ loops[i].at = "waiting"
    /\ loops' = [loops EXCEPT ![i].at = "acquire"]
    /\ UNCHANGED <<storeVars, controllerVars, call, poll, lock, verifications, crashes>>

\* while not stop_event.is_set()
Continue(i) ==
    /\ loops[i].at = "waiting"
    /\ event[i] \notin stopped
    /\ loops' = [loops EXCEPT ![i].at = "acquire"]
    /\ UNCHANGED <<storeVars, controllerVars, call, poll, lock, verifications, crashes>>

RunOnce(i) ==
    /\ loops[i].at = "acquire"
    /\ lock = "free"
    /\ lock' = "worker"
    /\ loops' = [loops EXCEPT ![i].at = "running"]
    /\ UNCHANGED <<storeVars, controllerVars, call, poll, verifications, crashes>>

RunOnceReturns(i) ==
    /\ loops[i].at = "running"
    /\ lock' = "free"
    /\ loops' = [loops EXCEPT ![i].at = "waiting"]
    /\ UNCHANGED <<storeVars, controllerVars, call, poll, verifications, crashes>>

\* Slip: a run_once that raises keeps the lock.
Leave_KeepsLock(i) ==
    /\ \/ loops[i].at = "waiting" /\ event[i] \in stopped /\ run_leave(i, FALSE)
       \/ loops[i].at \in {"check", "running"} /\ run_leave(i, TRUE)
    /\ loops' = [loops EXCEPT ![i] = NoLoop]
    /\ UNCHANGED <<storeVars, call, poll, lock, verifications, crashes>>

\* The loop ends when its event is set, and also when anything raises: the
\* factory, the registration or run_once.
Leave(i) ==
    /\ \/ /\ loops[i].at = "waiting"
          /\ event[i] \in stopped
          /\ run_leave(i, FALSE)
          /\ UNCHANGED lock
       \/ /\ loops[i].at = "check"
          /\ run_leave(i, TRUE)
          /\ UNCHANGED lock
       \/ /\ loops[i].at = "running"
          /\ run_leave(i, TRUE)
          /\ lock' = "free"
    /\ loops' = [loops EXCEPT ![i] = NoLoop]
    /\ UNCHANGED <<storeVars, call, poll, verifications, crashes>>

End(i) == run_end(i) /\ UNCHANGED <<storeVars, agentVars>>

-----------------------------------------------------------------------------
(* The process *)

\* The process dies; create_agent_app opens the database again and pauses.
Crash ==
    /\ crashes < MaxCrashes
    /\ crashes' = crashes + 1
    /\ set_accepting(FALSE)
    /\ state' = "stopped"
    /\ started' = 0
    /\ threads' = [i \in Thread |-> "new"]
    /\ event' = [i \in Thread |-> 0]
    /\ stopped' = {}
    /\ call' = [c \in Client |-> Idle]
    /\ poll' = "idle"
    /\ loops' = [i \in Thread |-> NoLoop]
    /\ lock' = "free"
    /\ UNCHANGED verifications

Request(c) ==
    \/ \E b \in Binding, config \in Config : save_model(c, b, config)
    \/ \E b \in Binding : verify_model(c, b)
    \/ accepting_on(c)
    \/ accepting_off(c)

Handle(c) ==
    \/ Stop(c) \/ Join(c) \/ Switch(c) \/ Store(c)
    \/ Start(c) \/ Accept(c)
    \/ Digest(c) \/ Unmark(c) \/ Acquire(c) \/ Infer(c)
    \/ Select(c) \/ Update(c) \/ Release(c)

Work(i) ==
    \/ Enter(i) \/ Enter2(i) \/ ListBindings(i) \/ CheckBinding(i) \/ Register(i)
    \/ Continue(i) \/ RunOnce(i) \/ RunOnceReturns(i) \/ Leave(i) \/ End(i)

Next ==
    \/ \E c \in Client : Request(c) \/ Handle(c)
    \/ Poll
    \/ \E i \in Thread : Work(i)
    \/ Crash

Spec == Init /\ [][Next]_vars

\* A request that was accepted is carried on, a thread runs, and somebody asks
\* for the status again and again, as the workbench design has the GUI do.
\* execution_lock is a plain threading.Lock: nothing is assumed of who gets
\* it next, only that it does not stay free with a waiter for ever.
FairSpec ==
    /\ Spec
    /\ WF_vars(Poll)
    /\ \A c \in Client : WF_vars(Handle(c))
    /\ \A i \in Thread : WF_vars(Work(i))

-----------------------------------------------------------------------------
(* Properties *)

\* The execution slot is shared: a verification and the worker loop never run
\* a model at the same time, whichever threads were started and stopped.
OneExecution ==
    LET verifying == {c \in Client : call[c].at \in {"infer", "select", "update", "release"}}
        working   == {i \in Thread : loops[i].at = "running"}
    IN  Cardinality(verifying) + Cardinality(working) <= 1

\* A stop that is in force is obeyed between two tasks: a loop whose own event
\* is set and that is waiting goes back to waiting or ends, and never takes the
\* execution slot for one more task, whichever thread was current when it ran.
StoppedTakesNoMore ==
    [][\A i \in Thread :
          is_alive(i) /\ i \in stopped /\ loops[i].at = "waiting"
              => loops'[i].at \in {"waiting", "none"}]_vars

\* The Agent as AgentPromise sees it: the thread that was started last is the
\* worker while it lives.
Trusted == [b \in Binding |-> [config |-> get_binding(b), trusted |-> is_verified(b)]]
WorkerAt ==
    IF ~is_alive(started) THEN "none"
    ELSE IF loops[started].at = "running" THEN "running"
    ELSE IF loops[started].at = "acquire" THEN "committed"
    ELSE "waiting"
Told == is_alive(started) /\ started \in stopped

Promise == INSTANCE AgentPromise
    WITH binding <- Trusted, slot <- lock, worker <- WorkerAt, told <- Told

\* The Agent keeps the promises of AgentPromise, however its requests, its
\* threads and the two halves of a stop interleave, and across crashes.
ImplementsPromise == Promise!Spec

\* A verified configuration is one that was run (the test of
\* tests/agent/test_api.py on a binding that changes during verification).
VerifiedConfigWorks ==
    \A b \in Binding : is_verified(b) => get_binding(b) \in Works

\* A thread whose stop event is set ends, whatever it was doing.
StopEnds ==
    \A i \in Thread : (is_alive(i) /\ i \in stopped) ~> ~(is_alive(i) /\ i \in stopped)

\* The Agent does not go on saying that it accepts tasks when no worker thread
\* is left: some status poll repairs it.
AcceptingIsRepaired ==
    (accepting /\ ~is_alive(started)) ~> (~accepting \/ is_alive(started))

\* An edit ends the loop that offers the configuration it replaces, as
\* save_model pauses the worker before it stores (the test of
\* tests/agent/test_api.py on a save while accepting).
StaleOfferEnds ==
    \A i \in Thread, b \in Binding :
        LET stale == /\ loops[i].at \in {"waiting", "acquire", "running"}
                     /\ loops[i].offered[b] \notin {NULL, get_binding(b)}
        IN  stale ~> ~stale
-----------------------------------------------------------------------------
(* The inductive invariant: who is alive, who runs a model, and what a request *)
(* in flight knows.                                                            *)

\* Threads live one after the other, and a new one starts with a clear event.
ThreadsInOrder ==
    /\ \A i \in Thread :
          /\ i > started => threads[i] = "new"
          /\ i = started => threads[i] # "new"
          /\ i < started => threads[i] = "dead"
          /\ loops[i].at # "none" <=> threads[i] = "looping"
    /\ stopped \subseteq 1..started

Verifying(c) == call[c].at \in {"infer", "select", "update", "release"}
Working(i) == loops[i].at = "running"

\* execution_lock is held by exactly one verification or loop, or is free: no
\* path out of either keeps it.
LockHeldByOne ==
    /\ lock = "verification" <=> \E c \in Client : Verifying(c)
    /\ lock = "worker" <=> \E i \in Thread : Working(i)
    /\ \A c, d \in Client : Verifying(c) /\ Verifying(d) => c = d
    /\ \A i, j \in Thread : Working(i) /\ Working(j) => i = j

\* A verification works on a row that exists (rows are never deleted) and,
\* after its second read, for a configuration that was stored.
Knows(r) ==
    /\ r.at = "idle" => r = Idle
    /\ r.at = "store" => r.then = "store"
    /\ r.then = "store" => r.b \in Binding /\ r.config \in Config
    /\ r.at \in {"digest", "unmark", "acquire", "infer", "select", "update", "release"} =>
          r.b \in Binding /\ get_binding(r.b) # NULL
    /\ r.at \in {"unmark", "acquire", "infer", "select", "update", "release"} =>
          r.expected # NULL

CallsKnow == \A c \in Client : Knows(call[c])

\* One loop lives and polls its own event; one execution runs; a verification
\* belongs to what is stored.
AgentIInv ==
    /\ TypeOK
    /\ ThreadsInOrder
    /\ OwnStopEvent
    /\ LockHeldByOne
    /\ CallsKnow
    /\ VerifiedMatchesStored
=============================================================================
