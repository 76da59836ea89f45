----------------------- MODULE AgentRuntimeController -----------------------
(***************************************************************************)
(* The thread control of the desktop Agent: agent/runtime.py.              *)
(*                                                                         *)
(* start and each half of stop run under one lock, so each is one action;  *)
(* between the halves of stop the caller joins the thread for two seconds  *)
(* without the lock.  Thread i is the i-th ever created; thread and event  *)
(* i are created together, so started is both self._thread and             *)
(* self._stop_event.                                                       *)
(***************************************************************************)
EXTENDS Naturals

CONSTANT MaxThreads     \* bound: threads ever created by one Agent process

ASSUME MaxThreadsAssumption == MaxThreads \in Nat \ {0}

VARIABLES
    state,      \* self._state
    started,    \* index of self._thread and self._stop_event; 0 is None
    threads,    \* where each thread is
    event,      \* the event each thread was handed: an index, 0 before
    stopped     \* the indices whose event is set

controllerVars == <<state, started, threads, event, stopped>>

Thread == 1..MaxThreads

\* new: not created; spawned: before _run takes the lock; entering: about to
\* read self._stop_event; looping: in run_forever; leaving: run_forever is
\* over, the final state is written; dead: is_alive() is false.
ThreadState == {"new", "spawned", "entering", "looping", "leaving", "dead"}

ControllerTypeOK ==
    /\ state \in {"stopped", "starting", "running", "error"}
    /\ started \in 0..MaxThreads
    /\ threads \in [Thread -> ThreadState]
    /\ event \in [Thread -> 0..MaxThreads]
    /\ stopped \subseteq Thread

is_alive(i) == i # 0 /\ threads[i] \notin {"new", "dead"}

\* A worker is configured: AgentRuntimeController(None) refuses every start.
ControllerInit ==
    /\ state = "stopped"
    /\ started = 0
    /\ threads = [i \in Thread |-> "new"]
    /\ event = [i \in Thread |-> 0]
    /\ stopped = {}

\* start raises RuntimeUnavailable while the old thread is told to stop.
StillStopping == is_alive(started) /\ started \in stopped

\* Slip: the old thread is not looked at.
start_Always ==
    /\ started < MaxThreads
    /\ started' = started + 1
    /\ state' = "starting"
    /\ threads' = [threads EXCEPT ![started + 1] = "spawned"]
    /\ UNCHANGED <<event, stopped>>

start ==
    /\ ~StillStopping
    /\ \/ is_alive(started) /\ UNCHANGED controllerVars
       \/ /\ ~is_alive(started)
          /\ started < MaxThreads
          /\ started' = started + 1
          /\ state' = "starting"
          /\ threads' = [threads EXCEPT ![started + 1] = "spawned"]
          /\ UNCHANGED <<event, stopped>>

\* Slip: stop before the first start is not told apart.
stop_set_NoThread(i) ==
    /\ i = started
    /\ stopped' = stopped \cup {i}
    /\ UNCHANGED <<state, started, threads, event>>

\* The first half of stop; the caller keeps thread i to join it.
stop_set(i) ==
    /\ i = started
    /\ IF i = 0
       THEN state' = "stopped" /\ UNCHANGED stopped
       ELSE stopped' = stopped \cup {i} /\ UNCHANGED state
    /\ UNCHANGED <<started, threads, event>>

\* The second half, after join returned or timed out: thread i is not
\* necessarily self._thread any more.
stop_settle(i) ==
    /\ state' = IF is_alive(i) THEN state ELSE "stopped"
    /\ UNCHANGED <<started, threads, event, stopped>>

\* _run: take the lock and say running; then read self._stop_event, which is
\* done outside the lock.
run_enter(i) ==
    /\ threads[i] = "spawned"
    /\ state' = "running"
    /\ threads' = [threads EXCEPT ![i] = "entering"]
    /\ UNCHANGED <<started, event, stopped>>

run_forever(i) ==
    /\ threads[i] = "entering"
    /\ event' = [event EXCEPT ![i] = started]
    /\ threads' = [threads EXCEPT ![i] = "looping"]
    /\ UNCHANGED <<state, started, stopped>>

\* run_forever returned, or raised.
run_leave(i, failed) ==
    /\ threads[i] = "looping"
    /\ state' = IF failed THEN "error" ELSE "stopped"
    /\ threads' = [threads EXCEPT ![i] = "leaving"]
    /\ UNCHANGED <<started, event, stopped>>

run_end(i) ==
    /\ threads[i] = "leaving"
    /\ threads' = [threads EXCEPT ![i] = "dead"]
    /\ UNCHANGED <<state, started, event, stopped>>

-----------------------------------------------------------------------------
(* Properties *)

\* At most one worker thread lives, however starts and stops interleave: the
\* desktop never runs two loops that claim tasks with the same token.
OneLoop ==
    \A i, j \in Thread : is_alive(i) /\ is_alive(j) => i = j

\* A thread polls the event that was created with it, so the stop that named
\* it reaches it although _run reads self._stop_event without the lock.
OwnStopEvent ==
    \A i \in Thread : threads[i] = "looping" => event[i] = i
=============================================================================
