----------------------------- MODULE AgentProofs -----------------------------
(***************************************************************************)
(* Proofs about Agent: one worker loop lives and polls the event that was  *)
(* created with it, a verification and the loop never run a model at the   *)
(* same time, a verification belongs to the configuration beside it, and   *)
(* Agent implements AgentPromise.                                          *)
(***************************************************************************)
EXTENDS Agent, FiniteSetTheorems, TLAPS

(* The types, action by action; every lemma is about one actor's step. *)

\* The controller's operations keep its types.
LEMMA ControllerTypes ==
    ASSUME ControllerTypeOK,
           \/ start \/ (\E i \in 0..MaxThreads : stop_set(i) \/ stop_settle(i))
           \/ \E i \in Thread : \/ run_enter(i) \/ run_forever(i) \/ run_end(i)
                                \/ \E failed \in BOOLEAN : run_leave(i, failed)
           \/ UNCHANGED controllerVars
    PROVE  ControllerTypeOK'
<1> USE DEF ControllerTypeOK, Thread
<1>1. CASE start
  <2>1. CASE UNCHANGED controllerVars
    BY <2>1 DEF controllerVars
  <2>2. CASE /\ started < MaxThreads
             /\ started' = started + 1
             /\ state' = "starting"
             /\ threads' = [threads EXCEPT ![started + 1] = "spawned"]
             /\ UNCHANGED <<event, stopped>>
    <3>1. started + 1 \in Thread
      BY <2>2, MaxThreadsAssumption
    <3>2. threads' \in [Thread -> ThreadState]
      BY <2>2, <3>1 DEF ThreadState
    <3> QED BY <2>2, <3>1, <3>2, MaxThreadsAssumption
  <2> QED BY <1>1, <2>1, <2>2 DEF start
<1>2. ASSUME NEW i \in 0..MaxThreads, stop_set(i) \/ stop_settle(i)
      PROVE  ControllerTypeOK'
  <2>1. CASE stop_set(i)
    <3>1. CASE i = 0
      BY <2>1, <3>1 DEF stop_set
    <3>2. CASE i \in Thread
      BY <2>1, <3>2, MaxThreadsAssumption DEF stop_set
    <3> QED BY <3>1, <3>2, MaxThreadsAssumption
  <2>2. CASE stop_settle(i)
    BY <2>2 DEF stop_settle
  <2> QED BY <1>2, <2>1, <2>2
<1>3. ASSUME NEW i \in Thread, NEW failed \in BOOLEAN,
             run_enter(i) \/ run_forever(i) \/ run_end(i) \/ run_leave(i, failed)
      PROVE  ControllerTypeOK'
  <2>1. CASE run_forever(i)
    BY <2>1 DEF run_forever, ThreadState
  <2>2. CASE run_leave(i, failed)
    BY <2>2 DEF run_leave, ThreadState
  <2>3. CASE run_enter(i) \/ run_end(i)
    BY <2>3 DEF run_enter, run_end, ThreadState
  <2> QED BY <1>3, <2>1, <2>2, <2>3
<1>4. CASE UNCHANGED controllerVars
  BY <1>4 DEF controllerVars
<1> QED BY <1>1, <1>2, <1>3, <1>4

\* The store's statements keep its types, given a configuration to store.
LEMMA StoreTypes ==
    ASSUME StoreTypeOK, NEW b, NEW config,
           \/ config \in Config /\ save_binding(b, config)
           \/ mark_unverified(b)
           \/ config \in Config /\ mark_verified_update(b, config)
           \/ set_accepting(FALSE) \/ set_accepting(TRUE)
           \/ UNCHANGED storeVars
    PROVE  StoreTypeOK'
<1>1. CASE config \in Config /\ save_binding(b, config)
  BY <1>1 DEF StoreTypeOK, save_binding, Row
<1>2. CASE mark_unverified(b)
  <2>1. \A r \in Row : [r EXCEPT !.verified = FALSE, !.verified_digest = NULL] \in Row
    BY DEF Row
  <2> QED BY <1>2, <2>1 DEF StoreTypeOK, mark_unverified
<1>3. CASE config \in Config /\ mark_verified_update(b, config)
  <2>1. \A r \in Row : [r EXCEPT !.verified = TRUE, !.verified_digest = digest(config)] \in Row
    BY <1>3 DEF Row, digest
  <2> QED BY <1>3, <2>1 DEF StoreTypeOK, mark_verified_update
<1>4. CASE set_accepting(FALSE) \/ set_accepting(TRUE) \/ UNCHANGED storeVars
  BY <1>4 DEF StoreTypeOK, set_accepting, storeVars
<1> QED BY <1>1, <1>2, <1>3, <1>4

\* A request that goes on is a request.
LEMMA StopRecord ==
    ASSUME NEW r \in Call, NEW at \in {"join", "switch"}, NEW t \in 0..MaxThreads
    PROVE  [r EXCEPT !.at = at, !.thread = t] \in Call
BY DEF Call

LEMMA DigestRecord ==
    ASSUME NEW r \in Call, NEW expected \in Config \cup {NULL}
    PROVE  [r EXCEPT !.at = "unmark", !.expected = expected] \in Call
BY DEF Call

LEMMA SaveRecord ==
    ASSUME NEW r \in Call, NEW at \in {"stop", "store"}, NEW b \in Binding, NEW config \in Config
    PROVE  [r EXCEPT !.at = at, !.b = b, !.config = config, !.then = "store"] \in Call
BY DEF Call

LEMMA VerifyRecord ==
    ASSUME NEW r \in Call, NEW b \in Binding, NEW config \in Config
    PROVE  [r EXCEPT !.at = "digest", !.b = b, !.config = config] \in Call
BY DEF Call

\* A loop that has looked at one more binding is a loop.
LEMMA CheckedType ==
    ASSUME NEW r \in Loop, NEW b \in Binding
    PROVE  Checked(r, b) \in Loop /\ Checked(r, b).at = r.at
<1> DEFINE kept == IF r.offered[b] \in Enabled /\ is_verified(b) THEN r.offered[b] ELSE NULL
           offered == [r.offered EXCEPT ![b] = kept]
<1>1. offered \in [Binding -> Config \cup {NULL}]
  <2>1. kept \in Config \cup {NULL}
    BY DEF Loop
  <2> HIDE DEF kept
  <2> QED BY <2>1 DEF Loop
<1>2. Checked(r, b) = [r EXCEPT !.unchecked = r.unchecked \ {b}, !.offered = offered]
  BY DEF Checked
<1> HIDE DEF kept, offered
<1>3. Checked(r, b) \in Loop
  BY <1>1, <1>2 DEF Loop
<1>4. Checked(r, b).at = r.at
  BY <1>2 DEF Loop
<1> QED BY <1>3, <1>4

LEMMA CallTypes ==
    ASSUME TypeOK, CallsKnow, [Next]_vars
    PROVE  call' \in [Client -> Call]
<1> USE DEF TypeOK
<1>1. Idle \in Call
  BY MaxThreadsAssumption DEF Idle, Call
<1>2. ASSUME NEW c \in Client, Return(c)
      PROVE  call' \in [Client -> Call]
  BY <1>1, <1>2 DEF Return
<1>3. ASSUME NEW c \in Client, NEW at, Goto(c, at),
             at \in {"stop", "switch", "store", "acquire", "infer", "select", "update",
                     "release", "start", "accept"}
      PROVE  call' \in [Client -> Call]
  BY <1>3 DEF Goto, Call
<1>4. ASSUME NEW c \in Client, Request(c)
      PROVE  call' \in [Client -> Call]
  <2>1. ASSUME NEW b \in Binding, NEW config \in Config, save_model(c, b, config)
        PROVE  call' \in [Client -> Call]
    <3> DEFINE at == IF accepting THEN "stop" ELSE "store"
               next == [Idle EXCEPT !.at = at, !.b = b, !.config = config, !.then = "store"]
    <3>1. at \in {"stop", "store"}
      OBVIOUS
    <3>2. call' = [call EXCEPT ![c] = next]
      BY <2>1 DEF save_model
    <3> HIDE DEF at
    <3>3. next \in Call
      BY <1>1, <3>1, SaveRecord
    <3> HIDE DEF next
    <3> QED BY <3>2, <3>3
  <2>2. ASSUME NEW b \in Binding, verify_model(c, b)
        PROVE  call' \in [Client -> Call]
    <3>1. get_binding(b) \in Config
      BY <2>2 DEF verify_model, get_binding, StoreTypeOK, Row
    <3> DEFINE next == [Idle EXCEPT !.at = "digest", !.b = b, !.config = get_binding(b)]
    <3>2. next \in Call
      BY <1>1, <3>1, VerifyRecord
    <3>3. call' = [call EXCEPT ![c] = next]
      BY <2>2 DEF verify_model
    <3> HIDE DEF next
    <3> QED BY <3>2, <3>3
  <2>3. CASE accepting_on(c)
    BY <2>3, <1>3 DEF accepting_on
  <2>4. CASE accepting_off(c)
    BY <2>4 DEF accepting_off, Call
  <2> QED BY <1>4, <2>1, <2>2, <2>3, <2>4 DEF Request
<1>5. ASSUME NEW c \in Client, Handle(c)
      PROVE  call' \in [Client -> Call]
  <2>1. CASE Stop(c)
    <3> DEFINE at == IF started = 0 THEN "switch" ELSE "join"
               next == [call[c] EXCEPT !.at = at, !.thread = started]
    <3>1. at \in {"join", "switch"} /\ started \in 0..MaxThreads /\ call[c] \in Call
      BY DEF ControllerTypeOK
    <3>2. call' = [call EXCEPT ![c] = next]
      BY <2>1 DEF Stop
    <3> HIDE DEF at
    <3>3. next \in Call
      BY <3>1, StopRecord
    <3> HIDE DEF next
    <3> QED BY <3>2, <3>3
  <2>2. CASE Join(c)
    BY <2>2, <1>3 DEF Join
  <2>3. CASE Switch(c)
    BY <2>3, <1>2, <1>3 DEF Switch
  <2>4. CASE Store(c) \/ Accept(c) \/ Release(c)
    BY <2>4, <1>2 DEF Store, Accept, Release
  <2>5. CASE Start(c) \/ Unmark(c)
    BY <2>5, <1>2, <1>3 DEF Start, Unmark
  <2>6. CASE Digest(c)
    <3> DEFINE seen == get_binding(call[c].b)
               next == [call[c] EXCEPT !.at = "unmark", !.expected = seen]
    <3>1. call[c] \in Call /\ seen \in Config \cup {NULL}
      <4>1. Knows(call[c]) /\ call[c].at = "digest"
        BY <2>6 DEF Digest, At, CallsKnow
      <4>2. call[c].b \in Binding
        BY <4>1 DEF Knows
      <4> QED BY <4>2 DEF StoreTypeOK, Row, get_binding
    <3>2. call' = [call EXCEPT ![c] = next]
      BY <2>6 DEF Digest
    <3> HIDE DEF seen
    <3>3. next \in Call
      BY <3>1, DigestRecord
    <3> HIDE DEF next
    <3> QED BY <3>2, <3>3
  <2>7. CASE Acquire(c) \/ Update(c)
    BY <2>7, <1>3 DEF Acquire, Update
  <2>8. CASE Infer(c) \/ Select(c)
    BY <2>8, <1>3 DEF Infer, Select
  <2> QED BY <1>5, <2>1, <2>2, <2>3, <2>4, <2>5, <2>6, <2>7, <2>8 DEF Handle
<1>6. CASE Poll
  BY <1>6 DEF Poll, PollRuntime, PollAccepting, PollRepair
<1>7. ASSUME NEW i \in Thread, Work(i)
      PROVE  call' \in [Client -> Call]
  BY <1>7 DEF Work, Enter, Enter2, ListBindings, CheckBinding, Register, Continue,
              RunOnce, RunOnceReturns, Leave, End, agentVars
<1>8. CASE Crash
  BY <1>8, <1>1 DEF Crash
<1>9. CASE UNCHANGED vars
  BY <1>9 DEF vars, agentVars
<1> QED BY <1>4, <1>5, <1>6, <1>7, <1>8, <1>9 DEF Next

LEMMA LoopTypes ==
    ASSUME TypeOK, [Next]_vars
    PROVE  loops' \in [Thread -> Loop]
<1> USE DEF TypeOK
<1>1. NoLoop \in Loop
  BY DEF NoLoop, Loop
<1>2. ASSUME NEW c \in Client, Request(c) \/ Handle(c)
      PROVE  UNCHANGED loops
  BY <1>2 DEF Request, save_model, verify_model, accepting_on, accepting_off, Handle, Stop,
     Join, Switch, Store, Start, Accept, Digest, Unmark, Acquire, Infer, Select, Update, Release
<1>3. CASE Poll
  BY <1>3 DEF Poll, PollRuntime, PollAccepting, PollRepair
<1>4. ASSUME NEW i \in Thread, Work(i)
      PROVE  loops' \in [Thread -> Loop]
  <2>1. bindings \in [Binding -> Row]
    BY DEF StoreTypeOK
  <2>2. CASE Enter(i) \/ End(i)
    BY <2>2 DEF Enter, End, agentVars
  <2>3. CASE Enter2(i)
    BY <2>3, <1>1 DEF Enter2, NoLoop, Loop
  <2>4. CASE ListBindings(i)
    BY <2>1, <2>4 DEF ListBindings, get_binding, Row, Loop
  <2>5. CASE CheckBinding(i)
    <3>1. PICK b \in loops[i].unchecked : loops' = [loops EXCEPT ![i] = Checked(loops[i], b)]
      BY <2>5 DEF CheckBinding
    <3>2. loops[i] \in Loop /\ b \in Binding
      BY <3>1 DEF Loop
    <3>3. Checked(loops[i], b) \in Loop
      BY <3>2, CheckedType
    <3> QED BY <3>1, <3>3
  <2>6. CASE Register(i) \/ Continue(i) \/ RunOnce(i) \/ RunOnceReturns(i)
    <3>1. PICK at \in {"waiting", "acquire", "running"} : loops' = [loops EXCEPT ![i].at = at]
      BY <2>6 DEF Register, Continue, RunOnce, RunOnceReturns
    <3> QED BY <3>1 DEF Loop
  <2>7. CASE Leave(i)
    BY <2>7, <1>1 DEF Leave
  <2> QED BY <1>4, <2>2, <2>3, <2>4, <2>5, <2>6, <2>7 DEF Work
<1>5. CASE Crash
  BY <1>5, <1>1 DEF Crash
<1>6. CASE UNCHANGED vars
  BY <1>6 DEF vars, agentVars
<1> QED BY <1>2, <1>3, <1>4, <1>5, <1>6 DEF Next

LEMMA OtherTypes ==
    ASSUME TypeOK, CallsKnow, [Next]_vars
    PROVE  /\ StoreTypeOK' /\ ControllerTypeOK'
           /\ poll' \in {"idle", "read", "repair"}
           /\ lock' \in {"free", "verification", "worker"}
           /\ verifications' \in 0..MaxVerifications
           /\ crashes' \in 0..MaxCrashes
<1> DEFINE Small == /\ poll' \in {"idle", "read", "repair"}
                    /\ lock' \in {"free", "verification", "worker"}
                    /\ verifications' \in 0..MaxVerifications
                    /\ crashes' \in 0..MaxCrashes
<1> USE WorksAssumption DEF TypeOK
<1>1. ASSUME NEW c \in Client, Request(c)
      PROVE  UNCHANGED <<storeVars, controllerVars>> /\ Small
  <2>1. ASSUME NEW b \in Binding, verify_model(c, b)
        PROVE  UNCHANGED <<storeVars, controllerVars>> /\ Small
    BY <2>1 DEF verify_model
  <2>2. ASSUME NEW b \in Binding, NEW config \in Config, save_model(c, b, config)
        PROVE  UNCHANGED <<storeVars, controllerVars>> /\ Small
    BY <2>2 DEF save_model
  <2>3. CASE accepting_on(c) \/ accepting_off(c)
    BY <2>3 DEF accepting_on, accepting_off
  <2> QED BY <1>1, <2>1, <2>2, <2>3 DEF Request
<1>2. ASSUME NEW c \in Client, Handle(c)
      PROVE  StoreTypeOK' /\ ControllerTypeOK' /\ Small
  <2>1. CASE Stop(c) \/ Join(c) \/ Start(c)
    <3>1. UNCHANGED storeVars /\ Small
      BY <2>1 DEF Stop, Join, Start
    <3>2. /\ started \in 0..MaxThreads
          /\ call[c].thread \in 0..MaxThreads
      BY DEF ControllerTypeOK, Call
    <3>3. \/ start \/ UNCHANGED controllerVars
          \/ \E i \in 0..MaxThreads : stop_set(i) \/ stop_settle(i)
      BY <2>1, <3>2 DEF Stop, Join, Start
    <3> QED BY <3>1, <3>3, ControllerTypes, StoreTypes
  <2>2. CASE Digest(c) \/ Acquire(c) \/ Infer(c) \/ Select(c) \/ Release(c)
    <3>1. UNCHANGED <<storeVars, controllerVars>> /\ Small
      BY <2>2 DEF Digest, Acquire, Infer, Select, Release
    <3> QED BY <3>1, ControllerTypes, StoreTypes DEF storeVars, controllerVars
  <2>3. CASE Switch(c) \/ Store(c) \/ Accept(c) \/ Unmark(c) \/ Update(c)
    <3>1. UNCHANGED controllerVars /\ Small
      BY <2>3 DEF Switch, Store, Accept, Unmark, Update
    <3>2. Store(c) => call[c].config \in Config
      BY DEF Store, At, CallsKnow, Knows
    <3>3. Update(c) => call[c].expected \in Config
      BY DEF Update, At, CallsKnow, Knows, Call
    <3>4. StoreTypeOK'
      BY <2>3, <3>2, <3>3, StoreTypes DEF Switch, Store, Accept, Unmark, Update
    <3> QED BY <3>1, <3>4, ControllerTypes
  <2> QED BY <1>2, <2>1, <2>2, <2>3 DEF Handle
<1>3. CASE Poll
  <2>1. UNCHANGED controllerVars /\ Small
    BY <1>3 DEF Poll, PollRuntime, PollAccepting, PollRepair
  <2>2. set_accepting(FALSE) \/ UNCHANGED storeVars
    BY <1>3 DEF Poll, PollRuntime, PollAccepting, PollRepair
  <2> QED BY <2>1, <2>2, ControllerTypes, StoreTypes
<1>4. ASSUME NEW i \in Thread, Work(i)
      PROVE  StoreTypeOK' /\ ControllerTypeOK' /\ Small
  <2>1. UNCHANGED storeVars /\ Small
    BY <1>4 DEF Work, Enter, Enter2, ListBindings, CheckBinding, Register, Continue,
                RunOnce, RunOnceReturns, Leave, End, agentVars
  <2>2. \/ UNCHANGED controllerVars \/ run_enter(i) \/ run_forever(i) \/ run_end(i)
        \/ \E failed \in BOOLEAN : run_leave(i, failed)
    BY <1>4 DEF Work, Enter, Enter2, ListBindings, CheckBinding, Register, Continue,
                RunOnce, RunOnceReturns, Leave, End
  <2> QED BY <2>1, <2>2, ControllerTypes, StoreTypes
<1>5. CASE Crash
  <2>1. Small
    BY <1>5 DEF Crash
  <2>2. ControllerTypeOK'
    BY <1>5, MaxThreadsAssumption DEF Crash, ControllerTypeOK, ThreadState
  <2> QED BY <1>5, <2>1, <2>2, StoreTypes DEF Crash
<1>6. CASE UNCHANGED vars
  BY <1>6, ControllerTypes, StoreTypes DEF vars, agentVars, controllerVars, storeVars
<1>7. ASSUME NEW c \in Client, Request(c)
      PROVE  StoreTypeOK' /\ ControllerTypeOK' /\ Small
  BY <1>1, <1>7, ControllerTypes, StoreTypes DEF storeVars, controllerVars
<1> QED BY <1>2, <1>3, <1>4, <1>5, <1>6, <1>7 DEF Next

LEMMA TypeStep ==
    ASSUME TypeOK, CallsKnow, [Next]_vars
    PROVE  TypeOK'
BY CallTypes, LoopTypes, OtherTypes DEF TypeOK

-----------------------------------------------------------------------------
(* The threads: one at a time, each with its own event *)

LEMMA ThreadsStep ==
    ASSUME TypeOK, ThreadsInOrder, OwnStopEvent, [Next]_vars
    PROVE  ThreadsInOrder' /\ OwnStopEvent'
<1> USE MaxThreadsAssumption DEF TypeOK, ControllerTypeOK, Thread, ThreadsInOrder, OwnStopEvent
<1>1. CASE UNCHANGED <<controllerVars, loops>>
  BY <1>1 DEF controllerVars
<1>2. ASSUME NEW c \in Client, Request(c)
      PROVE  UNCHANGED <<controllerVars, loops>>
  BY <1>2 DEF Request, save_model, verify_model, accepting_on, accepting_off
<1>3. ASSUME NEW c \in Client, Handle(c)
      PROVE  ThreadsInOrder' /\ OwnStopEvent'
  <2>1. CASE Stop(c)
    BY <2>1 DEF Stop, stop_set
  <2>2. CASE Join(c)
    BY <2>2 DEF Join, stop_settle
  <2>3. CASE Start(c) /\ ~UNCHANGED controllerVars
    <3>1. /\ started < MaxThreads
          /\ started' = started + 1
          /\ threads' = [threads EXCEPT ![started + 1] = "spawned"]
          /\ UNCHANGED <<event, stopped, loops>>
          /\ ~is_alive(started)
      BY <2>3 DEF Start, start
    <3>2. started # 0 => threads[started] = "dead"
      BY <3>1 DEF is_alive
    <3> QED BY <3>1, <3>2
  <2>4. CASE UNCHANGED controllerVars
    <3>1. UNCHANGED loops
      BY <1>3 DEF Handle, Stop, Join, Switch, Store, Start, Accept, Digest, Unmark, Acquire,
                  Infer, Select, Update, Release
    <3> QED BY <1>1, <2>4, <3>1
  <2>5. \/ Stop(c) \/ Join(c) \/ Start(c) \/ UNCHANGED controllerVars
    BY <1>3 DEF Handle, Switch, Store, Accept, Digest, Unmark, Acquire, Infer, Select, Update,
                Release
  <2> QED BY <2>1, <2>2, <2>3, <2>4, <2>5
<1>4. CASE Poll
  BY <1>1, <1>4 DEF Poll, PollRuntime, PollAccepting, PollRepair
<1>5. ASSUME NEW i \in Thread, Work(i)
      PROVE  ThreadsInOrder' /\ OwnStopEvent'
  <2>1. CASE Enter(i)
    BY <2>1 DEF Enter, run_enter, agentVars
  <2>2. CASE Enter2(i)
    <3>1. /\ threads[i] = "entering" /\ threads' = [threads EXCEPT ![i] = "looping"]
          /\ event' = [event EXCEPT ![i] = started]
          /\ UNCHANGED <<started, stopped>>
      BY <2>2 DEF Enter2, run_forever
    <3>2. i = started
      BY <3>1
    <3>3. \A j \in Thread : loops'[j].at # "none" <=> j = i \/ loops[j].at # "none"
      BY <2>2 DEF Enter2, NoLoop
    <3> QED BY <3>1, <3>2, <3>3
  <2>3. CASE ListBindings(i) \/ CheckBinding(i) \/ Register(i) \/ Continue(i) \/ RunOnce(i)
             \/ RunOnceReturns(i)
    <3>1. UNCHANGED controllerVars
      BY <2>3 DEF ListBindings, CheckBinding, Register, Continue, RunOnce, RunOnceReturns
    <3>2. \A j \in Thread : loops'[j].at # "none" <=> loops[j].at # "none"
      <4>1. CASE CheckBinding(i)
        <5>1. PICK b \in loops[i].unchecked : loops' = [loops EXCEPT ![i] = Checked(loops[i], b)]
          BY <4>1 DEF CheckBinding
        <5>2. loops[i] \in Loop /\ b \in Binding
          BY <5>1 DEF Loop
        <5> QED BY <5>1, <5>2, CheckedType
      <4>2. CASE ListBindings(i)
        BY <4>2 DEF ListBindings
      <4>3. CASE Register(i) \/ Continue(i) \/ RunOnce(i) \/ RunOnceReturns(i)
        <5>1. /\ loops[i].at # "none"
              /\ \E at \in {"waiting", "acquire", "running"} : loops' = [loops EXCEPT ![i].at = at]
          BY <4>3 DEF Register, Continue, RunOnce, RunOnceReturns
        <5> QED BY <5>1 DEF Loop
      <4> QED BY <2>3, <4>1, <4>2, <4>3
    <3> QED BY <3>1, <3>2 DEF controllerVars
  <2>4. CASE Leave(i)
    <3>1. /\ threads[i] = "looping" /\ threads' = [threads EXCEPT ![i] = "leaving"]
          /\ loops' = [loops EXCEPT ![i] = NoLoop]
          /\ UNCHANGED <<started, event, stopped>>
      BY <2>4 DEF Leave, run_leave
    <3>2. \A j \in Thread : loops'[j].at # "none" <=> j # i /\ loops[j].at # "none"
      BY <3>1 DEF NoLoop
    <3> QED BY <3>1, <3>2
  <2>5. CASE End(i)
    BY <2>5 DEF End, run_end, agentVars
  <2> QED BY <1>5, <2>1, <2>2, <2>3, <2>4, <2>5 DEF Work
<1>6. CASE Crash
  BY <1>6 DEF Crash, NoLoop
<1>7. CASE UNCHANGED vars
  BY <1>1, <1>7 DEF vars, agentVars
<1> QED BY <1>1, <1>2, <1>3, <1>4, <1>5, <1>6, <1>7 DEF Next

-----------------------------------------------------------------------------
(* execution_lock *)

LEMMA LockKept ==
    ASSUME LockHeldByOne, UNCHANGED lock,
           \A c \in Client : Verifying(c)' <=> Verifying(c),
           \A i \in Thread : Working(i)' <=> Working(i)
    PROVE  LockHeldByOne'
BY DEF LockHeldByOne

\* A request or a step of a handler outside of the lock takes nothing.
LEMMA OutsideLock ==
    ASSUME TypeOK, NEW c \in Client, ~Verifying(c),
           \/ Request(c)
           \/ Stop(c) \/ Join(c) \/ Switch(c) \/ Store(c) \/ Start(c) \/ Accept(c)
           \/ Digest(c) \/ Unmark(c)
    PROVE  /\ UNCHANGED <<lock, loops>>
           /\ \A d \in Client : Verifying(d)' <=> Verifying(d)
<1> USE DEF TypeOK, Verifying
<1>1. ASSUME NEW at, call' = [call EXCEPT ![c].at = at], at \notin {"infer", "select", "update", "release"}
      PROVE  \A d \in Client : Verifying(d)' <=> Verifying(d)
  BY <1>1 DEF Call
<1>2. ASSUME Return(c)
      PROVE  \A d \in Client : Verifying(d)' <=> Verifying(d)
  BY <1>2 DEF Return, Idle
<1>3. ASSUME NEW r \in Call, call' = [call EXCEPT ![c] = r], r.at \notin {"infer", "select", "update", "release"}
      PROVE  \A d \in Client : Verifying(d)' <=> Verifying(d)
  BY <1>3
<1>4. ASSUME NEW b \in Binding, NEW config \in Config, save_model(c, b, config)
      PROVE  UNCHANGED <<lock, loops>> /\ \A d \in Client : Verifying(d)' <=> Verifying(d)
  <2> DEFINE at == IF accepting THEN "stop" ELSE "store"
             next == [Idle EXCEPT !.at = at, !.b = b, !.config = config, !.then = "store"]
  <2>1. call' = [call EXCEPT ![c] = next] /\ UNCHANGED <<lock, loops>>
    BY <1>4 DEF save_model
  <2>2. next.at = at
    BY DEF Idle
  <2>3. at \notin {"infer", "select", "update", "release"}
    OBVIOUS
  <2> HIDE DEF next, at
  <2> QED BY <2>1, <2>2, <2>3
<1>5. ASSUME NEW b \in Binding, verify_model(c, b)
      PROVE  UNCHANGED <<lock, loops>> /\ \A d \in Client : Verifying(d)' <=> Verifying(d)
  <2> DEFINE next == [Idle EXCEPT !.at = "digest", !.b = b, !.config = get_binding(b)]
  <2>1. call' = [call EXCEPT ![c] = next] /\ UNCHANGED <<lock, loops>>
    BY <1>5 DEF verify_model
  <2>2. next.at = "digest"
    BY DEF Idle
  <2> HIDE DEF next
  <2> QED BY <2>1, <2>2
<1>6. CASE accepting_on(c) \/ accepting_off(c)
  BY <1>1, <1>6 DEF accepting_on, accepting_off, Goto
<1>7. CASE Stop(c)
  <2> DEFINE at == IF started = 0 THEN "switch" ELSE "join"
             next == [call[c] EXCEPT !.at = at, !.thread = started]
  <2>1. call' = [call EXCEPT ![c] = next] /\ UNCHANGED <<lock, loops>>
    BY <1>7 DEF Stop
  <2>2. next.at = at
    BY DEF Call
  <2>3. at \notin {"infer", "select", "update", "release"}
    OBVIOUS
  <2> HIDE DEF next, at
  <2> QED BY <2>1, <2>2, <2>3
<1>8. CASE Join(c) \/ Switch(c) \/ Store(c) \/ Start(c) \/ Accept(c) \/ Unmark(c)
  <2>1. UNCHANGED <<lock, loops>>
    BY <1>8 DEF Join, Switch, Store, Start, Accept, Unmark
  <2>2. Return(c) \/ \E at \in {"switch", "store", "accept", "acquire"} : Goto(c, at)
    BY <1>8 DEF Join, Switch, Store, Start, Accept, Unmark
  <2> QED BY <1>1, <1>2, <2>1, <2>2 DEF Goto
<1>9. CASE Digest(c)
  <2> DEFINE next == [call[c] EXCEPT !.at = "unmark", !.expected = get_binding(call[c].b)]
  <2>1. call' = [call EXCEPT ![c] = next] /\ UNCHANGED <<lock, loops>>
    BY <1>9 DEF Digest
  <2>2. next.at = "unmark"
    BY DEF Call
  <2> HIDE DEF next
  <2> QED BY <2>1, <2>2
<1> QED BY <1>4, <1>5, <1>6, <1>7, <1>8, <1>9 DEF Request

LEMMA LockStep ==
    ASSUME TypeOK, ThreadsInOrder, LockHeldByOne, [Next]_vars
    PROVE  LockHeldByOne'
<1> USE DEF TypeOK
<1>1. CASE UNCHANGED <<call, loops, lock>>
  BY <1>1, LockKept DEF Verifying, Working
<1>2. ASSUME NEW c \in Client, UNCHANGED loops,
             \/ Request(c)
             \/ Stop(c) \/ Join(c) \/ Switch(c) \/ Store(c) \/ Start(c) \/ Accept(c)
             \/ Digest(c) \/ Unmark(c)
      PROVE  LockHeldByOne'
  <2>1. ~Verifying(c)
    BY <1>2 DEF Request, save_model, verify_model, accepting_on, accepting_off, Stop, Join,
                Switch, Store, Start, Accept, Digest, Unmark, At, Verifying
  <2> QED BY <1>2, <2>1, OutsideLock, LockKept DEF Working
<1>3. ASSUME NEW c \in Client, Acquire(c)
      PROVE  LockHeldByOne'
  BY <1>3 DEF Acquire, Goto, At, Call, LockHeldByOne, Verifying, Working
<1>4. ASSUME NEW c \in Client, Infer(c) \/ Select(c) \/ Update(c)
      PROVE  LockHeldByOne'
  <2>1. /\ Verifying(c) /\ UNCHANGED <<lock, loops>>
        /\ \E at \in {"select", "update", "release"} : call' = [call EXCEPT ![c].at = at]
    BY <1>4 DEF Infer, Select, Update, Goto, At, Verifying
  <2>2. \A d \in Client : Verifying(d)' <=> Verifying(d)
    BY <2>1 DEF Verifying, Call
  <2> QED BY <2>1, <2>2, LockKept DEF Working
<1>5. ASSUME NEW c \in Client, Release(c)
      PROVE  LockHeldByOne'
  BY <1>5 DEF Release, Return, Idle, At, Call, LockHeldByOne, Verifying, Working
<1>6. CASE Poll
  BY <1>1, <1>6 DEF Poll, PollRuntime, PollAccepting, PollRepair
<1>7. ASSUME NEW i \in Thread, Work(i)
      PROVE  LockHeldByOne'
  <2>1. CASE Enter(i) \/ End(i)
    BY <1>1, <2>1 DEF Enter, End, agentVars
  <2>3. CASE Enter2(i) \/ ListBindings(i) \/ CheckBinding(i) \/ Register(i) \/ Continue(i)
    <3>1. UNCHANGED <<call, lock>>
      BY <2>3 DEF Enter2, ListBindings, CheckBinding, Register, Continue
    <3>2. \A j \in Thread : Working(j)' <=> Working(j)
      <4>1. CASE CheckBinding(i)
        <5>1. PICK b \in loops[i].unchecked : loops' = [loops EXCEPT ![i] = Checked(loops[i], b)]
          BY <4>1 DEF CheckBinding
        <5>2. loops[i] \in Loop /\ b \in Binding
          BY <5>1 DEF Loop
        <5> QED BY <5>1, <5>2, CheckedType DEF Working
      <4>2. CASE ListBindings(i)
        BY <4>2 DEF ListBindings, Working
      <4>3. CASE Register(i) \/ Continue(i)
        BY <4>3 DEF Register, Continue, Working, Loop
      <4>4. CASE Enter2(i)
        BY <4>4 DEF Enter2, run_forever, ThreadsInOrder, NoLoop, Working
      <4> QED BY <2>3, <4>1, <4>2, <4>3, <4>4
    <3> QED BY <3>1, <3>2, LockKept DEF Verifying
  <2>4. CASE RunOnce(i)
    BY <2>4 DEF RunOnce, Loop, LockHeldByOne, Verifying, Working
  <2>5. CASE RunOnceReturns(i)
    BY <2>5 DEF RunOnceReturns, Loop, LockHeldByOne, Verifying, Working
  <2>6. CASE Leave(i)
    BY <2>6 DEF Leave, NoLoop, Loop, LockHeldByOne, Verifying, Working
  <2> QED BY <1>7, <2>1, <2>3, <2>4, <2>5, <2>6 DEF Work
<1>8. CASE Crash
  BY <1>8 DEF Crash, NoLoop, Idle, LockHeldByOne, Verifying, Working
<1>9. ASSUME NEW c \in Client, Request(c) \/ Handle(c)
      PROVE  LockHeldByOne'
  <2>1. CASE Acquire(c) \/ Infer(c) \/ Select(c) \/ Update(c) \/ Release(c)
    BY <2>1, <1>3, <1>4, <1>5
  <2>2. CASE \/ Request(c)
             \/ Stop(c) \/ Join(c) \/ Switch(c) \/ Store(c) \/ Start(c) \/ Accept(c)
             \/ Digest(c) \/ Unmark(c)
    <3>1. UNCHANGED loops
      BY <2>2 DEF Request, save_model, verify_model, accepting_on, accepting_off, Stop, Join,
                  Switch, Store, Start, Accept, Digest, Unmark
    <3> QED BY <1>2, <2>2, <3>1
  <2> QED BY <1>9, <2>1, <2>2 DEF Handle
<1>10. CASE UNCHANGED vars
  BY <1>1, <1>10 DEF vars, agentVars
<1> QED BY <1>6, <1>7, <1>8, <1>9, <1>10 DEF Next

-----------------------------------------------------------------------------
(* What the requests in flight know of the rows *)

\* Three statements write the table of bindings.
LEMMA BindingWriters ==
    ASSUME [Next]_vars
    PROVE  UNCHANGED bindings \/ \E c \in Client : Store(c) \/ Unmark(c) \/ Update(c)
<1>1. ASSUME NEW c \in Client, Request(c) \/ Handle(c)
      PROVE  UNCHANGED bindings \/ Store(c) \/ Unmark(c) \/ Update(c)
  BY <1>1 DEF Request, save_model, verify_model, accepting_on, accepting_off, Handle, Stop,
     Join, Switch, set_accepting, Start, Accept, Digest, Acquire, Infer, Select, Release,
     storeVars
<1>2. CASE Poll
  BY <1>2 DEF Poll, PollRuntime, PollAccepting, PollRepair, set_accepting, storeVars
<1>3. ASSUME NEW i \in Thread, Work(i)
      PROVE  UNCHANGED bindings
  BY <1>3 DEF Work, Enter, Enter2, ListBindings, CheckBinding, Register, Continue,
              RunOnce, RunOnceReturns, Leave, End, storeVars
<1>4. CASE Crash
  BY <1>4 DEF Crash, set_accepting
<1> QED BY <1>1, <1>2, <1>3, <1>4 DEF Next, vars, storeVars

\* Rows are not deleted.
LEMMA RowsStay ==
    ASSUME TypeOK, CallsKnow, [Next]_vars, NEW b \in Binding, get_binding(b) # NULL
    PROVE  get_binding(b)' # NULL
<1> USE DEF TypeOK, StoreTypeOK, get_binding
<1>1. CASE UNCHANGED bindings
  BY <1>1
<1>2. ASSUME NEW c \in Client, Store(c)
      PROVE  get_binding(b)' # NULL
  <2>1. call[c].config \in Config
    BY <1>2 DEF Store, At, CallsKnow, Knows
  <2> QED BY <1>2, <2>1, ConfigAssumption DEF Store, save_binding
<1>3. ASSUME NEW c \in Client, Unmark(c)
      PROVE  get_binding(b)' # NULL
  BY <1>3 DEF Unmark, mark_unverified, Row
<1>4. ASSUME NEW c \in Client, Update(c)
      PROVE  get_binding(b)' # NULL
  BY <1>4 DEF Update, mark_verified_update, Row
<1> QED BY <1>1, <1>2, <1>3, <1>4, BindingWriters

LEMMA CallsStep ==
    ASSUME TypeOK, CallsKnow, [Next]_vars
    PROVE  CallsKnow'
<1> USE DEF TypeOK
<1>1. ASSUME NEW r, Knows(r) PROVE Knows(r)'
  BY <1>1, RowsStay DEF Knows
<1>2. Knows(Idle)'
  BY DEF Knows, Idle
<1>3. ASSUME NEW c \in Client, NEW r, call' = [call EXCEPT ![c] = r], Knows(r)'
      PROVE  CallsKnow'
  BY <1>1, <1>3 DEF CallsKnow
<1>4. ASSUME NEW c \in Client, Return(c)
      PROVE  CallsKnow'
  BY <1>2, <1>3, <1>4 DEF Return
<1>5. ASSUME NEW c \in Client, NEW at, Goto(c, at),
             \/ at \in {"stop", "switch", "start", "accept"}
             \/ at = "store" /\ call[c].then = "store"
             \/ /\ at \in {"acquire", "infer", "select", "update", "release"}
                /\ call[c].at \in {"unmark", "acquire", "infer", "select", "update"}
      PROVE  CallsKnow'
  <2> DEFINE r == [call[c] EXCEPT !.at = at]
  <2>1. call' = [call EXCEPT ![c] = r]
    BY <1>5 DEF Goto
  <2>2. /\ r.at = at /\ r.b = call[c].b /\ r.config = call[c].config
        /\ r.expected = call[c].expected /\ r.then = call[c].then
    BY DEF Call
  <2>3. Knows(call[c])
    BY DEF CallsKnow
  <2> HIDE DEF r
  <2>4. Knows(r)
    BY <1>5, <2>2, <2>3 DEF Knows
  <2> QED BY <1>1, <1>3, <2>1, <2>4
<1>6. ASSUME NEW c \in Client, Request(c)
      PROVE  CallsKnow'
  <2>1. call[c] = Idle /\ Idle.then = "idle"
    BY <1>6 DEF Request, save_model, verify_model, accepting_on, accepting_off, At, CallsKnow,
                Knows, Idle
  <2>2. ASSUME NEW b \in Binding, NEW config \in Config, save_model(c, b, config)
        PROVE  CallsKnow'
    <3> DEFINE at == IF accepting THEN "stop" ELSE "store"
               r == [Idle EXCEPT !.at = at, !.b = b, !.config = config, !.then = "store"]
    <3>1. call' = [call EXCEPT ![c] = r]
      BY <2>2 DEF save_model
    <3>2. r.at = at /\ r.b = b /\ r.config = config /\ r.then = "store"
      BY DEF Idle
    <3>3. at \in {"stop", "store"}
      OBVIOUS
    <3> HIDE DEF r, at
    <3> QED BY <1>1, <1>3, <3>1, <3>2, <3>3 DEF Knows
  <2>3. ASSUME NEW b \in Binding, verify_model(c, b)
        PROVE  CallsKnow'
    <3> DEFINE r == [Idle EXCEPT !.at = "digest", !.b = b, !.config = get_binding(b)]
    <3>1. call' = [call EXCEPT ![c] = r] /\ get_binding(b) # NULL
      BY <2>3 DEF verify_model
    <3>2. r.at = "digest" /\ r.b = b /\ r.then = "idle"
      BY DEF Idle
    <3> HIDE DEF r
    <3> QED BY <1>1, <1>3, <3>1, <3>2 DEF Knows
  <2>4. CASE accepting_on(c)
    BY <2>4, <1>5 DEF accepting_on
  <2>5. CASE accepting_off(c)
    BY <2>5, <1>5 DEF accepting_off, Goto
  <2> QED BY <1>6, <2>2, <2>3, <2>4, <2>5 DEF Request
<1>7. ASSUME NEW c \in Client, Handle(c)
      PROVE  CallsKnow'
  <2>1. CASE Stop(c)
    <3> DEFINE at == IF started = 0 THEN "switch" ELSE "join"
               r == [call[c] EXCEPT !.at = at, !.thread = started]
    <3>1. call' = [call EXCEPT ![c] = r]
      BY <2>1 DEF Stop
    <3>2. r.at = at /\ r.b = call[c].b /\ r.config = call[c].config /\ r.then = call[c].then
      BY DEF Call
    <3>3. at \in {"join", "switch"}
      OBVIOUS
    <3>4. Knows(call[c])
      BY DEF CallsKnow
    <3> HIDE DEF r, at
    <3>5. Knows(r)
      BY <3>2, <3>3, <3>4 DEF Knows
    <3> QED BY <1>1, <1>3, <3>1, <3>5
  <2>2. CASE Digest(c)
    <3> DEFINE r == [call[c] EXCEPT !.at = "unmark", !.expected = get_binding(call[c].b)]
    <3>1. call' = [call EXCEPT ![c] = r] /\ call[c].at = "digest"
      BY <2>2 DEF Digest, At
    <3>2. /\ r.at = "unmark" /\ r.b = call[c].b /\ r.config = call[c].config
          /\ r.then = call[c].then /\ r.expected = get_binding(call[c].b)
      BY DEF Call
    <3>3. Knows(call[c])
      BY DEF CallsKnow
    <3> HIDE DEF r
    <3>4. Knows(r)
      BY <3>1, <3>2, <3>3 DEF Knows
    <3> QED BY <1>1, <1>3, <3>1, <3>4
  <2>3. CASE Join(c) \/ Switch(c) \/ Start(c)
    BY <2>3, <1>4, <1>5 DEF Join, Switch, Start
  <2>4. CASE Store(c) \/ Accept(c) \/ Release(c)
    BY <2>4, <1>4 DEF Store, Accept, Release
  <2>5. CASE Unmark(c) \/ Acquire(c)
    BY <2>5, <1>4, <1>5 DEF Unmark, Acquire, At
  <2>6. CASE Infer(c) \/ Select(c) \/ Update(c)
    BY <2>6, <1>5 DEF Infer, Select, Update, At
  <2> QED BY <1>7, <2>1, <2>2, <2>3, <2>4, <2>5, <2>6 DEF Handle
<1>8. CASE UNCHANGED call
  BY <1>1, <1>8 DEF CallsKnow
<1>9. CASE Poll
  BY <1>8, <1>9 DEF Poll, PollRuntime, PollAccepting, PollRepair
<1>10. ASSUME NEW i \in Thread, Work(i)
       PROVE  UNCHANGED call
  BY <1>10 DEF Work, Enter, Enter2, ListBindings, CheckBinding, Register, Continue,
               RunOnce, RunOnceReturns, Leave, End, agentVars
<1>11. CASE Crash
  BY <1>2, <1>11 DEF Crash, CallsKnow
<1> QED BY <1>6, <1>7, <1>8, <1>9, <1>10, <1>11 DEF Next, vars, agentVars

-----------------------------------------------------------------------------
(* The verification of a row *)

LEMMA VerifiedStep ==
    ASSUME TypeOK, CallsKnow, VerifiedMatchesStored, [Next]_vars
    PROVE  VerifiedMatchesStored'
<1> USE DEF TypeOK, StoreTypeOK, VerifiedMatchesStored
<1>1. CASE UNCHANGED bindings
  BY <1>1
<1>2. ASSUME NEW c \in Client, Store(c)
      PROVE  VerifiedMatchesStored'
  BY <1>2 DEF Store, save_binding, Row
<1>3. ASSUME NEW c \in Client, Unmark(c)
      PROVE  VerifiedMatchesStored'
  BY <1>3 DEF Unmark, mark_unverified, Row
<1>4. ASSUME NEW c \in Client, Update(c)
      PROVE  VerifiedMatchesStored'
  <2>1. call[c].b \in Binding /\ get_binding(call[c].b) # NULL
    BY <1>4 DEF Update, At, CallsKnow, Knows
  <2>2. mark_verified_update(call[c].b, call[c].expected)
    BY <1>4 DEF Update
  <2> QED BY <2>1, <2>2 DEF mark_verified_update, get_binding, digest, Row
<1> QED BY <1>1, <1>2, <1>3, <1>4, BindingWriters

-----------------------------------------------------------------------------
(* The theorems *)

LEMMA InitOK == Init => AgentIInv
<1> SUFFICES ASSUME Init PROVE AgentIInv
  OBVIOUS
<1> USE MaxThreadsAssumption, WorksAssumption DEF Init, StoreInit, ControllerInit
<1>1. StoreTypeOK /\ ControllerTypeOK
  <2>1. StoreTypeOK
    BY DEF StoreTypeOK, Row
  <2>2. ControllerTypeOK
    BY DEF ControllerTypeOK, ThreadState, Thread
  <2> QED BY <2>1, <2>2
<1>2. Idle \in Call /\ NoLoop \in Loop
  BY DEF Idle, Call, NoLoop, Loop
<1>3. TypeOK
  BY <1>1, <1>2 DEF TypeOK
<1>4. ThreadsInOrder /\ OwnStopEvent
  BY DEF ThreadsInOrder, OwnStopEvent, Thread, NoLoop
<1>5. LockHeldByOne
  BY DEF LockHeldByOne, Verifying, Working, Idle, NoLoop
<1>6. CallsKnow
  BY DEF CallsKnow, Knows, Idle
<1>7. VerifiedMatchesStored
  BY DEF VerifiedMatchesStored
<1> QED BY <1>3, <1>4, <1>5, <1>6, <1>7 DEF AgentIInv

LEMMA StepOK == AgentIInv /\ [Next]_vars => AgentIInv'
BY TypeStep, ThreadsStep, LockStep, CallsStep, VerifiedStep DEF AgentIInv

\* The inductive invariant holds for any number of requests, bindings, threads
\* and restarts of the process.
THEOREM AgentInvariance == Spec => []AgentIInv
<1> QED BY InitOK, StepOK, PTL DEF Spec

\* A verification and the worker loop never run a model at the same time, and
\* neither do two verifications or two loops (execution_lock).
THEOREM ExecutionIsExclusive == Spec => []OneExecution
<1>1. AgentIInv => OneExecution
  <2> SUFFICES ASSUME AgentIInv PROVE OneExecution
    OBVIOUS
  <2> DEFINE verifying == {c \in Client : Verifying(c)}
             working == {i \in Thread : Working(i)}
  <2>1. /\ verifying = {} \/ \E c \in Client : verifying = {c}
        /\ working = {} \/ \E i \in Thread : working = {i}
        /\ verifying = {} \/ working = {}
    BY DEF AgentIInv, LockHeldByOne
  <2>2. Cardinality({}) = 0 /\ \A x : Cardinality({x}) = 1
    BY FS_EmptySet, FS_Singleton
  <2>3. OneExecution <=> Cardinality(verifying) + Cardinality(working) <= 1
    BY DEF OneExecution, Verifying, Working
  <2> HIDE DEF verifying, working
  <2>4. \/ Cardinality(verifying) = 0 /\ Cardinality(working) \in {0, 1}
        \/ Cardinality(verifying) = 1 /\ Cardinality(working) = 0
    <3>1. CASE verifying = {} /\ working = {}
      BY <2>2, <3>1
    <3>2. ASSUME NEW i \in Thread, verifying = {}, working = {i}
          PROVE  Cardinality(verifying) = 0 /\ Cardinality(working) = 1
      BY <2>2, <3>2
    <3>3. ASSUME NEW c \in Client, verifying = {c}, working = {}
          PROVE  Cardinality(verifying) = 1 /\ Cardinality(working) = 0
      BY <2>2, <3>3
    <3> QED BY <2>1, <3>1, <3>2, <3>3
  <2> QED BY <2>3, <2>4
<1> QED BY <1>1, AgentInvariance, PTL

\* At most one worker thread lives, however starts and stops interleave.
THEOREM LoopIsSingle == Spec => []OneLoop
<1>1. AgentIInv => OneLoop
  <2> SUFFICES ASSUME AgentIInv, NEW i \in Thread, is_alive(i) PROVE i = started
    BY DEF OneLoop
  <2>1. i \in Nat /\ started \in Nat
    BY MaxThreadsAssumption DEF AgentIInv, TypeOK, ControllerTypeOK, Thread
  <2>2. ~(i > started) /\ ~(i < started)
    BY DEF AgentIInv, ThreadsInOrder, is_alive
  <2> QED BY <2>1, <2>2
<1> QED BY <1>1, AgentInvariance, PTL

\* _run reads self._stop_event without the lock and yet finds its own event.
THEOREM EventIsOwn == Spec => []OwnStopEvent
<1>1. AgentIInv => OwnStopEvent
  BY DEF AgentIInv
<1> QED BY <1>1, AgentInvariance, PTL

\* An edit between the two statements of mark_verified is never taken for
\* verified.
THEOREM VerificationIsOfStored == Spec => []VerifiedMatchesStored
<1>1. AgentIInv => VerifiedMatchesStored
  BY DEF AgentIInv
<1> QED BY <1>1, AgentInvariance, PTL

\* A loop that was told to stop and is between two tasks takes no other one.
THEOREM StopIsObeyed == Spec => StoppedTakesNoMore
<1> DEFINE Obeys(i) == is_alive(i) /\ i \in stopped /\ loops[i].at = "waiting"
                           => loops'[i].at \in {"waiting", "none"}
<1>1. ASSUME AgentIInv, [Next]_vars, NEW i \in Thread,
             is_alive(i), i \in stopped, loops[i].at = "waiting"
      PROVE  loops'[i].at \in {"waiting", "none"}
  <2>1. event[i] = i /\ loops \in [Thread -> Loop] /\ threads[i] = "looping"
    BY <1>1 DEF AgentIInv, ThreadsInOrder, OwnStopEvent, TypeOK
  <2>2. CASE UNCHANGED loops
    BY <1>1, <2>2
  <2>3. ASSUME NEW c \in Client, Request(c) \/ Handle(c)
        PROVE  UNCHANGED loops
    BY <2>3 DEF Request, save_model, verify_model, accepting_on, accepting_off, Handle, Stop,
       Join, Switch, Store, Start, Accept, Digest, Unmark, Acquire, Infer, Select, Update,
       Release
  <2>4. CASE Poll
    BY <2>2, <2>4 DEF Poll, PollRuntime, PollAccepting, PollRepair
  <2>5. ASSUME NEW j \in Thread, j # i, Work(j)
        PROVE  loops'[i] = loops[i]
    BY <2>1, <2>5 DEF Work, Enter, Enter2, ListBindings, CheckBinding, Register, Continue,
       RunOnce, RunOnceReturns, Leave, End, agentVars
  <2>6. CASE Work(i)
    <3>1. ~Continue(i)
      BY <1>1, <2>1 DEF Continue
    <3>2. CASE Leave(i)
      BY <2>1, <3>2 DEF Leave, NoLoop
    <3>3. ~Leave(i) => UNCHANGED loops
      BY <1>1, <2>1, <2>6, <3>1 DEF Work, Enter, run_enter, Enter2, run_forever, ListBindings,
         CheckBinding, Register, RunOnce, RunOnceReturns, End, run_end, agentVars
    <3> QED BY <2>2, <3>2, <3>3
  <2>7. CASE Crash
    BY <2>7 DEF Crash, NoLoop
  <2>8. CASE UNCHANGED vars
    BY <2>2, <2>8 DEF vars, agentVars
  <2> QED BY <1>1, <2>2, <2>3, <2>4, <2>5, <2>6, <2>7, <2>8 DEF Next
<1>2. AgentIInv /\ [Next]_vars => [\A i \in Thread : Obeys(i)]_vars
  BY <1>1
<1> QED BY <1>2, AgentInvariance, PTL DEF Spec, StoppedTakesNoMore

-----------------------------------------------------------------------------
(* The promise: every step is one of AgentPromise, or does not show there. *)

\* What the worker shows depends on the controller and the loops alone, what
\* the bindings show on the table.
LEMMA Shown ==
    /\ UNCHANGED <<started, threads, stopped, loops>> => UNCHANGED <<WorkerAt, Told>>
    /\ UNCHANGED bindings => UNCHANGED Trusted
BY DEF WorkerAt, Told, is_alive, Trusted, get_binding, is_verified

\* A statement that writes the row of one binding shows there only.
LEMMA RowShown ==
    ASSUME bindings \in [Binding -> Row], NEW b \in Binding, NEW row, NEW trust \in BOOLEAN,
           bindings' = [bindings EXCEPT ![b] = row],
           (row.verified /\ row.verified_digest = digest(row.binding_json)) <=> trust
    PROVE  /\ Trusted' = [Trusted EXCEPT ![b] = [config |-> row.binding_json, trusted |-> trust]]
           /\ row.binding_json = get_binding(b) =>
                 Trusted' = [Trusted EXCEPT ![b].trusted = trust]
<1> DEFINE shown == [config |-> row.binding_json, trusted |-> trust]
<1>1. \A e \in Binding : bindings'[e] = IF e = b THEN row ELSE bindings[e]
  OBVIOUS
<1>2. Trusted'[b] = shown
  <2>1. get_binding(b)' = row.binding_json
    BY <1>1 DEF get_binding
  <2>2. is_verified(b)' = trust
    BY <1>1, Zenon DEF is_verified
  <2> QED BY <2>1, <2>2, Zenon DEF Trusted
<1>3. \A e \in Binding \ {b} : Trusted'[e] = Trusted[e]
  BY <1>1, Zenon DEF Trusted, get_binding, is_verified
<1>4. Trusted[b].config = get_binding(b)
  BY DEF Trusted
<1>5. Trusted = [e \in Binding |-> Trusted[e]] /\ Trusted' = [e \in Binding |-> Trusted'[e]]
  BY DEF Trusted
<1>6. Trusted' = [Trusted EXCEPT ![b] = shown]
  <2> HIDE DEF shown
  <2> QED BY <1>2, <1>3, <1>5
<1>7. row.binding_json = get_binding(b) => shown = [Trusted[b] EXCEPT !.trusted = trust]
  <2>1. Trusted[b] = [config |-> get_binding(b), trusted |-> is_verified(b)]
    BY DEF Trusted
  <2> QED BY <2>1
<1> QED BY <1>6, <1>7

\* The statements that write a binding.
LEMMA BindingPromise ==
    ASSUME AgentIInv, NEW c \in Client, Store(c) \/ Unmark(c) \/ Update(c)
    PROVE  Promise!Next \/ UNCHANGED Promise!promiseVars
<1> DEFINE b == call[c].b
<1> USE DEF AgentIInv
<1>1. UNCHANGED <<lock, WorkerAt, Told>>
  BY Shown DEF Store, Unmark, Update, controllerVars
<1>2. /\ At(c, "store") => b \in Binding /\ call[c].config \in Config
      /\ At(c, "unmark") \/ At(c, "update") =>
            b \in Binding /\ get_binding(b) # NULL /\ call[c].expected # NULL
  BY DEF CallsKnow, Knows, At
<1>3. bindings \in [Binding -> Row]
  BY DEF TypeOK, StoreTypeOK
<1>4. CASE UNCHANGED bindings
  BY <1>1, <1>4, Shown DEF Promise!promiseVars
<1>5. CASE Store(c) /\ ~UNCHANGED bindings
  <2>1. bindings' = [bindings EXCEPT ![b] = [binding_json |-> call[c].config,
                                             verified |-> FALSE,
                                             verified_digest |-> NULL]]
    BY <1>5 DEF Store, save_binding
  <2>2. Trusted' = [Trusted EXCEPT ![b] = [config |-> call[c].config, trusted |-> FALSE]]
    BY <1>2, <1>3, <1>5, <2>1, RowShown DEF Store
  <2>3. Promise!Edit(b, call[c].config)
    BY <1>1, <2>2 DEF Promise!Edit
  <2> QED BY <1>2, <1>5, <2>3 DEF Promise!Next, Store
<1>6. CASE Unmark(c) /\ ~UNCHANGED bindings
  <2> DEFINE row == [bindings[b] EXCEPT !.verified = FALSE, !.verified_digest = NULL]
  <2>1. bindings' = [bindings EXCEPT ![b] = row]
    BY <1>6 DEF Unmark, mark_unverified
  <2>2. Trusted' = [Trusted EXCEPT ![b].trusted = FALSE]
    <3>1. ~row.verified /\ row.binding_json = get_binding(b) /\ b \in Binding
      BY <1>2, <1>3, <1>6 DEF Unmark, Row, get_binding
    <3> HIDE DEF row
    <3> QED BY <1>3, <2>1, <3>1, RowShown
  <2>3. Promise!Doubt(b)
    BY <1>1, <2>2 DEF Promise!Doubt
  <2> QED BY <1>2, <1>6, <2>3 DEF Promise!Next, Unmark
<1>7. CASE Update(c) /\ ~UNCHANGED bindings
  <2> DEFINE row == [bindings[b] EXCEPT !.verified = TRUE,
                                        !.verified_digest = digest(call[c].expected)]
  <2>1. get_binding(b) = call[c].expected /\ bindings' = [bindings EXCEPT ![b] = row]
    BY <1>7 DEF Update, mark_verified_update
  <2>2. Trusted' = [Trusted EXCEPT ![b].trusted = TRUE]
    <3>1. /\ row.verified /\ row.verified_digest = digest(row.binding_json)
          /\ row.binding_json = get_binding(b) /\ b \in Binding
      BY <1>2, <1>3, <1>7, <2>1 DEF Update, Row, get_binding
    <3> HIDE DEF row
    <3> QED BY <1>3, <2>1, <3>1, RowShown
  <2>3. lock = "verification"
    BY <1>7 DEF Update, At, LockHeldByOne, Verifying
  <2>4. Trusted[b].config # NULL
    BY <1>2, <1>7 DEF Trusted, Update
  <2>5. Promise!Trust(b)
    BY <1>1, <2>2, <2>3, <2>4 DEF Promise!Trust
  <2> QED BY <1>2, <1>7, <2>5 DEF Promise!Next, Update
<1> QED BY <1>4, <1>5, <1>6, <1>7

\* The requests that start and stop the worker.
LEMMA ControlPromise ==
    ASSUME AgentIInv, NEW c \in Client, Stop(c) \/ Start(c)
    PROVE  Promise!Next \/ UNCHANGED Promise!promiseVars
<1> USE DEF AgentIInv
<1>1. UNCHANGED <<lock, Trusted, loops>>
  BY Shown DEF Stop, Start, storeVars
<1>2. CASE UNCHANGED controllerVars
  BY <1>1, <1>2, Shown DEF Promise!promiseVars, controllerVars
<1>3. CASE Stop(c)
  <2>1. UNCHANGED <<started, threads>> /\ stopped' \in {stopped, stopped \cup {started}}
    BY <1>3 DEF Stop, stop_set
  <2>2. WorkerAt' = WorkerAt
    BY <1>1, <2>1 DEF WorkerAt, is_alive
  <2>3. CASE ~is_alive(started)
    <3>1. Told' = Told
      BY <2>1, <2>3 DEF Told, is_alive
    <3> QED BY <1>1, <2>2, <3>1 DEF Promise!promiseVars
  <2>4. CASE is_alive(started)
    <3>1. started # 0
      BY <2>4 DEF is_alive
    <3>2. Told' = TRUE
      BY <1>3, <2>1, <2>4, <3>1 DEF Told, is_alive, Stop, stop_set
    <3>3. WorkerAt # "none"
      BY <2>4 DEF WorkerAt
    <3>4. Promise!Tell
      BY <1>1, <2>2, <3>2, <3>3 DEF Promise!Tell
    <3> QED BY <3>4 DEF Promise!Next
  <2> QED BY <2>3, <2>4
<1>4. CASE Start(c) /\ ~UNCHANGED controllerVars
  <2>1. /\ ~is_alive(started)
        /\ started < MaxThreads
        /\ started' = started + 1
        /\ threads' = [threads EXCEPT ![started + 1] = "spawned"]
        /\ UNCHANGED stopped
    BY <1>4 DEF Start, start
  <2>2. started + 1 \in Thread /\ started + 1 > started /\ started + 1 # 0
    BY <2>1, MaxThreadsAssumption DEF TypeOK, ControllerTypeOK, Thread
  <2>3. threads'[started + 1] = "spawned"
    BY <2>1, <2>2 DEF TypeOK, ControllerTypeOK
  <2>4. is_alive(started)'
    BY <2>1, <2>2, <2>3 DEF is_alive
  <2>5. started + 1 \notin stopped
    BY <2>2 DEF ThreadsInOrder, TypeOK, ControllerTypeOK
  <2>6. loops[started + 1].at = "none"
    BY <2>2 DEF ThreadsInOrder
  <2>7. WorkerAt = "none" /\ ~Told
    BY <2>1 DEF WorkerAt, Told
  <2>8. WorkerAt' = "waiting"
    BY <1>1, <2>1, <2>4, <2>6 DEF WorkerAt
  <2>9. ~Told'
    BY <2>1, <2>5 DEF Told
  <2>10. UNCHANGED Told
    BY <2>7, <2>9 DEF Told
  <2>11. Promise!Hire
    BY <1>1, <2>7, <2>8, <2>10 DEF Promise!Hire
  <2> QED BY <2>11 DEF Promise!Next
<1> QED BY <1>2, <1>3, <1>4

\* The other requests: they take and give back the slot, or show nothing.
LEMMA RequestPromise ==
    ASSUME AgentIInv, NEW c \in Client, Request(c) \/ Handle(c)
    PROVE  Promise!Next \/ UNCHANGED Promise!promiseVars
<1>1. CASE Store(c) \/ Unmark(c) \/ Update(c)
  BY <1>1, BindingPromise
<1>2. CASE Stop(c) \/ Start(c)
  BY <1>2, ControlPromise
<1>3. CASE Acquire(c) \/ Release(c)
  <2>1. UNCHANGED <<Trusted, WorkerAt, Told>>
    BY <1>3, Shown DEF Acquire, Release, storeVars, controllerVars
  <2>2. CASE Acquire(c)
    <3>1. Promise!BeginVerification
      BY <2>1, <2>2 DEF Acquire, Promise!BeginVerification
    <3> QED BY <3>1 DEF Promise!Next
  <2>3. CASE Release(c)
    <3>1. lock = "verification"
      BY <2>3 DEF Release, At, AgentIInv, LockHeldByOne, Verifying
    <3>2. Promise!EndVerification
      BY <2>1, <2>3, <3>1 DEF Release, Promise!EndVerification
    <3> QED BY <3>2 DEF Promise!Next
  <2> QED BY <1>3, <2>2, <2>3
<1>4. CASE Request(c) \/ Join(c) \/ Switch(c) \/ Accept(c) \/ Digest(c) \/ Infer(c) \/ Select(c)
  <2>1. UNCHANGED <<bindings, started, threads, stopped, loops, lock>>
    BY <1>4 DEF Request, save_model, verify_model, accepting_on, accepting_off, Join, stop_settle,
       Switch, set_accepting, Accept, Digest, Infer, Select, storeVars, controllerVars
  <2> QED BY <2>1, Shown DEF Promise!promiseVars
<1> QED BY <1>1, <1>2, <1>3, <1>4 DEF Handle

\* The worker thread.
LEMMA WorkPromise ==
    ASSUME AgentIInv, NEW i \in Thread, Work(i)
    PROVE  Promise!Next \/ UNCHANGED Promise!promiseVars
<1> USE DEF AgentIInv
<1>1. UNCHANGED <<Trusted, started, stopped>>
  BY Shown DEF Work, Enter, Enter2, ListBindings, CheckBinding, Register, Continue, RunOnce,
     RunOnceReturns, Leave, End, run_enter, run_forever, run_leave, run_end, storeVars,
     controllerVars
<1>2. /\ i \in Nat /\ started \in Nat /\ i # 0
      /\ threads \in [Thread -> ThreadState] /\ loops \in [Thread -> Loop]
  BY MaxThreadsAssumption DEF TypeOK, ControllerTypeOK, Thread
<1>3. i = started /\ is_alive(started) /\ threads[i] \notin {"new", "dead"}
  <2>1. threads[i] \notin {"new", "dead"}
    BY DEF Work, Enter, Enter2, ListBindings, CheckBinding, Register, Continue, RunOnce,
       RunOnceReturns, Leave, End, run_enter, run_forever, run_leave, run_end, ThreadsInOrder
  <2>2. ~(i > started) /\ ~(i < started)
    BY <2>1 DEF ThreadsInOrder
  <2>3. i = started
    BY <1>2, <2>2
  <2> QED BY <1>2, <2>1, <2>3 DEF is_alive
<1>4. Told <=> i \in stopped
  BY <1>3 DEF Told
<1>5. WorkerAt = IF loops[i].at = "running" THEN "running"
                 ELSE IF loops[i].at = "acquire" THEN "committed" ELSE "waiting"
  BY <1>3 DEF WorkerAt
<1>6. ASSUME threads'[i] # "new", threads'[i] # "dead"
      PROVE  /\ UNCHANGED Told
             /\ WorkerAt' = IF loops'[i].at = "running" THEN "running"
                            ELSE IF loops'[i].at = "acquire" THEN "committed" ELSE "waiting"
  <2>1. is_alive(started)'
    BY <1>1, <1>2, <1>3, <1>6 DEF is_alive
  <2>2. UNCHANGED Told
    BY <1>1, <1>3, <2>1 DEF Told
  <2>3. WorkerAt' = IF loops'[started'].at = "running" THEN "running"
                    ELSE IF loops'[started'].at = "acquire" THEN "committed" ELSE "waiting"
    BY <2>1 DEF WorkerAt
  <2> QED BY <1>1, <1>3, <2>2, <2>3
<1>7. CASE Enter(i) \/ Enter2(i) \/ ListBindings(i) \/ CheckBinding(i) \/ Register(i)
  <2>1. loops[i].at \notin {"running", "acquire"} /\ loops'[i].at \notin {"running", "acquire"}
    <3>1. CASE Enter(i)
      BY <1>2, <3>1 DEF Enter, run_enter, agentVars, ThreadsInOrder
    <3>2. CASE Enter2(i)
      BY <1>2, <3>2 DEF Enter2, run_forever, NoLoop, ThreadsInOrder
    <3>3. CASE ListBindings(i)
      BY <1>2, <3>3 DEF ListBindings
    <3>4. CASE CheckBinding(i)
      <4>1. PICK b \in loops[i].unchecked : loops' = [loops EXCEPT ![i] = Checked(@, b)]
        BY <3>4 DEF CheckBinding
      <4>2. Checked(loops[i], b).at = loops[i].at
        BY <1>2 DEF Checked, Loop
      <4> QED BY <1>2, <3>4, <4>1, <4>2 DEF CheckBinding
    <3>5. CASE Register(i)
      BY <1>2, <3>5 DEF Register, Loop
    <3> QED BY <1>7, <3>1, <3>2, <3>3, <3>4, <3>5
  <2>2. threads'[i] \notin {"new", "dead"}
    BY <1>2, <1>3, <1>7 DEF Enter, Enter2, ListBindings, CheckBinding, Register, run_enter,
       run_forever, controllerVars
  <2>3. UNCHANGED lock
    BY <1>7 DEF Enter, Enter2, ListBindings, CheckBinding, Register, agentVars
  <2> QED BY <1>1, <1>5, <1>6, <2>1, <2>2, <2>3 DEF Promise!promiseVars
<1>8. CASE Continue(i)
  <2>1. i \notin stopped
    <3>1. threads[i] = "looping"
      BY <1>8 DEF Continue, ThreadsInOrder
    <3> QED BY <1>8, <3>1 DEF Continue, OwnStopEvent
  <2>2. loops[i].at = "waiting" /\ loops'[i].at = "acquire"
    BY <1>2, <1>8 DEF Continue, Loop
  <2>3. threads'[i] \notin {"new", "dead"} /\ UNCHANGED lock
    BY <1>3, <1>8 DEF Continue, controllerVars
  <2>4. Promise!Commit
    BY <1>1, <1>4, <1>5, <1>6, <2>1, <2>2, <2>3 DEF Promise!Commit
  <2> QED BY <2>4 DEF Promise!Next
<1>9. CASE RunOnce(i)
  <2>1. loops[i].at = "acquire" /\ loops'[i].at = "running" /\ lock = "free" /\ lock' = "worker"
    BY <1>2, <1>9 DEF RunOnce, Loop
  <2>2. threads'[i] \notin {"new", "dead"}
    BY <1>3, <1>9 DEF RunOnce, controllerVars
  <2>3. Promise!Take
    BY <1>1, <1>5, <1>6, <2>1, <2>2 DEF Promise!Take
  <2> QED BY <2>3 DEF Promise!Next
<1>10. CASE RunOnceReturns(i) \/ (Leave(i) /\ loops[i].at = "running")
  <2>1. loops[i].at = "running" /\ loops'[i].at \in {"waiting", "none"} /\ lock' = "free"
    <3>1. CASE RunOnceReturns(i)
      BY <1>2, <3>1 DEF RunOnceReturns, Loop
    <3>2. CASE Leave(i) /\ loops[i].at = "running"
      BY <1>2, <3>2 DEF Leave, NoLoop
    <3> QED BY <1>10, <3>1, <3>2
  <2>2. threads'[i] \notin {"new", "dead"}
    BY <1>2, <1>3, <1>10 DEF RunOnceReturns, Leave, run_leave, controllerVars
  <2>3. Promise!Finish
    BY <1>1, <1>5, <1>6, <2>1, <2>2 DEF Promise!Finish
  <2> QED BY <2>3 DEF Promise!Next
<1>11. CASE Leave(i) /\ loops[i].at # "running"
  <2>1. /\ loops[i].at \in {"waiting", "check"} /\ loops'[i].at = "none"
        /\ UNCHANGED lock
    BY <1>2, <1>11 DEF Leave, NoLoop
  <2>2. threads'[i] \notin {"new", "dead"}
    BY <1>2, <1>3, <1>11 DEF Leave, run_leave
  <2> QED BY <1>1, <1>5, <1>6, <2>1, <2>2 DEF Promise!promiseVars
<1>12. CASE End(i)
  <2>1. threads'[i] = "dead" /\ threads[i] = "leaving" /\ UNCHANGED <<loops, lock>>
    BY <1>2, <1>12 DEF End, run_end, agentVars
  <2>2. loops[i].at = "none"
    BY <2>1, <1>2 DEF ThreadsInOrder, Loop
  <2>3. ~is_alive(started)'
    BY <1>1, <1>3, <2>1 DEF is_alive
  <2>4. WorkerAt' = "none" /\ Told' = FALSE
    BY <2>3 DEF WorkerAt, Told
  <2>5. Promise!Retire
    BY <1>1, <1>5, <2>1, <2>2, <2>4 DEF Promise!Retire
  <2> QED BY <2>5 DEF Promise!Next
<1> QED BY <1>7, <1>8, <1>9, <1>10, <1>11, <1>12 DEF Work

\* The Agent implements AgentPromise: one execution at a time, trust only by a
\* verification that holds the slot, and a stop that lets at most one more
\* task through.
THEOREM PromiseKept == Spec => ImplementsPromise
<1>1. Init => Promise!Init
  <2> SUFFICES ASSUME Init PROVE Promise!Init
    OBVIOUS
  <2>1. started = 0 /\ lock = "free" /\ ~is_alive(started)
    BY DEF Init, ControllerInit, is_alive
  <2>2. Trusted = [b \in Binding |-> [config |-> NULL, trusted |-> FALSE]]
    BY DEF Init, StoreInit, Trusted, get_binding, is_verified
  <2>3. WorkerAt = "none" /\ Told = FALSE
    BY <2>1 DEF WorkerAt, Told
  <2> QED BY <2>1, <2>2, <2>3 DEF Promise!Init
<1>2. AgentIInv /\ [Next]_vars => [Promise!Next]_(Promise!promiseVars)
  <2> SUFFICES ASSUME AgentIInv, [Next]_vars
               PROVE  Promise!Next \/ UNCHANGED Promise!promiseVars
    OBVIOUS
  <2>1. CASE Poll \/ UNCHANGED vars
    <3>1. UNCHANGED <<bindings, started, threads, stopped, loops, lock>>
      BY <2>1 DEF Poll, PollRuntime, PollAccepting, PollRepair, set_accepting, vars, storeVars,
         controllerVars, agentVars
    <3> QED BY <3>1, Shown DEF Promise!promiseVars
  <2>2. CASE Crash
    <3>1. started' = 0 /\ lock' = "free" /\ UNCHANGED bindings
      BY <2>2 DEF Crash, set_accepting
    <3>2. WorkerAt' = "none" /\ Told' = FALSE
      BY <3>1 DEF WorkerAt, Told, is_alive
    <3>3. Promise!Restart
      BY <3>1, <3>2, Shown DEF Promise!Restart
    <3> QED BY <3>3 DEF Promise!Next
  <2>3. ASSUME NEW c \in Client, Request(c) \/ Handle(c)
        PROVE  Promise!Next \/ UNCHANGED Promise!promiseVars
    BY <2>3, RequestPromise
  <2>4. ASSUME NEW i \in Thread, Work(i)
        PROVE  Promise!Next \/ UNCHANGED Promise!promiseVars
    BY <2>4, WorkPromise
  <2> QED BY <2>1, <2>2, <2>3, <2>4 DEF Next
<1> QED BY <1>1, <1>2, AgentInvariance, PTL DEF Spec, ImplementsPromise, Promise!Spec
=============================================================================
