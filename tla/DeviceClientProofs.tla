-------------------------- MODULE DeviceClientProofs --------------------------
(***************************************************************************)
(* Proofs about DeviceClient: the SDK uses the routes as ControlPlane      *)
(* allows, and what it tells its caller is so.                             *)
(***************************************************************************)
EXTENDS DeviceClient, ControlPlaneProofs

-----------------------------------------------------------------------------
(* The server under the clients *)

LEMMA ServerStep == [DeviceNext]_deviceVars => [ControlNext]_serverVars
<1> SUFFICES ASSUME [DeviceNext]_deviceVars PROVE [ControlNext]_serverVars
  OBVIOUS
<1>1. ASSUME NEW k \in Client, Application(k) PROVE UNCHANGED serverVars
  BY <1>1 DEF Application, create_task, wait_for_result
<1>2. ASSUME NEW k \in Client, Attempt(k)
      PROVE  UNCHANGED serverVars \/ \E c \in Http : Reserve(c) \/ Begin(c)
  BY <1>2 DEF Attempt, Post, Put, Get, GetResult, Lost
<1>3. ASSUME NEW c \in Http, Serve(c) PROVE Route(c)
  BY <1>3 DEF Serve
<1>4. CASE Restart
  BY <1>4 DEF Restart, ControlNext
<1>5. CASE UNCHANGED deviceVars
  BY <1>5 DEF deviceVars
<1> QED BY <1>1, <1>2, <1>3, <1>4, <1>5 DEF DeviceNext, ControlNext, Route

\* Every behaviour of clients and server is one of the server alone, so that
\* all that is proved of the routes and of the repository holds beside the SDK.
THEOREM ClientsUseRoutes == DeviceSpec => ControlSpec
<1>1. DeviceInit => ControlInit
  BY DEF DeviceInit
<1> QED BY <1>1, ServerStep, PTL DEF DeviceSpec, ControlSpec

-----------------------------------------------------------------------------
(* What a client knows *)

\* What a client may rely on of a row remains so.
LEMMA OwnRowStays ==
    ASSUME IInv, [Next]_vars, NEW t \in Task, NEW k, NEW s, OwnRow(k, s, tasks[t])
    PROVE  OwnRow(k, s, tasks'[t])
<1> DEFINE r == tasks[t]
           q == tasks'[t]
<1>1. RowStep(r, q) /\ r \in Row
  BY RowSteps DEF IInv, TypeOK
<1>2. r.status # "absent"
  BY DEF OwnRow
<1> HIDE DEF r, q
<1>3. MovesOn(r, q)
  BY <1>1, <1>2, RowMovesOn
<1>4. r.status \in Terminal => q = r
  BY <1>1 DEF RowStep, Terminal, Held, Swept, Lapsed
<1>5. OwnRow(k, s, r)
  BY DEF r
<1>6. OwnRow(k, s, q)
  BY <1>3, <1>4, <1>5 DEF OwnRow, MovesOn, Terminal
<1> QED BY <1>6 DEF q

\* A client that ends as s, while the others and their requests go on.
LEMMA ClientMoves ==
    ASSUME ControlIInv, ClientIInv, [Next]_vars, calls' \in 0..MaxCalls,
           NEW k \in Client, NEW s \in SdkCall, Sets(k, s),
           s.at # "idle" => s.request \in Request /\ s.outcome = "none",
           HasTask(s) => s.task \in Task /\ OwnRow(k, s, tasks'[s.task]),
           s.call # NULL => Carries(k, s, http'[s.call]),
           \A j \in Client \ {k} : sdk[j].call # NULL =>
              sdk[j].call # s.call /\ Carries(j, sdk[j], http'[sdk[j].call])
    PROVE  ClientIInv'
<1>1. /\ sdk' \in [Client -> SdkCall]
      /\ sdk'[k] = s /\ \A j \in Client \ {k} : sdk'[j] = sdk[j]
  BY DEF Sets, ClientIInv
<1>2. ASSUME NEW j \in Client PROVE Told(j)' /\ Waits(j)'
  <2>1. CASE j = k
    BY <1>1, <2>1 DEF Told, Waits
  <2>2. CASE j # k
    <3>1. sdk'[j] = sdk[j] /\ Told(j)
      BY <1>1, <2>2 DEF ClientIInv
    <3>2. HasTask(sdk[j]) => OwnRow(j, sdk[j], tasks'[sdk[j].task])
      BY <3>1, OwnRowStays DEF Told, ControlIInv
    <3>3. Told(j)'
      BY <3>1, <3>2 DEF Told
    <3>4. Waits(j)'
      BY <2>2, <3>1 DEF Waits
    <3> QED BY <3>3, <3>4
  <2> QED BY <2>1, <2>2
<1>3. \A i, j \in Client : sdk'[i].call # NULL /\ sdk'[i].call = sdk'[j].call => i = j
  BY <1>1 DEF ClientIInv
<1> QED BY <1>1, <1>2, <1>3 DEF ClientIInv

\* The server moves on beside the clients, without ending a request that one
\* of them waits for.
LEMMA NoClientMoves ==
    ASSUME ControlIInv, ClientIInv, [Next]_vars, UNCHANGED <<sdk, calls>>,
           \A j \in Client : sdk[j].call # NULL => Carries(j, sdk[j], http'[sdk[j].call])
    PROVE  ClientIInv'
<1>1. ASSUME NEW j \in Client PROVE Told(j)' /\ Waits(j)'
  <2>1. sdk' = sdk /\ Told(j)
    BY DEF ClientIInv
  <2>2. HasTask(sdk[j]) => OwnRow(j, sdk[j], tasks'[sdk[j].task])
    BY <2>1, OwnRowStays DEF Told, ControlIInv
  <2> QED BY <2>1, <2>2 DEF Told, Waits
<1> QED BY <1>1 DEF ClientIInv

\* Calls as the steps leave them.
LEMMA CallTypes ==
    /\ Unused \in SdkCall /\ Unused.at = "idle" /\ Unused.call = NULL /\ ~HasTask(Unused)
    /\ \A k : Refused(k) \in SdkCall /\ Refused(k).at = "idle" /\ Refused(k).call = NULL
              /\ ~HasTask(Refused(k))
<1>1. 0 \in 0..MAX_RETRIES
  BY ClientAssumption
<1>2. Unused \in SdkCall
  BY <1>1 DEF Unused, SdkCall
<1>3. /\ Unused.at = "idle" /\ Unused.call = NULL /\ ~HasTask(Unused)
  BY DEF Unused, HasTask
<1>4. ASSUME NEW k
      PROVE  Refused(k) \in SdkCall /\ Refused(k).at = "idle" /\ Refused(k).call = NULL
             /\ ~HasTask(Refused(k))
  BY <1>1 DEF Unused, Refused, SdkCall, HasTask
<1> QED BY <1>2, <1>3, <1>4

\* One more attempt is of the same request; after the last there is nothing.
LEMMA AgainOK ==
    ASSUME NEW k \in Client, sdk[k] \in SdkCall, NEW u \in BOOLEAN
    PROVE  LET s == [Again(k) EXCEPT !.unread = u]
           IN  /\ s \in SdkCall /\ Again(k) \in SdkCall
               /\ s.call = NULL /\ Again(k).call = NULL
               /\ \/ s.at = "idle" /\ ~HasTask(s)
                  \/ /\ s.at = sdk[k].at /\ s.request = sdk[k].request /\ s.task = sdk[k].task
                     /\ s.outcome = sdk[k].outcome /\ s.got = sdk[k].got
               /\ \/ Again(k).at = "idle" /\ ~HasTask(Again(k))
                  \/ /\ Again(k).at = sdk[k].at /\ Again(k).request = sdk[k].request
                     /\ Again(k).task = sdk[k].task /\ Again(k).outcome = sdk[k].outcome
                     /\ Again(k).got = sdk[k].got
<1> DEFINE s == [Again(k) EXCEPT !.unread = u]
<1>1. CASE sdk[k].attempt < MAX_RETRIES
  <2>1. sdk[k].attempt + 1 \in 0..MAX_RETRIES
    BY <1>1, ClientAssumption DEF SdkCall
  <2>2. Again(k) = [sdk[k] EXCEPT !.attempt = sdk[k].attempt + 1, !.call = NULL]
    BY <1>1 DEF Again
  <2> QED BY <2>1, <2>2 DEF SdkCall
<1>2. CASE ~(sdk[k].attempt < MAX_RETRIES)
  <2>1. Again(k) = [Unused EXCEPT !.outcome = "raised"]
    BY <1>2 DEF Again
  <2> QED BY <2>1, CallTypes DEF SdkCall, Unused, HasTask
<1> QED BY <1>1, <1>2

\* A call that goes on with the same task, or is over, is still told the truth.
LEMMA StillTold ==
    ASSUME ControlIInv, ClientIInv, [Next]_vars, NEW k \in Client, NEW s,
           \/ s.at = "idle" /\ ~HasTask(s)
           \/ /\ s.at = sdk[k].at /\ s.request = sdk[k].request /\ s.task = sdk[k].task
              /\ s.outcome = sdk[k].outcome /\ s.got = sdk[k].got
    PROVE  /\ s.at # "idle" => s.request \in Request /\ s.outcome = "none"
           /\ HasTask(s) => s.task \in Task /\ OwnRow(k, s, tasks'[s.task])
<1>1. CASE s.at = "idle" /\ ~HasTask(s)
  BY <1>1
<1>2. CASE /\ s.at = sdk[k].at /\ s.request = sdk[k].request /\ s.task = sdk[k].task
           /\ s.outcome = sdk[k].outcome /\ s.got = sdk[k].got
  <2>1. Told(k)
    BY DEF ClientIInv
  <2>2. HasTask(sdk[k]) =>
           sdk[k].task \in Task /\ OwnRow(k, sdk[k], tasks'[sdk[k].task])
    BY <2>1, OwnRowStays DEF Told, ControlIInv
  <2> QED BY <1>2, <2>1, <2>2 DEF Told, HasTask, OwnRow
<1> QED BY <1>1, <1>2

\* Only the request that moves changes.
LEMMA OthersWait ==
    ASSUME ClientIInv, NEW c, \A d \in Http \ {c} : http'[d] = http[d],
           NEW j \in Client, sdk[j].call # NULL, sdk[j].call # c
    PROVE  Carries(j, sdk[j], http'[sdk[j].call])
<1>1. sdk[j] \in SdkCall /\ Carries(j, sdk[j], http[sdk[j].call])
  BY DEF ClientIInv, Waits
<1>2. sdk[j].call \in Http
  BY <1>1 DEF SdkCall
<1> QED BY <1>1, <1>2

\* A free request is nobody's.
LEMMA FreeIsNobodys ==
    ASSUME ClientIInv, NEW c \in Http, http[c].at = "free", NEW j \in Client
    PROVE  sdk[j].call # c
<1>1. c # NULL
  BY ClientAssumption
<1>2. sdk[j].call # NULL => Carries(j, sdk[j], http[sdk[j].call])
  BY DEF ClientIInv, Waits
<1> QED BY <1>1, <1>2 DEF Carries

-----------------------------------------------------------------------------
(* The steps of a client *)

LEMMA ApplicationStep ==
    ASSUME ControlIInv, ClientIInv, NEW k \in Client, Application(k)
    PROVE  ClientIInv'
<1>1. UNCHANGED serverVars /\ [Next]_vars
  BY DEF Application, create_task, wait_for_result, serverVars
<1>2. \A j \in Client : sdk[j].call # NULL => Carries(j, sdk[j], http'[sdk[j].call])
  BY <1>1 DEF ClientIInv, Waits, serverVars, controlVars
<1>3. sdk[k] \in SdkCall /\ calls \in 0..MaxCalls /\ MaxCalls \in Nat
  BY ClientAssumption DEF ClientIInv
<1>4. CASE create_task(k)
  <2>1. PICK e \in Request, r \in Rereadable :
           Sets(k, [Unused EXCEPT !.at = "post", !.request = e, !.rereadable = r, !.unread = TRUE])
    BY <1>4 DEF create_task
  <2> DEFINE s == [Unused EXCEPT !.at = "post", !.request = e, !.rereadable = r, !.unread = TRUE]
  <2>2. s \in SdkCall
    BY CallTypes, ClientAssumption DEF SdkCall
  <2>3. s.at = "post" /\ s.request = e /\ s.outcome = "none" /\ s.call = NULL /\ ~HasTask(s)
    BY DEF Unused, HasTask
  <2>4. calls' \in 0..MaxCalls
    BY <1>3, <1>4 DEF create_task
  <2> HIDE DEF s
  <2>5. Sets(k, s)
    BY <2>1 DEF s
  <2> QED BY <1>1, <1>2, <2>2, <2>3, <2>4, <2>5, ClientMoves
<1>5. CASE wait_for_result(k)
  <2> DEFINE s == [Asks(k, "get") EXCEPT !.deadline = now + WAIT_TIMEOUT, !.outcome = "none"]
  <2>1. Sets(k, s) /\ sdk[k].outcome \in {"created", "timed_out"} /\ calls' = calls
    BY <1>5 DEF wait_for_result
  <2>2. now + WAIT_TIMEOUT \in Nat /\ 0 \in 0..MAX_RETRIES
    BY ClientAssumption DEF ControlIInv, IInv, TypeOK
  <2>3. s \in SdkCall
    BY <1>3, <2>2 DEF SdkCall, Asks
  <2>4. /\ s.at = "get" /\ s.request = sdk[k].request /\ s.task = sdk[k].task
        /\ s.outcome = "none" /\ s.call = NULL
    BY <1>3 DEF SdkCall, Asks
  <2>5. HasTask(sdk[k]) /\ Told(k)
    BY <2>1 DEF HasTask, ClientIInv
  <2>6. sdk[k].task \in Task /\ OwnRow(k, sdk[k], tasks'[sdk[k].task])
    BY <1>1, <2>5 DEF Told, serverVars, vars
  <2> HIDE DEF s
  <2>7. OwnRow(k, s, tasks'[s.task])
    BY <2>1, <2>4, <2>6 DEF OwnRow
  <2>8. s.request \in Request
    <3>1. tasks' = tasks /\ RowsHaveRequests
      BY <1>1 DEF serverVars, vars, ControlIInv
    <3> QED BY <2>4, <2>6, <3>1 DEF OwnRow, RowsHaveRequests, exists
  <2> QED BY <1>1, <1>2, <1>3, <2>1, <2>3, <2>4, <2>6, <2>7, <2>8, ClientMoves
<1> QED BY <1>4, <1>5 DEF Application

\* Post and Put take a free request of the server, or learn that there is none
\* for them.
LEMMA SendStep ==
    ASSUME ControlIInv, ClientIInv, NEW k \in Client, Post(k) \/ Put(k), [Next]_vars
    PROVE  ClientIInv'
<1>1. sdk[k] \in SdkCall /\ calls' = calls /\ calls \in 0..MaxCalls /\ sdk[k].at \in {"post", "put"}
  BY DEF ClientIInv, Post, Put
<1>2. ASSUME UNCHANGED serverVars, NEW s \in SdkCall, Sets(k, s), s.call = NULL,
             \/ s.at = "idle" /\ ~HasTask(s)
             \/ /\ s.at = sdk[k].at /\ s.request = sdk[k].request /\ s.task = sdk[k].task
                /\ s.outcome = sdk[k].outcome /\ s.got = sdk[k].got
      PROVE  ClientIInv'
  <2>1. \A j \in Client : sdk[j].call # NULL => Carries(j, sdk[j], http'[sdk[j].call])
    BY <1>2 DEF ClientIInv, Waits, serverVars, controlVars
  <2>2. /\ s.at # "idle" => s.request \in Request /\ s.outcome = "none"
        /\ HasTask(s) => s.task \in Task /\ OwnRow(k, s, tasks'[s.task])
    BY <1>2, StillTold
  <2> QED BY <1>1, <1>2, <2>1, <2>2, ClientMoves
<1>3. ASSUME NEW c \in Http, NEW r, http[c].at = "free", Becomes(c, r),
             NEW u \in BOOLEAN, NEW s, s = [sdk[k] EXCEPT !.call = c, !.unread = u],
             Sets(k, s), Carries(k, s, r)
      PROVE  ClientIInv'
  <2>1. /\ http'[c] = r
        /\ \A d \in Http \ {c} : http'[d] = http[d]
    BY <1>3, OneRequest DEF ControlIInv
  <2>2. /\ s \in SdkCall /\ s.call = c
        /\ s.at = sdk[k].at /\ s.request = sdk[k].request /\ s.task = sdk[k].task
        /\ s.outcome = sdk[k].outcome /\ s.got = sdk[k].got
    BY <1>1, <1>3 DEF SdkCall
  <2>3. \A j \in Client : sdk[j].call # c
    BY <1>3, FreeIsNobodys
  <2>4. \A j \in Client \ {k} : sdk[j].call # NULL =>
           sdk[j].call # s.call /\ Carries(j, sdk[j], http'[sdk[j].call])
    BY <2>1, <2>2, <2>3, OthersWait
  <2>5. /\ s.at # "idle" => s.request \in Request /\ s.outcome = "none"
        /\ HasTask(s) => s.task \in Task /\ OwnRow(k, s, tasks'[s.task])
    BY <2>2, StillTold
  <2>6. s.call # NULL => Carries(k, s, http'[s.call])
    BY <1>3, <2>1, <2>2
  <2> QED BY <1>1, <1>3, <2>2, <2>4, <2>5, <2>6, ClientMoves
<1>4. CASE Post(k)
  <2>1. CASE UNCHANGED serverVars /\ Sets(k, Exhausted(k))
    <3>1. Exhausted(k) = Again(k) \/ Exhausted(k) = Refused(k)
      BY DEF Exhausted
    <3>2. CASE Exhausted(k) = Again(k)
      BY <1>1, <1>2, <2>1, <3>2, AgainOK
    <3>3. CASE Exhausted(k) = Refused(k)
      BY <1>2, <2>1, <3>3, CallTypes
    <3> QED BY <3>1, <3>2, <3>3
  <2>2. CASE \E c \in Http :
                /\ Reserve(c)
                /\ http'[c].device = ClientDevice[k]
                /\ http'[c].request = sdk[k].request
                /\ Sets(k, [sdk[k] EXCEPT !.call = c])
    <3>1. PICK c \in Http :
                /\ Reserve(c)
                /\ http'[c].device = ClientDevice[k]
                /\ http'[c].request = sdk[k].request
                /\ Sets(k, [sdk[k] EXCEPT !.call = c])
      BY <2>2
    <3>2. PICK d \in Device, e \in Request : Becomes(c, Creating("count", d, e))
      BY <3>1 DEF Reserve
    <3> DEFINE r == Creating("count", d, e)
    <3>3. http[c].at = "free" /\ http'[c] = r /\ r.at = "count"
      BY <3>1, <3>2, OneRequest DEF Reserve, In, ControlIInv, Creating, Free
    <3> HIDE DEF r
    <3>4. [sdk[k] EXCEPT !.call = c] = [sdk[k] EXCEPT !.call = c, !.unread = sdk[k].unread]
          /\ sdk[k].unread \in BOOLEAN
      BY <1>1 DEF SdkCall
    <3> DEFINE s == [sdk[k] EXCEPT !.call = c, !.unread = sdk[k].unread]
    <3>5. s.at = "post" /\ s.request = sdk[k].request
      BY <1>1, <1>4 DEF SdkCall, Post
    <3>6. Carries(k, s, r)
      BY <3>1, <3>3, <3>5 DEF Carries
    <3>7. Sets(k, s) /\ Becomes(c, r)
      BY <3>1, <3>2, <3>4 DEF r
    <3> HIDE DEF s
    <3> QED BY <1>3, <3>3, <3>4, <3>6, <3>7 DEF s
  <2> QED BY <1>4, <2>1, <2>2 DEF Post
<1>5. CASE Put(k)
  <2>1. CASE UNCHANGED serverVars /\ Sets(k, Refused(k))
    BY <1>2, <2>1, CallTypes
  <2>2. CASE \E c \in Http :
                /\ Begin(c)
                /\ http'[c].task = sdk[k].task
                /\ Sets(k, [sdk[k] EXCEPT !.call = c, !.unread = sdk[k].rereadable])
    <3>1. PICK c \in Http :
                /\ Begin(c)
                /\ http'[c].task = sdk[k].task
                /\ Sets(k, [sdk[k] EXCEPT !.call = c, !.unread = sdk[k].rereadable])
      BY <2>2
    <3>2. PICK t \in Task :
             Becomes(c, [Free EXCEPT !.at = "writing", !.task = t, !.file = artifact(t)])
      BY <3>1 DEF Begin
    <3> DEFINE r == [Free EXCEPT !.at = "writing", !.task = t, !.file = artifact(t)]
    <3>3. http[c].at = "free" /\ http'[c] = r /\ r.at = "writing"
      BY <3>1, <3>2, OneRequest DEF Begin, In, ControlIInv, Free
    <3> HIDE DEF r
    <3> DEFINE s == [sdk[k] EXCEPT !.call = c, !.unread = sdk[k].rereadable]
    <3>4. sdk[k].rereadable \in BOOLEAN /\ s.at = "put" /\ s.task = sdk[k].task
      BY <1>1, <1>5 DEF SdkCall, Put
    <3>5. Carries(k, s, r)
      BY <3>1, <3>3, <3>4 DEF Carries
    <3>6. Sets(k, s) /\ Becomes(c, r)
      BY <3>1, <3>2 DEF r
    <3> HIDE DEF s
    <3> QED BY <1>3, <3>3, <3>4, <3>5, <3>6 DEF s
  <2> QED BY <1>5, <2>1, <2>2 DEF Put
<1> QED BY <1>4, <1>5

\* A read changes nothing; what it tells is in the row.
LEMMA ReadStep ==
    ASSUME ControlIInv, ClientIInv, NEW k \in Client, Get(k) \/ GetResult(k) \/ Lost(k), [Next]_vars
    PROVE  ClientIInv'
<1>1. /\ sdk[k] \in SdkCall /\ calls' = calls /\ calls \in 0..MaxCalls
      /\ UNCHANGED serverVars /\ Told(k) /\ 0 \in 0..MAX_RETRIES
  BY ClientAssumption DEF ClientIInv, Get, GetResult, Lost
<1>2. \A j \in Client : sdk[j].call # NULL => Carries(j, sdk[j], http'[sdk[j].call])
  BY <1>1 DEF ClientIInv, Waits, serverVars, controlVars
<1>3. ASSUME NEW s \in SdkCall, Sets(k, s), s.call = NULL,
             \/ s.at = "idle" /\ ~HasTask(s)
             \/ /\ s.at = sdk[k].at /\ s.request = sdk[k].request /\ s.task = sdk[k].task
                /\ s.outcome = sdk[k].outcome /\ s.got = sdk[k].got
      PROVE  ClientIInv'
  <2>1. /\ s.at # "idle" => s.request \in Request /\ s.outcome = "none"
        /\ HasTask(s) => s.task \in Task /\ OwnRow(k, s, tasks'[s.task])
    BY <1>3, StillTold
  <2> QED BY <1>1, <1>2, <1>3, <2>1, ClientMoves
<1>4. CASE Lost(k)
  <2>1. PICK u \in {sdk[k].unread, sdk[k].rereadable /\ sdk[k].unread} :
           Sets(k, [Again(k) EXCEPT !.unread = u])
    BY <1>4 DEF Lost
  <2>2. u \in BOOLEAN
    BY <1>1 DEF SdkCall
  <2> DEFINE s == [Again(k) EXCEPT !.unread = u]
  <2>3. /\ s \in SdkCall /\ s.call = NULL
        /\ \/ s.at = "idle" /\ ~HasTask(s)
           \/ /\ s.at = sdk[k].at /\ s.request = sdk[k].request /\ s.task = sdk[k].task
              /\ s.outcome = sdk[k].outcome /\ s.got = sdk[k].got
    BY <1>1, <2>2, AgainOK
  <2> HIDE DEF s
  <2> QED BY <1>3, <2>1, <2>3 DEF s
<1>5. ASSUME sdk[k].at \in {"get", "result"}, NEW s \in SdkCall, Sets(k, s), s.call = NULL,
             s.request = sdk[k].request, s.task = sdk[k].task, s.at # "idle" => s.outcome = "none",
             OwnRow(k, sdk[k], tasks[sdk[k].task]) => OwnRow(k, s, tasks[sdk[k].task])
      PROVE  ClientIInv'
  <2>1. /\ sdk[k].request \in Request /\ sdk[k].task \in Task
        /\ OwnRow(k, sdk[k], tasks[sdk[k].task])
    BY <1>1, <1>5 DEF Told, HasTask
  <2>2. tasks' = tasks
    BY <1>1 DEF serverVars, vars
  <2> QED BY <1>1, <1>2, <1>5, <2>1, <2>2, ClientMoves
<1>6. ASSUME NEW at \in {"get", "result"}
      PROVE  /\ Asks(k, at) \in SdkCall /\ Asks(k, at).at = at /\ Asks(k, at).call = NULL
             /\ Asks(k, at).request = sdk[k].request /\ Asks(k, at).task = sdk[k].task
             /\ Asks(k, at).outcome = sdk[k].outcome /\ Asks(k, at).got = sdk[k].got
  BY <1>1 DEF Asks, SdkCall
<1>7. ASSUME NEW out \in {"created", "returned", "task_failed", "timed_out"}, NEW g \in Result \cup {NULL}
      PROVE  LET s == [Ends(k, out) EXCEPT !.got = g]
             IN  /\ s \in SdkCall /\ s.at = "idle" /\ s.call = NULL /\ s.got = g
                 /\ s.request = sdk[k].request /\ s.task = sdk[k].task /\ s.outcome = out
  BY <1>1 DEF Ends, Asks, SdkCall
<1>a. ASSUME NEW out \in {"created", "returned", "task_failed", "timed_out"}
       PROVE  /\ Ends(k, out) \in SdkCall /\ Ends(k, out).at = "idle" /\ Ends(k, out).call = NULL
              /\ Ends(k, out).request = sdk[k].request /\ Ends(k, out).task = sdk[k].task
              /\ Ends(k, out).outcome = out
  BY <1>1 DEF Ends, Asks, SdkCall
<1>8. CASE Get(k)
  <2>1. sdk[k].at = "get" /\ sdk[k].outcome = "none"
    BY <1>1, <1>8 DEF Get, Told
  <2>2. CASE Sets(k, Again(k))
    BY <1>1, <1>3, <2>2, AgainOK
  <2>3. CASE Sets(k, Seen(k))
    <3>1. CASE tasks[sdk[k].task].status = "succeeded" /\ Sets(k, Asks(k, "result"))
      BY <1>5, <1>6, <2>1, <3>1 DEF OwnRow
    <3>2. CASE tasks[sdk[k].task].status = "failed" /\ Sets(k, Ends(k, "task_failed"))
      <4> DEFINE s == Ends(k, "task_failed")
      <4>1. /\ s \in SdkCall /\ s.at = "idle" /\ s.call = NULL /\ s.request = sdk[k].request
            /\ s.task = sdk[k].task /\ s.outcome = "task_failed" /\ Sets(k, s)
        BY <1>a, <3>2
      <4> HIDE DEF s
      <4> QED BY <1>5, <2>1, <3>2, <4>1 DEF OwnRow
    <3>3. CASE Sets(k, Ends(k, "timed_out"))
      <4> DEFINE s == Ends(k, "timed_out")
      <4>1. /\ s \in SdkCall /\ s.at = "idle" /\ s.call = NULL /\ s.request = sdk[k].request
            /\ s.task = sdk[k].task /\ s.outcome = "timed_out" /\ Sets(k, s)
        BY <1>a, <3>3
      <4> HIDE DEF s
      <4> QED BY <1>5, <2>1, <4>1 DEF OwnRow
    <3>4. CASE Sets(k, Asks(k, "get"))
      BY <1>5, <1>6, <2>1, <3>4 DEF OwnRow
    <3> QED BY <2>3, <3>1, <3>2, <3>3, <3>4 DEF Seen
  <2> QED BY <1>8, <2>2, <2>3 DEF Get
<1>9. CASE GetResult(k)
  <2> DEFINE row == tasks[sdk[k].task]
  <2>1. sdk[k].at = "result" /\ sdk[k].task \in Task
    BY <1>1, <1>9 DEF GetResult, Told, HasTask
  <2>2. row \in Row /\ RowOK(row, Of(sdk[k].task), sdk[k].task, inputs)
    BY <2>1 DEF ControlIInv, IInv, TypeOK
  <2>3. CASE Sets(k, Refused(k))
    BY <1>3, <2>3, CallTypes
  <2>4. CASE row.status = "succeeded" /\ Sets(k, [Ends(k, "returned") EXCEPT !.got = row.result_json])
    <3>1. row.result_json \in Result \cup {NULL} /\ row.result_json # NULL
      BY <2>2, <2>4 DEF Row, RowOK, ResultOK
    <3> DEFINE s == [Ends(k, "returned") EXCEPT !.got = row.result_json]
    <3>2. /\ s \in SdkCall /\ s.at = "idle" /\ s.call = NULL /\ s.got = row.result_json
          /\ s.request = sdk[k].request /\ s.task = sdk[k].task /\ s.outcome = "returned"
      BY <1>7, <3>1
    <3>3. Sets(k, s)
      BY <2>4
    <3> HIDE DEF s
    <3> QED BY <1>5, <2>1, <2>4, <3>1, <3>2, <3>3 DEF OwnRow
  <2> QED BY <1>9, <2>3, <2>4 DEF GetResult
<1> QED BY <1>4, <1>8, <1>9

-----------------------------------------------------------------------------
(* The steps of the server *)

\* A handler that a client waits for goes on with the client's request.
LEMMA ServedOn ==
    ASSUME ControlIInv, ClientIInv, NEW c \in Http, Route(c),
           NEW k \in Client, sdk[k].call = c
    PROVE  /\ \/ CountInstance(c) \/ Insert(c) \/ WriteFails(c) \/ Written(c)
              \/ Finalize(c) \/ FinalizeFails(c)
           /\ http'[c].at # "free" => Carries(k, sdk[k], http'[c])
<1>1. Carries(k, sdk[k], http[c])
  BY ClientAssumption DEF ClientIInv, Waits
<1>2. \/ CountInstance(c) \/ Insert(c) \/ WriteFails(c) \/ Written(c)
      \/ Finalize(c) \/ FinalizeFails(c)
  BY <1>1 DEF Route, Reserve, Begin, Publish, Release, ReleaseFails, Unlink, In, Carries
<1>3. http[c] \in HttpRequest /\ Free.at = "free"
  BY DEF ControlIInv, ControlTypeOK, Free
<1>4. CASE CountInstance(c)
  <2> DEFINE r == IF Cardinality(Active) < MAX_INSTANCE_ACTIVE
                  THEN Creating("insert", http[c].device, http[c].request)
                  ELSE Free
  <2>1. Becomes(c, r) /\ http[c].at = "count"
    BY <1>4 DEF CountInstance, In
  <2>2. http'[c] = r
    BY <2>1, OneRequest DEF ControlIInv
  <2>3. r.at # "free" => r.at = "insert" /\ r.device = http[c].device /\ r.request = http[c].request
    BY DEF Creating, Free
  <2> HIDE DEF r
  <2> QED BY <1>1, <1>2, <2>1, <2>2, <2>3 DEF Carries
<1>5. CASE Insert(c) \/ WriteFails(c) \/ Finalize(c) \/ FinalizeFails(c)
  <2>1. Becomes(c, Free)
    BY <1>5 DEF Insert, WriteFails, Finalize, FinalizeFails
  <2>2. http'[c] = Free
    BY <2>1, OneRequest DEF ControlIInv
  <2> QED BY <1>2, <1>3, <2>2
<1>6. CASE Written(c)
  <2>1. Becomes(c, [http[c] EXCEPT !.at = "finalize"]) /\ http[c].at = "writing"
    BY <1>6 DEF Written, In
  <2>2. http'[c] = [http[c] EXCEPT !.at = "finalize"]
    BY <2>1, OneRequest DEF ControlIInv
  <2>3. http'[c].at = "finalize" /\ http'[c].task = http[c].task
    BY <1>3, <2>2 DEF HttpRequest
  <2> QED BY <1>1, <1>2, <2>1, <2>3 DEF Carries
<1> QED BY <1>2, <1>4, <1>5, <1>6

\* What the end of a request tells the client that waits for it is so.
LEMMA AnswerOK ==
    ASSUME ControlIInv, ClientIInv, [Next]_vars, NEW c \in Http, Route(c),
           NEW k \in Client, sdk[k].call = c, NEW s \in Answers(k, c)
    PROVE  /\ s \in SdkCall /\ s.call = NULL
           /\ s.at # "idle" => s.request \in Request /\ s.outcome = "none"
           /\ HasTask(s) => s.task \in Task /\ OwnRow(k, s, tasks'[s.task])
<1>1. /\ sdk[k] \in SdkCall /\ Told(k) /\ Carries(k, sdk[k], http[c]) /\ 0 \in 0..MAX_RETRIES
  BY ClientAssumption DEF ClientIInv, Waits
<1>2. CASE s = Again(k)
  <2>1. /\ s \in SdkCall /\ s.call = NULL
        /\ \/ s.at = "idle" /\ ~HasTask(s)
           \/ /\ s.at = sdk[k].at /\ s.request = sdk[k].request /\ s.task = sdk[k].task
              /\ s.outcome = sdk[k].outcome /\ s.got = sdk[k].got
    BY <1>1, <1>2, AgainOK
  <2> QED BY <2>1, StillTold
<1>3. CASE s = Refused(k)
  BY <1>3, CallTypes
<1>4. CASE sdk[k].at = "post"
  <2>1. s \in PostAnswers(k, c)
    BY <1>4 DEF Answers
  <2>2. CASE s = Exhausted(k)
    BY <1>2, <1>3, <2>2 DEF Exhausted
  <2>3. ASSUME NEW t \in Task, tasks'[t].status # "absent", tasks'[t].device = ClientDevice[k],
               s = RowAnswers(k, tasks'[t], t)
        PROVE  /\ s \in SdkCall /\ s.call = NULL
               /\ s.at # "idle" => s.request \in Request /\ s.outcome = "none"
               /\ HasTask(s) => s.task \in Task /\ OwnRow(k, s, tasks'[s.task])
    <3>1. CASE SameRequest(tasks'[t], sdk[k].request) /\ s = [Asks(k, "put") EXCEPT !.task = t]
      <4>1. tasks'[t].request = sdk[k].request
        BY <3>1 DEF SameRequest, canonical_json_digest
      <4>2. /\ s \in SdkCall /\ s.call = NULL /\ s.at = "put" /\ s.task = t
            /\ s.request = sdk[k].request /\ s.outcome = sdk[k].outcome
        BY <1>1, <3>1 DEF Asks, SdkCall
      <4>3. sdk[k].request \in Request /\ sdk[k].outcome = "none"
        BY <1>1, <1>4 DEF Told
      <4> QED BY <2>3, <4>1, <4>2, <4>3 DEF OwnRow
    <3> QED BY <1>2, <1>3, <2>3, <3>1 DEF RowAnswers
  <2> QED BY <2>1, <2>2, <2>3 DEF PostAnswers
<1>5. CASE sdk[k].at # "post"
  <2> DEFINE t == sdk[k].task
  <2>1. s \in PutAnswers(k, c) /\ sdk[k].at = "put" /\ http[c].task = t
        /\ http[c].at \in {"writing", "finalize"}
    BY <1>1, <1>5 DEF Answers, Carries
  <2>2. t \in Task /\ OwnRow(k, sdk[k], tasks[t]) /\ sdk[k].request \in Request
    BY <1>1, <2>1 DEF Told, HasTask
  <2>3. CASE s = Ends(k, "created") /\ http[c].at = "finalize"
             /\ ~(tasks[t].status = "uploading" /\ tasks'[t].status = "expired")
             /\ tasks'[t].status # "uploading"
    <3>1. OwnRow(k, sdk[k], tasks'[t])
      BY <2>2, OwnRowStays DEF ControlIInv
    <3>2. /\ s \in SdkCall /\ s.call = NULL /\ s.at = "idle" /\ s.task = t
          /\ s.request = sdk[k].request /\ s.outcome = "created"
      BY <1>1, <2>3 DEF Ends, Asks, SdkCall
    <3> QED BY <2>2, <2>3, <3>1, <3>2 DEF OwnRow
  <2> QED BY <1>2, <1>3, <2>1, <2>3 DEF PutAnswers, In
<1> QED BY <1>4, <1>5

LEMMA ServeStep ==
    ASSUME ControlIInv, ClientIInv, NEW c \in Http, Serve(c), [Next]_vars
    PROVE  ClientIInv'
<1>1. Route(c) /\ calls' = calls /\ calls \in 0..MaxCalls
  BY DEF Serve, ClientIInv
<1>2. \A d \in Http \ {c} : http'[d] = http[d]
  <2>1. PICK r : Becomes(c, r)
    BY <1>1 DEF Route, Reserve, CountInstance, Insert, Begin, WriteFails, Written, Finalize,
                FinalizeFails, Publish, Release, ReleaseFails, Unlink
  <2> QED BY <2>1, OneRequest DEF ControlIInv
<1>3. CASE UNCHANGED sdk /\ \A k \in Client : sdk[k].call = c => http'[c].at # "free"
  <2>1. ASSUME NEW j \in Client, sdk[j].call # NULL PROVE Carries(j, sdk[j], http'[sdk[j].call])
    <3>1. CASE sdk[j].call = c
      BY <1>1, <1>3, <3>1, ServedOn
    <3>2. CASE sdk[j].call # c
      BY <1>2, <2>1, <3>2, OthersWait
    <3> QED BY <3>1, <3>2
  <2> QED BY <1>1, <1>3, <2>1, NoClientMoves
<1>4. CASE \E k \in Client : sdk[k].call = c /\ \E s \in Answers(k, c) : Sets(k, s)
  <2>1. PICK k \in Client : sdk[k].call = c /\ \E s \in Answers(k, c) : Sets(k, s)
    BY <1>4
  <2>2. PICK s \in Answers(k, c) : Sets(k, s)
    BY <2>1
  <2>3. /\ s \in SdkCall /\ s.call = NULL
        /\ s.at # "idle" => s.request \in Request /\ s.outcome = "none"
        /\ HasTask(s) => s.task \in Task /\ OwnRow(k, s, tasks'[s.task])
    BY <1>1, <2>1, AnswerOK
  <2>4. ASSUME NEW j \in Client \ {k}, sdk[j].call # NULL
        PROVE  sdk[j].call # s.call /\ Carries(j, sdk[j], http'[sdk[j].call])
    <3>1. sdk[j].call # c
      BY <2>1, <2>4 DEF ClientIInv
    <3> QED BY <1>2, <2>3, <2>4, <3>1, OthersWait
  <2> QED BY <1>1, <2>2, <2>3, <2>4, ClientMoves
<1> QED BY <1>3, <1>4 DEF Serve

\* A stop of the server ends every request; the clients try again.
LEMMA RestartStep ==
    ASSUME ControlIInv, ClientIInv, Restart, [Next]_vars
    PROVE  ClientIInv'
<1>1. calls' = calls /\ calls \in 0..MaxCalls
  BY DEF Restart, ClientIInv
<1>2. sdk' = [k \in Client |-> IF sdk[k].call # NULL THEN Again(k) ELSE sdk[k]]
  BY DEF Restart
<1>3. ASSUME NEW k \in Client
      PROVE  sdk'[k] \in SdkCall /\ sdk'[k].call = NULL /\ Told(k)' /\ Waits(k)'
  <2>1. sdk[k] \in SdkCall
    BY DEF ClientIInv
  <2>2. /\ sdk'[k] \in SdkCall /\ sdk'[k].call = NULL
        /\ \/ sdk'[k].at = "idle" /\ ~HasTask(sdk'[k])
           \/ /\ sdk'[k].at = sdk[k].at /\ sdk'[k].request = sdk[k].request
              /\ sdk'[k].task = sdk[k].task /\ sdk'[k].outcome = sdk[k].outcome
              /\ sdk'[k].got = sdk[k].got
    <3>1. CASE sdk[k].call # NULL
      <4>1. sdk'[k] = Again(k)
        BY <1>2, <3>1
      <4> QED BY <2>1, <4>1, AgainOK
    <3>2. CASE sdk[k].call = NULL
      BY <1>2, <2>1, <3>2
    <3> QED BY <3>1, <3>2
  <2>3. /\ sdk'[k].at # "idle" => sdk'[k].request \in Request /\ sdk'[k].outcome = "none"
        /\ HasTask(sdk'[k]) => sdk'[k].task \in Task /\ OwnRow(k, sdk'[k], tasks'[sdk'[k].task])
    BY <2>2, StillTold
  <2>4. Told(k)'
    BY <2>3 DEF Told
  <2>5. Waits(k)'
    BY <2>2 DEF Waits
  <2> QED BY <2>2, <2>4, <2>5
<1>4. sdk' \in [Client -> SdkCall]
  BY <1>2, <1>3
<1> QED BY <1>1, <1>3, <1>4 DEF ClientIInv

LEMMA ClientStep == ControlIInv /\ ClientIInv /\ [DeviceNext]_deviceVars => ClientIInv'
<1> SUFFICES ASSUME ControlIInv, ClientIInv, [DeviceNext]_deviceVars PROVE ClientIInv'
  OBVIOUS
<1>1. [Next]_vars
  BY ServerStep, ControlStep
<1>2. ASSUME NEW k \in Client, Application(k) \/ Attempt(k) PROVE ClientIInv'
  BY <1>1, <1>2, ApplicationStep, SendStep, ReadStep DEF Attempt
<1>3. ASSUME NEW c \in Http, Serve(c) PROVE ClientIInv'
  BY <1>1, <1>3, ServeStep
<1>4. CASE UNCHANGED deviceVars \/ (OneMethod /\ UNCHANGED <<sdk, calls>>)
  <2>1. UNCHANGED <<sdk, calls, http>>
    BY <1>4 DEF deviceVars, serverVars, controlVars, OneMethod
  <2>2. \A j \in Client : sdk[j].call # NULL => Carries(j, sdk[j], http'[sdk[j].call])
    BY <2>1 DEF ClientIInv, Waits
  <2> QED BY <1>1, <2>1, <2>2, NoClientMoves
<1>5. CASE Restart
  BY <1>1, <1>5, RestartStep
<1> QED BY <1>2, <1>3, <1>4, <1>5 DEF DeviceNext

LEMMA DeviceInitOK == DeviceInit => ClientIInv
<1> SUFFICES ASSUME DeviceInit PROVE ClientIInv
  OBVIOUS
<1>1. sdk = [k \in Client |-> Unused] /\ calls = 0
  BY DEF DeviceInit
<1>2. 0 \in 0..MaxCalls
  BY ClientAssumption
<1> QED BY <1>1, <1>2, CallTypes DEF ClientIInv, Told, Waits

-----------------------------------------------------------------------------
(* The theorems *)

\* A client waits for a request of its own, and what it knows of its task is so.
THEOREM ClientInvariance == DeviceSpec => []ClientIInv
<1>1. DeviceSpec => []ControlIInv
  BY ClientsUseRoutes, ControlInvariance, PTL
<1> QED BY <1>1, DeviceInitOK, ClientStep, PTL DEF DeviceSpec

\* Beside clients that repeat their requests, routes that take several steps
\* and stops of the server, a task still has the life that TaskLifecycle
\* promises.
THEOREM ClientsKeepLifecycle == DeviceSpec => ImplementsLifecycle
<1> QED BY ClientsUseRoutes, RoutesImplementRepository, Refinement, PTL

\* Whatever is repeated or lost, a created task is the row of the caller's
\* request and has its input until it ends, a returned result is the stored one,
\* a failed task failed.
THEOREM ToldTheTruth == DeviceSpec => []OutcomeIsTrue
<1>1. ControlIInv /\ ClientIInv => OutcomeIsTrue
  <2> SUFFICES ASSUME ControlIInv, ClientIInv, NEW k \in Client
               PROVE  LET row == tasks[sdk[k].task]
                      IN  /\ sdk[k].outcome = "created" =>
                                /\ row.device = ClientDevice[k]
                                /\ row.request = sdk[k].request
                                /\ row.status \notin {"absent", "uploading"}
                                /\ row.status \notin Terminal => sdk[k].task \in inputs
                          /\ sdk[k].outcome = "returned" =>
                                sdk[k].got # NULL /\ sdk[k].got = row.result_json
                          /\ sdk[k].outcome = "task_failed" => row.status = "failed"
    BY DEF OutcomeIsTrue
  <2> DEFINE t == sdk[k].task
  <2>1. HasTask(sdk[k]) => t \in Task /\ OwnRow(k, sdk[k], tasks[t])
    BY DEF ClientIInv, Told
  <2>2. ASSUME t \in Task, tasks[t].status \notin Terminal \cup {"absent", "uploading"}
        PROVE  t \in inputs
    <3>1. tasks[t].status \in {"queued"} \cup Held
      BY <2>2 DEF ControlIInv, IInv, TypeOK, Row, Status
    <3> QED BY <2>2, <3>1 DEF ControlIInv, IInv, RowOK, StatusOK
  <2> QED BY <2>1, <2>2 DEF HasTask, OwnRow
<1>2. DeviceSpec => []ControlIInv
  BY ClientsUseRoutes, ControlInvariance, PTL
<1> QED BY <1>1, <1>2, ClientInvariance, PTL
=============================================================================
