------------------------- MODULE PythonBridgeProofs -------------------------
(***************************************************************************)
(* Proofs about PythonBridge: what the threads of run keep, and what its   *)
(* verdicts mean, for all sizes of pipes, chunks and messages.             *)
(***************************************************************************)
EXTENDS PythonBridge, TLAPS

LEMMA SmallerOK ==
    ASSUME NEW i \in Nat, NEW j \in Nat
    PROVE  Smaller(i, j) \in Nat /\ Smaller(i, j) <= i /\ Smaller(i, j) <= j
BY DEF Smaller

\* A read that returns what is pending keeps the stream in order.
LEMMA CapturedOK ==
    ASSUME NEW o \in Output, NEW n \in Nat, o.pending = n,
           o.written = o.pipe + o.pending + o.total,
           o.captured = Smaller(o.total, MAX_MESSAGE)
    PROVE  LET q == Captured(o, n)
           IN  /\ q \in Output
               /\ q.pending = 0 /\ q.pipe = o.pipe /\ q.done = o.done
               /\ q.written = o.written /\ q.total = o.total + n
               /\ q.written = q.pipe + q.pending + q.total
               /\ q.captured = Smaller(q.total, MAX_MESSAGE)
               /\ q.captured >= o.captured
<1> DEFINE q == Captured(o, n)
           k == IF o.total < MAX_MESSAGE THEN o.captured + Smaller(n, MAX_MESSAGE - o.total)
                ELSE o.captured
<1>1. /\ o.total \in Nat /\ o.captured \in Nat /\ o.pipe \in Nat /\ MAX_MESSAGE \in Nat
      /\ CHUNK \in Nat \ {0}
  BY BridgeAssumption DEF Output
<1>2. q = [o EXCEPT !.pending = 0, !.total = o.total + n, !.captured = k]
  BY DEF Captured
<1>3. k \in Nat /\ k >= o.captured /\ k = Smaller(o.total + n, MAX_MESSAGE)
  BY <1>1 DEF Smaller
<1> HIDE DEF k, q
<1>4. /\ q.pending = 0 /\ q.pipe = o.pipe /\ q.done = o.done /\ q.written = o.written
      /\ q.total = o.total + n /\ q.captured = k
  BY <1>2 DEF Output
<1>5. o.total + n \in Nat /\ 0 \in 0..CHUNK
  BY <1>1
<1>6. q \in Output
  BY <1>2, <1>3, <1>5 DEF Output
<1>7. o.written = o.pipe + 0 + (o.total + n)
  BY <1>1
<1> QED BY <1>3, <1>4, <1>6, <1>7 DEF q

LEMMA InitOK == BridgeInit => BridgeIInv
<1> SUFFICES ASSUME BridgeInit PROVE BridgeIInv
  OBVIOUS
<1>1. BridgeTypeOK
  <2>1. main \in Main
    BY DEF BridgeInit, Main
  <2>2. stdin \in Stdin
    BY BridgeAssumption DEF BridgeInit, Stdin
  <2>3. stream \in [Stream -> Output]
    BY BridgeAssumption DEF BridgeInit, Output
  <2>4. adapter \in Adapter
    BY BridgeAssumption DEF BridgeInit, Adapter
  <2> QED BY <2>1, <2>2, <2>3, <2>4 DEF BridgeInit, BridgeTypeOK
<1>2. stdin.unsent + stdin.pipe + adapter.read = REQUEST
  BY BridgeAssumption DEF BridgeInit
<1>3. \A s \in Stream : /\ StreamOK(stream[s])
                        /\ stream[s].done => ~Held
                        /\ main.exceeded \/ stream[s].total <= MAX_MESSAGE
  BY BridgeAssumption DEF BridgeInit, StreamOK, Smaller
<1> QED BY <1>1, <1>2, <1>3 DEF BridgeIInv, MainOK, BridgeInit

\* A reader that moves changes its stream, and perhaps sets the flag.
LEMMA ReaderStep ==
    ASSUME BridgeIInv, NEW s \in Stream, Read(s) \/ ReadEnds(s)
    PROVE  /\ BridgeIInv'
           /\ \E q : /\ stream' = [stream EXCEPT ![s] = q]
                     /\ q.written = stream[s].written
                     /\ q.captured >= stream[s].captured
           /\ ~stream[s].done
           /\ \E b \in BOOLEAN : main' = [main EXCEPT !.exceeded = b]
           /\ UNCHANGED <<stdin, adapter, runner>>
<1> DEFINE o == stream[s]
<1>1. o \in Output /\ StreamOK(o)
  BY DEF BridgeIInv, BridgeTypeOK
<1>2. /\ o.written \in Nat /\ o.pipe \in 0..CAPACITY /\ o.pending \in Nat /\ o.total \in Nat
      /\ o.captured \in Nat /\ CAPACITY \in Nat /\ CHUNK \in Nat \ {0} /\ MAX_MESSAGE \in Nat
  BY <1>1, BridgeAssumption DEF Output
<1>3. PICK q :
        /\ q \in Output /\ StreamOK(q) /\ q.written = o.written /\ q.captured >= o.captured
        /\ q.done => ~Held
        /\ ~o.done
        /\ Capture(s, q)
  <2>1. CASE Read(s)
    <3> DEFINE n == Smaller(o.pipe, CHUNK - o.pending)
               filled == [o EXCEPT !.pipe = o.pipe - n, !.pending = o.pending + n]
    <3>1. /\ ~o.done /\ n > 0
          /\ Capture(s, IF filled.pending = CHUNK THEN Captured(filled, CHUNK) ELSE filled)
      BY <2>1 DEF Read
    <3>2. n \in Nat /\ n <= o.pipe /\ n <= CHUNK - o.pending /\ o.pending < CHUNK
      BY <1>1, <1>2 DEF StreamOK, Smaller
    <3>3. /\ filled.pipe = o.pipe - n /\ filled.pending = o.pending + n
          /\ filled.written = o.written /\ filled.total = o.total
          /\ filled.captured = o.captured /\ filled.done = o.done
      BY <1>1 DEF Output
    <3>4. filled \in Output
      <4>1. o.pipe - n \in 0..CAPACITY /\ o.pending + n \in 0..CHUNK
        BY <1>2, <3>2
      <4> HIDE DEF n
      <4> QED BY <1>1, <4>1 DEF Output
    <3>5. filled.written = filled.pipe + filled.pending + filled.total
      <4>1. o.written = o.pipe + o.pending + o.total
        BY <1>1 DEF StreamOK
      <4>2. o.pipe \in Nat
        BY <1>2
      <4> HIDE DEF filled, n
      <4> QED BY <1>2, <3>2, <3>3, <4>1, <4>2
    <3>6. filled.captured = Smaller(filled.total, MAX_MESSAGE)
      BY <1>1, <3>3 DEF StreamOK
    <3> HIDE DEF filled, n
    <3>7. CASE filled.pending = CHUNK
      <4> DEFINE q == Captured(filled, CHUNK)
      <4>1. /\ q \in Output /\ q.pending = 0 /\ q.done = filled.done
            /\ q.written = filled.written /\ q.written = q.pipe + q.pending + q.total
            /\ q.captured = Smaller(q.total, MAX_MESSAGE) /\ q.captured >= filled.captured
        <5>1. CHUNK \in Nat
          BY <1>2
        <5> QED BY <5>1, <3>4, <3>5, <3>6, <3>7, CapturedOK
      <4>2. Capture(s, q)
        BY <3>1, <3>7
      <4> HIDE DEF q
      <4> QED BY <1>2, <3>1, <3>3, <4>1, <4>2 DEF StreamOK
    <3>8. CASE filled.pending # CHUNK
      <4>1. filled.pending < CHUNK
        BY <1>2, <3>2, <3>3, <3>8
      <4>2. Capture(s, filled)
        BY <3>1, <3>8
      <4> QED BY <1>2, <3>1, <3>3, <3>4, <3>5, <3>6, <4>1, <4>2 DEF StreamOK
    <3> QED BY <3>7, <3>8
  <2>2. CASE ReadEnds(s)
    <3> DEFINE c == Captured(o, o.pending)
               q == [c EXCEPT !.done = TRUE]
    <3>1. ~o.done /\ ~Held /\ o.pipe = 0 /\ Capture(s, q)
      BY <2>2 DEF ReadEnds
    <3>2. /\ c \in Output /\ c.pending = 0 /\ c.pipe = o.pipe
          /\ c.written = o.written /\ c.written = c.pipe + c.pending + c.total
          /\ c.captured = Smaller(c.total, MAX_MESSAGE) /\ c.captured >= o.captured
      BY <1>1, <1>2, CapturedOK DEF StreamOK
    <3> HIDE DEF c
    <3>3. /\ q \in Output /\ q.pending = 0 /\ q.pipe = o.pipe /\ q.written = c.written
          /\ q.total = c.total /\ q.captured = c.captured
      BY <3>2 DEF Output
    <3> HIDE DEF q
    <3> QED BY <1>2, <3>1, <3>2, <3>3 DEF StreamOK
  <2> QED BY <2>1, <2>2
<1>4. /\ stream' = [stream EXCEPT ![s] = q]
      /\ main' = [main EXCEPT !.exceeded = main.exceeded \/ q.total > MAX_MESSAGE]
      /\ UNCHANGED <<stdin, adapter, runner>>
  BY <1>3 DEF Capture
<1>5. /\ main' \in Main /\ main'.at = main.at /\ main'.left = main.left
      /\ main'.outcome = main.outcome /\ main'.exceeded = (main.exceeded \/ q.total > MAX_MESSAGE)
  BY <1>4 DEF BridgeIInv, BridgeTypeOK, Main
<1>6. stream' \in [Stream -> Output] /\ stream'[s] = q /\ \A r \in Stream \ {s} : stream'[r] = stream[r]
  BY <1>3, <1>4 DEF BridgeIInv, BridgeTypeOK
<1>7. q.total \in Nat
  BY <1>3 DEF Output
<1>8. ASSUME NEW r \in Stream
      PROVE  /\ StreamOK(stream'[r])
             /\ stream'[r].done => ~Held
             /\ main'.exceeded \/ stream'[r].total <= MAX_MESSAGE
  <2>1. CASE r = s
    <3>1. q.total > MAX_MESSAGE \/ q.total <= MAX_MESSAGE
      BY <1>2, <1>7
    <3>2. q.total > MAX_MESSAGE => main'.exceeded
      BY <1>5
    <3> QED BY <1>3, <1>6, <2>1, <3>1, <3>2
  <2>2. CASE r # s
    BY <1>5, <1>6, <2>2 DEF BridgeIInv
  <2> QED BY <2>1, <2>2
<1>9. MainOK'
  BY <1>3, <1>4, <1>5, <1>6 DEF MainOK, BridgeIInv, Stream
<1>10. BridgeIInv'
  <2>1. BridgeTypeOK'
    BY <1>4, <1>5, <1>6 DEF BridgeIInv, BridgeTypeOK
  <2>2. (stdin.unsent + stdin.pipe + adapter.read = REQUEST)' /\ (Held' <=> Held)
    BY <1>4 DEF BridgeIInv, Held, Running
  <2>3. \A r \in Stream : StreamOK(stream[r])'
    BY <1>8 DEF StreamOK
  <2> QED BY <1>8, <1>9, <2>1, <2>2, <2>3 DEF BridgeIInv
<1> QED BY <1>3, <1>4, <1>10

\* Every other step leaves what the readers have alone; Write adds to a pipe.
LEMMA QuietStep ==
    ASSUME BridgeIInv, stream' = stream, BridgeTypeOK',
           (stdin.unsent + stdin.pipe + adapter.read)' = REQUEST,
           Held' => Held, main.exceeded => main'.exceeded, MainOK'
    PROVE  BridgeIInv'
BY DEF BridgeIInv, StreamOK

LEMMA WriterStep ==
    ASSUME BridgeIInv, WriteRequest
    PROVE  BridgeIInv'
<1> DEFINE n == Smaller(stdin.unsent, CAPACITY - stdin.pipe)
<1>1. /\ stdin.unsent \in 0..REQUEST /\ stdin.pipe \in 0..CAPACITY /\ adapter.read \in 0..REQUEST
      /\ REQUEST \in Nat /\ CAPACITY \in Nat
  BY BridgeAssumption DEF BridgeIInv, BridgeTypeOK, Stdin, Adapter
<1>2. n \in Nat /\ n <= stdin.unsent /\ n <= CAPACITY - stdin.pipe
  BY <1>1 DEF Smaller
<1>3. UNCHANGED <<main, stream, adapter, runner>>
  BY DEF WriteRequest
<1>4. \/ stdin' = [unsent |-> stdin.unsent - n, pipe |-> stdin.pipe + n,
                   done |-> stdin.unsent = n]
      \/ stdin' = [stdin EXCEPT !.done = TRUE]
  BY DEF WriteRequest
<1> HIDE DEF n
<1>5. stdin' \in Stdin /\ stdin'.unsent + stdin'.pipe = stdin.unsent + stdin.pipe
  <2>1. CASE stdin' = [unsent |-> stdin.unsent - n, pipe |-> stdin.pipe + n,
                       done |-> stdin.unsent = n]
    <3>1. stdin.unsent - n \in 0..REQUEST /\ stdin.pipe + n \in 0..CAPACITY
      BY <1>1, <1>2
    <3>2. (stdin.unsent - n) + (stdin.pipe + n) = stdin.unsent + stdin.pipe
      BY <1>1, <1>2
    <3>3. (stdin.unsent = n) \in BOOLEAN
      OBVIOUS
    <3> QED BY <2>1, <3>1, <3>2, <3>3 DEF Stdin
  <2>2. CASE stdin' = [stdin EXCEPT !.done = TRUE]
    BY <2>2 DEF Stdin, BridgeIInv, BridgeTypeOK
  <2> QED BY <1>4, <2>1, <2>2
<1>6. (stdin.unsent + stdin.pipe + adapter.read)' = REQUEST
  BY <1>1, <1>3, <1>5 DEF BridgeIInv
<1>7. BridgeTypeOK' /\ MainOK' /\ (Held' => Held)
  BY <1>3, <1>5 DEF BridgeIInv, BridgeTypeOK, MainOK, Held, Running
<1> QED BY <1>3, <1>6, <1>7, QuietStep

\* Steps of the main thread, of ProcessRunner and of the clock.
LEMMA MainStep ==
    ASSUME BridgeIInv, Run \/ DeadlinePasses \/ Terminate \/ Answer
    PROVE  BridgeIInv'
<1>1. main \in Main /\ adapter \in Adapter /\ MainOK
  BY DEF BridgeIInv, BridgeTypeOK
<1>2. stream' = stream /\ stdin' = stdin
  BY DEF Run, Poll, KillAndWait, Join, Verdict, Goes, DeadlinePasses, Terminate, Answer
<1>3. /\ main' \in Main
      /\ main'.exceeded = main.exceeded
      /\ runner' \in {"joining", "timed_out", "answered"}
  <2>1. runner \in {"joining", "timed_out", "answered"}
    BY DEF BridgeIInv, BridgeTypeOK
  <2>2. CASE Poll \/ DeadlinePasses
    BY <1>1, <2>1, <2>2 DEF Poll, DeadlinePasses, Goes, Main
  <2>3. CASE KillAndWait
    BY <1>1, <2>1, <2>3 DEF KillAndWait, Main
  <2>4. CASE Verdict
    <3>1. Outcome \in {"accepted", "bridge_timeout", "message_too_large", "bridge_exit",
                       "bridge_no_response", "invalid_response"}
      <4>1. stream["stdout"].captured \in Nat
        BY DEF BridgeIInv, BridgeTypeOK, Output, Stream
      <4>2. main.timed_out \in BOOLEAN /\ main.exceeded \in BOOLEAN
        BY <1>1 DEF Main
      <4> QED BY <4>1, <4>2 DEF Outcome
    <3>2. main' = [main EXCEPT !.at = "ended", !.outcome = Outcome] /\ runner' = runner
      BY <2>4 DEF Verdict, Goes
    <3> HIDE DEF Outcome
    <3> QED BY <1>1, <2>1, <3>1, <3>2 DEF Main
  <2>5. CASE Terminate \/ Answer
    BY <1>1, <2>5 DEF Terminate, Answer, Main
  <2>6. ASSUME NEW thread \in Thread, NEW at, NEW next \in {"join_stdout", "join_stderr", "verdict"},
               Join(thread, at, next)
        PROVE  /\ main' \in Main
               /\ main'.exceeded = main.exceeded
               /\ runner' \in {"joining", "timed_out", "answered"}
    <3>1. PICK left \in SUBSET Thread : main' = [main EXCEPT !.at = next, !.left = left]
      <4>1. main.left \in SUBSET Thread
        BY <1>1 DEF Main
      <4> QED BY <2>6, <4>1 DEF Join, Goes
    <3>2. runner' = runner
      BY <2>6 DEF Join, Goes
    <3> QED BY <1>1, <2>1, <3>1, <3>2 DEF Main
  <2>7. "writer" \in Thread /\ "stdout" \in Thread /\ "stderr" \in Thread
    BY DEF Thread, Stream
  <2> QED BY <2>2, <2>3, <2>4, <2>5, <2>6, <2>7 DEF Run
<1>4. adapter' = adapter \/ (Running /\ adapter' = [adapter EXCEPT !.at = "killed"])
  BY DEF Run, Poll, KillAndWait, Kill, Join, Verdict, Goes, DeadlinePasses, Terminate, Answer
<1>5. /\ adapter' \in Adapter /\ adapter'.read = adapter.read /\ adapter'.helper = adapter.helper
      /\ adapter'.at = adapter.at \/ (adapter.at = "running" /\ adapter'.at = "killed")
  BY <1>1, <1>4 DEF Adapter, Running
<1>6. Held' => Held
  BY <1>5 DEF Held, Running
<1>7. MainOK'
  <2>1. CASE Verdict
    <3>1. main'.at = "ended" /\ main'.outcome = Outcome /\ adapter' = adapter
      BY <1>1, <2>1 DEF Verdict, Goes, Main
    <3>2. Outcome \in {"accepted", "bridge_no_response", "invalid_response"}
            => adapter.at = "exited"
      BY <1>1 DEF Outcome, Main
    <3> QED BY <3>1, <3>2 DEF MainOK
  <2>2. CASE Poll \/ DeadlinePasses \/ Answer
    BY <1>1, <1>2, <2>2 DEF Poll, DeadlinePasses, Answer, Goes, Main, MainOK
  <2>3. CASE KillAndWait
    <3>1. /\ main'.at = "join_writer" /\ main'.outcome = main.outcome
          /\ adapter.at = "exited" => adapter'.at = "exited"
      BY <1>1, <1>5, <2>3 DEF KillAndWait, Main
    <3> QED BY <1>1, <3>1 DEF MainOK
  <2>4. CASE Terminate
    BY <1>1, <1>2, <2>4 DEF Terminate, Main, MainOK
  <2>5. ASSUME NEW thread \in Thread, NEW at, NEW next, Join(thread, at, next),
               <<thread, next>> \in {<<"writer", "join_stdout">>, <<"stdout", "join_stderr">>,
                                     <<"stderr", "verdict">>},
               thread = "stderr" => at = "join_stderr"
        PROVE  MainOK'
    <3>1. /\ main'.at = next /\ main'.outcome = main.outcome
          /\ Done(thread) \/ thread \in main'.left
          /\ main.left \subseteq main'.left
          /\ main.at = at
          /\ UNCHANGED <<adapter, runner>>
      BY <1>1, <2>5 DEF Join, Goes, Main
    <3> QED BY <1>1, <1>2, <2>5, <3>1 DEF MainOK, Done
  <2> QED BY <2>1, <2>2, <2>3, <2>4, <2>5 DEF Run, Thread, Stream
<1>8. BridgeTypeOK'
  BY <1>2, <1>3, <1>5 DEF BridgeIInv, BridgeTypeOK
<1>9. (stdin.unsent + stdin.pipe + adapter.read)' = REQUEST
  BY <1>2, <1>5 DEF BridgeIInv
<1> QED BY <1>2, <1>3, <1>6, <1>7, <1>8, <1>9, QuietStep

\* Steps of the adapter and of its helper.
LEMMA AdapterStep ==
    ASSUME BridgeIInv, Adapts \/ LeavesHelper \/ HelperEnds
    PROVE  BridgeIInv'
<1>1. main \in Main /\ adapter \in Adapter /\ stdin \in Stdin /\ MainOK
  BY DEF BridgeIInv, BridgeTypeOK
<1>2. main' = main /\ runner' = runner
  BY DEF Adapts, ReadRequest, Write, Exit, LeavesHelper, HelperEnds, Becomes
<1>3. Held' => Held
  BY <1>1 DEF Adapts, ReadRequest, Write, Exit, LeavesHelper, HelperEnds, Becomes, Held, Running,
              Adapter
<1>4. adapter.at = "exited" => adapter'.at = "exited"
  BY <1>1 DEF Adapts, ReadRequest, Write, Exit, LeavesHelper, HelperEnds, Becomes, Running, Adapter
<1>5. CASE ReadRequest
  <2>1. /\ stdin.unsent \in 0..REQUEST /\ stdin.pipe \in 0..CAPACITY
        /\ adapter.read \in 0..REQUEST /\ REQUEST \in Nat /\ CAPACITY \in Nat
        /\ stdin.unsent + stdin.pipe + adapter.read = REQUEST
    BY <1>1, BridgeAssumption DEF Stdin, Adapter, BridgeIInv
  <2>2. adapter' = [adapter EXCEPT !.read = adapter.read + stdin.pipe]
        /\ stdin' = [stdin EXCEPT !.pipe = 0] /\ stream' = stream
    BY <1>5 DEF ReadRequest
  <2>3. adapter.read + stdin.pipe \in 0..REQUEST /\ 0 \in 0..CAPACITY
    BY <2>1
  <2>4. adapter' \in Adapter /\ stdin' \in Stdin
    BY <1>1, <2>2, <2>3 DEF Adapter, Stdin
  <2>5. adapter'.read = adapter.read + stdin.pipe /\ stdin'.pipe = 0
        /\ stdin'.unsent = stdin.unsent
    BY <1>1, <2>2 DEF Adapter, Stdin
  <2>6. (stdin.unsent + stdin.pipe + adapter.read)' = REQUEST
    BY <2>1, <2>5
  <2>7. BridgeTypeOK'
    BY <1>2, <2>2, <2>4 DEF BridgeIInv, BridgeTypeOK
  <2>8. MainOK'
    BY <1>1, <1>2, <1>4, <2>2 DEF MainOK
  <2> QED BY <1>2, <1>3, <2>2, <2>6, <2>7, <2>8, QuietStep
<1>6. CASE Exit \/ LeavesHelper \/ HelperEnds
  <2>1. stdin' = stdin /\ stream' = stream
    BY <1>6 DEF Exit, LeavesHelper, HelperEnds, Becomes
  <2>2. adapter' \in Adapter /\ adapter'.read = adapter.read
    BY <1>1, <1>6 DEF Exit, LeavesHelper, HelperEnds, Becomes, Adapter
  <2>3. BridgeTypeOK' /\ (stdin.unsent + stdin.pipe + adapter.read)' = REQUEST
    BY <1>2, <2>1, <2>2 DEF BridgeIInv, BridgeTypeOK
  <2>4. MainOK'
    BY <1>1, <1>2, <1>4, <2>1 DEF MainOK
  <2> QED BY <1>2, <1>3, <2>1, <2>3, <2>4, QuietStep
<1>7. ASSUME NEW s \in Stream, Write(s) PROVE BridgeIInv'
  <2> DEFINE o == stream[s]
             q == [o EXCEPT !.written = o.written + 1, !.pipe = o.pipe + 1]
  <2>1. /\ Running /\ o.written < Wanted(s) /\ o.pipe < CAPACITY
        /\ stream' = [stream EXCEPT ![s] = q]
        /\ UNCHANGED <<main, stdin, adapter, runner>>
    BY <1>7 DEF Write, BridgeIInv, BridgeTypeOK
  <2>2. /\ o \in Output /\ StreamOK(o) /\ (o.done => ~Held)
        /\ main.exceeded \/ o.total <= MAX_MESSAGE
    BY DEF BridgeIInv, BridgeTypeOK
  <2>3. /\ o.written \in Nat /\ o.pipe \in Nat /\ o.pending \in Nat /\ o.total \in Nat
        /\ CAPACITY \in Nat /\ MaxWritten \in Nat /\ o.written + 1 <= MaxWritten
    BY <1>1, <2>1, <2>2, BridgeAssumption DEF Output, Wanted, Adapter
  <2>4. o.written + 1 \in 0..MaxWritten /\ o.pipe + 1 \in 0..CAPACITY
    BY <2>1, <2>3
  <2>5. /\ q \in Output
        /\ q.written = o.written + 1 /\ q.pipe = o.pipe + 1 /\ q.pending = o.pending
        /\ q.total = o.total /\ q.captured = o.captured /\ q.done = o.done
    BY <2>2, <2>4 DEF Output
  <2> HIDE DEF q
  <2>6. ~o.done
    BY <2>1, <2>2 DEF Held
  <2>7. q.written = q.pipe + q.pending + q.total
    BY <2>2, <2>3, <2>5 DEF StreamOK
  <2>8. StreamOK(q)
    BY <2>2, <2>5, <2>6, <2>7 DEF StreamOK
  <2>9. /\ stream' \in [Stream -> Output] /\ stream'[s] = q
        /\ \A r \in Stream \ {s} : stream'[r] = stream[r]
    BY <2>1, <2>5 DEF BridgeIInv, BridgeTypeOK
  <2>10. \A r \in Stream : StreamOK(stream[r])'
    BY <2>8, <2>9 DEF BridgeIInv, StreamOK
  <2>11. \A r \in Stream : stream'[r].done = stream[r].done /\ stream'[r].total = stream[r].total
    BY <2>5, <2>9
  <2>12. (Held' <=> Held) /\ MainOK'
    BY <1>1, <2>1, <2>11 DEF Held, Running, MainOK, Stream
  <2>13. BridgeTypeOK' /\ (stdin.unsent + stdin.pipe + adapter.read)' = REQUEST
    BY <2>1, <2>9 DEF BridgeIInv, BridgeTypeOK
  <2> QED BY <2>1, <2>10, <2>11, <2>12, <2>13 DEF BridgeIInv
<1> QED BY <1>5, <1>6, <1>7 DEF Adapts

LEMMA BridgeStep == BridgeIInv /\ [BridgeNext]_bridgeVars => BridgeIInv'
<1> SUFFICES ASSUME BridgeIInv, [BridgeNext]_bridgeVars PROVE BridgeIInv'
  OBVIOUS
<1>1. CASE UNCHANGED bridgeVars
  BY <1>1 DEF bridgeVars, BridgeIInv, BridgeTypeOK, StreamOK, MainOK, Held, Running
<1> QED BY <1>1, ReaderStep, WriterStep, MainStep, AdapterStep DEF BridgeNext

-----------------------------------------------------------------------------
(* What the verdicts mean *)

\* Only a verdict gives an outcome.
LEMMA OutcomeByVerdict ==
    ASSUME BridgeIInv, [BridgeNext]_bridgeVars, ~Verdict
    PROVE  main'.outcome = main.outcome
<1>1. main \in Main
  BY DEF BridgeIInv, BridgeTypeOK
<1>2. CASE \E s \in Stream : Read(s) \/ ReadEnds(s)
  <2>1. PICK b \in BOOLEAN : main' = [main EXCEPT !.exceeded = b]
    BY <1>2, ReaderStep
  <2> QED BY <1>1, <2>1 DEF Main
<1>3. CASE WriteRequest \/ UNCHANGED bridgeVars
  BY <1>3 DEF WriteRequest, bridgeVars
<1>4. CASE Poll \/ DeadlinePasses \/ Terminate \/ Answer \/ KillAndWait
  BY <1>1, <1>4 DEF Poll, DeadlinePasses, Terminate, Answer, KillAndWait, Goes, Main
<1>5. ASSUME NEW thread, NEW at, NEW next, Join(thread, at, next)
      PROVE  main'.outcome = main.outcome
  BY <1>1, <1>5 DEF Join, Goes, Main
<1>6. CASE Run
  BY <1>4, <1>5, <1>6 DEF Run
<1>7. CASE Adapts \/ LeavesHelper \/ HelperEnds
  BY <1>7 DEF Adapts, ReadRequest, Write, Exit, LeavesHelper, HelperEnds, Becomes
<1> QED BY <1>2, <1>3, <1>4, <1>6, <1>7 DEF BridgeNext

\* When the adapter has ended by itself nothing but a verdict changes what a
\* verdict was about: what it wrote is fixed, more of it is kept, and a thread
\* that was left stays left.
LEMMA AfterExit ==
    ASSUME BridgeIInv, [BridgeNext]_bridgeVars, ~Verdict, adapter.at = "exited"
    PROVE  /\ main'.outcome = main.outcome
           /\ main.left \subseteq main'.left
           /\ adapter'.at = "exited"
           /\ adapter'.valid = adapter.valid /\ adapter'.line = adapter.line
           /\ \A s \in Stream : /\ stream'[s].written = stream[s].written
                                /\ stream'[s].captured >= stream[s].captured
<1>1. /\ main \in Main /\ adapter \in Adapter /\ ~Running
      /\ \A s \in Stream : stream[s].captured \in Nat
  BY DEF BridgeIInv, BridgeTypeOK, Running, Output
<1>2. CASE \E s \in Stream : Read(s) \/ ReadEnds(s)
  <2>1. PICK s \in Stream : Read(s) \/ ReadEnds(s)
    BY <1>2
  <2>2. PICK q : /\ stream' = [stream EXCEPT ![s] = q]
                 /\ q.written = stream[s].written
                 /\ q.captured >= stream[s].captured
    BY <2>1, ReaderStep
  <2>3. \A r \in Stream : stream'[r] = IF r = s THEN q ELSE stream[r]
    BY <2>2 DEF BridgeIInv, BridgeTypeOK
  <2>4. PICK b \in BOOLEAN : main' = [main EXCEPT !.exceeded = b] /\ adapter' = adapter
    BY <2>1, ReaderStep
  <2>5. main'.outcome = main.outcome /\ main'.left = main.left
    BY <1>1, <2>4 DEF Main
  <2>6. ASSUME NEW r \in Stream
        PROVE  stream'[r].written = stream[r].written /\ stream'[r].captured >= stream[r].captured
    <3>1. CASE r = s
      BY <2>2, <2>3, <3>1
    <3>2. CASE r # s
      BY <1>1, <2>3, <3>2
    <3> QED BY <3>1, <3>2
  <2> QED BY <2>4, <2>5, <2>6
<1>3. CASE WriteRequest \/ UNCHANGED bridgeVars
  BY <1>1, <1>3 DEF WriteRequest, bridgeVars
<1>4. CASE Poll \/ DeadlinePasses \/ Terminate \/ Answer
  BY <1>1, <1>4 DEF Poll, DeadlinePasses, Terminate, Answer, Goes, Main
<1>5. CASE KillAndWait
  BY <1>1, <1>5 DEF KillAndWait, Kill, Main
<1>6. ASSUME NEW thread \in Thread, NEW at, NEW next, Join(thread, at, next)
      PROVE  /\ main'.outcome = main.outcome /\ main.left \subseteq main'.left
             /\ adapter' = adapter /\ stream' = stream
  BY <1>1, <1>6 DEF Join, Goes, Main
<1>7. CASE Adapts \/ LeavesHelper \/ HelperEnds
  BY <1>1, <1>7 DEF Adapts, ReadRequest, Write, Exit, LeavesHelper, HelperEnds, Becomes, Adapter,
                    Running
<1>8. "writer" \in Thread /\ "stdout" \in Thread /\ "stderr" \in Thread
  BY DEF Thread, Stream
<1>9. CASE Run
  BY <1>1, <1>4, <1>5, <1>6, <1>8, <1>9 DEF Run
<1> QED BY <1>2, <1>3, <1>4, <1>5, <1>7, <1>9 DEF BridgeNext

LEMMA Counts ==
    ASSUME BridgeIInv
    PROVE  /\ adapter.line \in Nat \ {0}
           /\ stream["stdout"].captured \in Nat /\ stream["stdout"].written \in Nat
<1>1. adapter.line \in Lines /\ stream["stdout"] \in Output
  BY DEF BridgeIInv, BridgeTypeOK, Adapter, Stream
<1>2. \A line \in 1..MaxWritten : line \in Nat \ {0}
  BY BridgeAssumption
<1>3. Lines \subseteq 1..MaxWritten /\ MaxWritten \in Nat
  BY BridgeAssumption
<1>4. adapter.line \in Nat \ {0}
  BY <1>1, <1>2, <1>3
<1> QED BY <1>1, <1>3, <1>4 DEF Output

\* At a verdict a reader that was not left has returned all that was written.
LEMMA AtVerdict ==
    ASSUME BridgeIInv, Verdict, ~main.exceeded, NEW s \in Stream, s \notin main.left
    PROVE  /\ stream[s].written <= MAX_MESSAGE
           /\ stream[s].captured = stream[s].written
<1>1. stream[s].done
  BY DEF Verdict, BridgeIInv, MainOK, Stream
<1>2. stream[s] \in Output /\ StreamOK(stream[s]) /\ stream[s].total <= MAX_MESSAGE
  BY DEF BridgeIInv, BridgeTypeOK
<1>3. stream[s].written = 0 + 0 + stream[s].total /\ stream[s].total \in Nat
  BY <1>1, <1>2 DEF StreamOK, Output
<1> QED BY <1>2, <1>3, BridgeAssumption DEF StreamOK, Smaller

LEMMA AcceptedStep ==
    ASSUME BridgeIInv, AcceptedIsWhole, [BridgeNext]_bridgeVars
    PROVE  AcceptedIsWhole'
<1>1. CASE Verdict
  <2>1. /\ main' = [main EXCEPT !.at = "ended", !.outcome = Outcome]
        /\ stream' = stream /\ adapter' = adapter
    BY <1>1 DEF Verdict, Goes
  <2>2. main'.outcome = Outcome /\ main'.left = main.left
    BY <2>1 DEF BridgeIInv, BridgeTypeOK, Main
  <2>3. ASSUME Outcome = "accepted"
        PROVE  /\ ~main.exceeded /\ adapter.at = "exited" /\ adapter.valid
               /\ stream["stdout"].captured >= adapter.line
    <3>1. main.timed_out \in BOOLEAN /\ main.exceeded \in BOOLEAN
      BY DEF BridgeIInv, BridgeTypeOK, Main
    <3>2. stream["stdout"].captured \in Nat /\ adapter.line \in Nat
      BY Counts
    <3> QED BY <2>3, <3>1, <3>2 DEF Outcome
  <2> HIDE DEF Outcome
  <2> QED BY <1>1, <2>1, <2>2, <2>3, AtVerdict DEF AcceptedIsWhole
<1>2. CASE ~Verdict
  <2>1. main'.outcome = main.outcome
    BY <1>2, OutcomeByVerdict
  <2>2. CASE main.outcome = "accepted"
    <3>1. /\ adapter.at = "exited" /\ adapter.valid
          /\ stream["stdout"].captured >= adapter.line
          /\ \A s \in Stream \ main.left : stream[s].written <= MAX_MESSAGE
      BY <2>2 DEF AcceptedIsWhole
    <3>2. /\ main.left \subseteq main'.left /\ adapter'.at = "exited"
          /\ adapter'.valid = adapter.valid /\ adapter'.line = adapter.line
          /\ \A s \in Stream : stream'[s].written = stream[s].written
          /\ stream'["stdout"].captured >= stream["stdout"].captured
      BY <1>2, <3>1, AfterExit DEF Stream
    <3>3. /\ stream["stdout"].captured \in Nat /\ adapter.line \in Nat
          /\ stream'["stdout"].captured \in Nat
      BY BridgeStep, Counts DEF BridgeIInv, BridgeTypeOK, Output, Stream
    <3>4. stream'["stdout"].captured >= adapter'.line
      BY <3>1, <3>2, <3>3
    <3> QED BY <3>1, <3>2, <3>4 DEF AcceptedIsWhole
  <2> QED BY <2>1, <2>2 DEF AcceptedIsWhole
<1> QED BY <1>1, <1>2

LEMMA KeptStep ==
    ASSUME BridgeIInv, AnswerKept, [BridgeNext]_bridgeVars
    PROVE  AnswerKept'
<1> DEFINE Missing == {"bridge_no_response", "invalid_response"}
<1>1. CASE Verdict
  <2>1. /\ main' = [main EXCEPT !.at = "ended", !.outcome = Outcome]
        /\ stream' = stream /\ adapter' = adapter
    BY <1>1 DEF Verdict, Goes
  <2>2. main'.outcome = Outcome /\ main'.left = main.left
    BY <2>1 DEF BridgeIInv, BridgeTypeOK, Main
  <2>3. SUFFICES ASSUME Outcome \in Missing, adapter.valid,
                        stream["stdout"].written >= adapter.line, "stdout" \notin main.left
                 PROVE  FALSE
    BY <2>1, <2>2 DEF AnswerKept
  <2>4. /\ ~main.timed_out /\ ~main.exceeded /\ adapter.at = "exited"
        /\ stream["stdout"].captured = 0 \/ stream["stdout"].captured < adapter.line
    <3>1. main.timed_out \in BOOLEAN /\ main.exceeded \in BOOLEAN
      BY DEF BridgeIInv, BridgeTypeOK, Main
    <3>2. stream["stdout"].captured \in Nat /\ adapter.line \in Nat
      BY Counts
    <3> QED BY <2>3, <3>1, <3>2 DEF Outcome
  <2> HIDE DEF Outcome
  <2>5. stream["stdout"].captured = stream["stdout"].written
    BY <1>1, <2>3, <2>4, AtVerdict DEF Stream
  <2>6. adapter.line \in Nat \ {0}
    BY Counts
  <2> QED BY <2>3, <2>4, <2>5, <2>6, Counts
<1>2. CASE ~Verdict
  <2>1. main'.outcome = main.outcome
    BY <1>2, OutcomeByVerdict
  <2>2. CASE main.outcome \in Missing
    <3>1. adapter.at = "exited"
      BY <2>2 DEF BridgeIInv, MainOK
    <3>2. /\ main.left \subseteq main'.left /\ adapter'.valid = adapter.valid
          /\ adapter'.line = adapter.line
          /\ stream'["stdout"].written = stream["stdout"].written
      BY <1>2, <3>1, AfterExit DEF Stream
    <3> QED BY <2>1, <3>2 DEF AnswerKept
  <2> QED BY <2>1, <2>2 DEF AnswerKept
<1> QED BY <1>1, <1>2

LEMMA OrphanStep ==
    ASSUME BridgeIInv, OrphanOnlyByTerminate, [BridgeNext]_bridgeVars
    PROVE  OrphanOnlyByTerminate'
<1>1. main \in Main /\ adapter \in Adapter
  BY DEF BridgeIInv, BridgeTypeOK
<1>2. CASE \E s \in Stream : Read(s) \/ ReadEnds(s)
  <2>1. PICK s \in Stream, b \in BOOLEAN :
          main' = [main EXCEPT !.exceeded = b] /\ adapter' = adapter /\ runner' = runner
    BY <1>2, ReaderStep
  <2>2. main'.at = main.at
    BY <1>1, <2>1 DEF Main
  <2> QED BY <2>1, <2>2 DEF OrphanOnlyByTerminate, Running
<1>3. CASE WriteRequest \/ UNCHANGED bridgeVars
  BY <1>3 DEF WriteRequest, bridgeVars, OrphanOnlyByTerminate, Running
<1>4. CASE Poll \/ DeadlinePasses
  BY <1>1, <1>4 DEF Poll, DeadlinePasses, Goes, Main, OrphanOnlyByTerminate, Running
<1>5. CASE KillAndWait
  <2>1. adapter'.at # "running"
    BY <1>1, <1>5 DEF KillAndWait, Kill, Running, Adapter
  <2> QED BY <2>1 DEF OrphanOnlyByTerminate, Running
<1>6. CASE Terminate \/ Answer
  BY <1>1, <1>6 DEF Terminate, Answer, Main, OrphanOnlyByTerminate, Running
<1>7. CASE Verdict
  BY <1>1, <1>7 DEF Verdict, Goes, Main, OrphanOnlyByTerminate, Running
<1>8. ASSUME NEW thread, NEW at, at \notin {"polling", "killing"}, NEW next, Join(thread, at, next)
      PROVE  OrphanOnlyByTerminate'
  BY <1>8 DEF Join, Goes, OrphanOnlyByTerminate, Running
<1>9. CASE Run
  BY <1>4, <1>5, <1>7, <1>8, <1>9 DEF Run
<1>10. CASE Adapts \/ LeavesHelper \/ HelperEnds
  <2>1. main' = main /\ runner' = runner /\ (adapter'.at = "running" => adapter.at = "running")
    BY <1>1, <1>10 DEF Adapts, ReadRequest, Write, Exit, LeavesHelper, HelperEnds, Becomes, Adapter
  <2> QED BY <2>1 DEF OrphanOnlyByTerminate, Running
<1> QED BY <1>2, <1>3, <1>4, <1>6, <1>9, <1>10 DEF BridgeNext

-----------------------------------------------------------------------------
(* The theorems *)

\* The readers keep exactly the beginning of each stream, up to the limit.
THEOREM BridgeInvariance == BridgeSpec => []BridgeIInv
<1> QED BY InitOK, BridgeStep, PTL DEF BridgeSpec

\* An accepted answer is the whole line of an adapter that ended by itself, and
\* the streams were within the limit as far as their readers came.
THEOREM AcceptedWhole == BridgeSpec => []AcceptedIsWhole
<1>1. BridgeInit => AcceptedIsWhole
  BY DEF BridgeInit, AcceptedIsWhole
<1>2. BridgeIInv /\ AcceptedIsWhole /\ [BridgeNext]_bridgeVars => AcceptedIsWhole'
  BY AcceptedStep
<1> QED BY <1>1, <1>2, BridgeInvariance, PTL DEF BridgeSpec

\* A whole and valid answer is only missed with a reader that was given up.
THEOREM NoAnswerMissed == BridgeSpec => []AnswerKept
<1>1. BridgeInit => AnswerKept
  BY DEF BridgeInit, AnswerKept
<1>2. BridgeIInv /\ AnswerKept /\ [BridgeNext]_bridgeVars => AnswerKept'
  BY KeptStep
<1> QED BY <1>1, <1>2, BridgeInvariance, PTL DEF BridgeSpec

\* The run does not leave its adapter behind, unless it is terminated itself.
THEOREM NoOrphan == BridgeSpec => []OrphanOnlyByTerminate
<1>1. BridgeInit => OrphanOnlyByTerminate
  BY DEF BridgeInit, OrphanOnlyByTerminate
<1>2. BridgeIInv /\ OrphanOnlyByTerminate /\ [BridgeNext]_bridgeVars => OrphanOnlyByTerminate'
  BY OrphanStep
<1> QED BY <1>1, <1>2, BridgeInvariance, PTL DEF BridgeSpec
=============================================================================
