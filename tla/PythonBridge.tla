---------------------------- MODULE PythonBridge ----------------------------
(***************************************************************************)
(* One inference through an adapter in another Python environment:         *)
(* PythonBridge.run (agent/python_bridge.py) in the child process of       *)
(* ProcessRunner.execute (worker/process_runner.py).                       *)
(*                                                                         *)
(* The main thread of run polls the adapter while one thread writes the    *)
(* request to its stdin and two read its stdout and stderr.  Bytes are     *)
(* counted in units: a pipe holds CAPACITY of them, read returns CHUNK of  *)
(* them or what is left at the end of the file.                            *)
(*                                                                         *)
(* The adapter is any program.  A willing one reads the request, answers   *)
(* and exits with 0, in any order that it likes to read and write; another *)
(* may fail, write without end or hang.  It may leave a helper behind, a   *)
(* process that inherits its pipes.                                        *)
(*                                                                         *)
(* Left out: a request that is refused before the adapter starts, and the  *)
(* contents of lines (the first one is valid, with the id of the request,  *)
(* or it is not; a part of a valid one is not valid).                      *)
(***************************************************************************)
EXTENDS Naturals

CONSTANTS
    REQUEST,                    \* units of the request
    Lines,                      \* the lengths the first line may have
    CAPACITY, CHUNK, MAX_MESSAGE,
    MaxWritten                  \* bound: units written to a stream

ASSUME BridgeAssumption ==
    /\ REQUEST \in Nat \ {0}
    /\ Lines \subseteq 1..MaxWritten
    /\ CAPACITY \in Nat \ {0}
    /\ CHUNK \in Nat \ {0}
    /\ MAX_MESSAGE \in Nat \ {0}
    /\ MaxWritten \in Nat

VARIABLES
    main,       \* where PythonBridge.run is, and what it found
    stdin,      \* the request: units to write, units in the pipe, writer done
    stream,     \* stdout and stderr, with what their readers have
    adapter,
    runner      \* ProcessRunner.execute

bridgeVars == <<main, stdin, stream, adapter, runner>>

Stream == {"stdout", "stderr"}
Thread == Stream \cup {"writer"}

\* left: threads whose join timed out.  gone: the process was terminated.
Main == [at : {"polling", "killing", "join_writer", "join_stdout", "join_stderr",
               "verdict", "ended", "gone"},
         late : BOOLEAN, timed_out : BOOLEAN, exceeded : BOOLEAN, left : SUBSET Thread,
         outcome : {"none", "accepted", "bridge_timeout", "message_too_large", "bridge_exit",
                    "bridge_no_response", "invalid_response"}]

Stdin == [unsent : 0..REQUEST, pipe : 0..CAPACITY, done : BOOLEAN]

\* pending: read and not returned; total: returned; captured: kept of that.
Output == [written : 0..MaxWritten, pipe : 0..CAPACITY, pending : 0..CHUNK,
           total : Nat, captured : Nat, done : BOOLEAN]

Adapter == [at : {"running", "exited", "failed", "killed"}, willing : BOOLEAN,
            line : Lines, valid : BOOLEAN, read : 0..REQUEST, helper : BOOLEAN]

BridgeInit ==
    /\ main = [at |-> "polling", late |-> FALSE, timed_out |-> FALSE, exceeded |-> FALSE,
               left |-> {}, outcome |-> "none"]
    /\ stdin = [unsent |-> REQUEST, pipe |-> 0, done |-> FALSE]
    /\ stream = [s \in Stream |-> [written |-> 0, pipe |-> 0, pending |-> 0,
                                   total |-> 0, captured |-> 0, done |-> FALSE]]
    /\ \E willing, valid \in BOOLEAN, line \in Lines :
          adapter = [at |-> "running", willing |-> willing, line |-> line, valid |-> valid,
                     read |-> 0, helper |-> FALSE]
    /\ runner = "joining"

Smaller(i, j) == IF i <= j THEN i ELSE j

Running == adapter.at = "running"

\* Somebody has the adapter's ends of the pipes.
Held == Running \/ adapter.helper

InBridge == main.at # "gone"

-----------------------------------------------------------------------------
(* The threads *)

\* The write blocks on a full pipe and breaks when nobody can read it.
WriteRequest ==
    LET n == Smaller(stdin.unsent, CAPACITY - stdin.pipe)
    IN  /\ InBridge
        /\ ~stdin.done
        /\ \/ /\ Held
              /\ n > 0
              /\ stdin' = [unsent |-> stdin.unsent - n, pipe |-> stdin.pipe + n,
                           done |-> stdin.unsent = n]
           \/ ~Held /\ stdin' = [stdin EXCEPT !.done = TRUE]
        /\ UNCHANGED <<main, stream, adapter, runner>>

\* Slip: the last chunk is dropped when it is not a whole one.
Captured_WholeChunks(o, n) ==
    IF n < CHUNK THEN [o EXCEPT !.pending = 0]
    ELSE [o EXCEPT !.pending = 0, !.total = @ + n,
              !.captured = IF o.total < MAX_MESSAGE THEN @ + Smaller(n, MAX_MESSAGE - o.total) ELSE @]

\* Slip: the chunk that passes the limit is kept whole.
Captured_WholeLast(o, n) ==
    [o EXCEPT !.pending = 0, !.total = @ + n,
              !.captured = IF o.total < MAX_MESSAGE THEN @ + n ELSE @]

\* read returned n units.
Captured(o, n) ==
    [o EXCEPT !.pending = 0, !.total = @ + n,
              !.captured = IF o.total < MAX_MESSAGE THEN @ + Smaller(n, MAX_MESSAGE - o.total) ELSE @]

Capture(s, next) ==
    /\ stream' = [stream EXCEPT ![s] = next]
    /\ main' = [main EXCEPT !.exceeded = @ \/ next.total > MAX_MESSAGE]
    /\ UNCHANGED <<stdin, adapter, runner>>

\* read takes what is in the pipe and returns when it has a chunk.
Read(s) ==
    LET o == stream[s]
        n == Smaller(o.pipe, CHUNK - o.pending)
        filled == [o EXCEPT !.pipe = @ - n, !.pending = @ + n]
    IN  /\ InBridge
        /\ ~o.done
        /\ n > 0
        /\ Capture(s, IF filled.pending = CHUNK THEN Captured(filled, CHUNK) ELSE filled)

\* The end of the file comes when nobody can write any more.
ReadEnds(s) ==
    /\ InBridge
    /\ ~stream[s].done
    /\ ~Held
    /\ stream[s].pipe = 0
    /\ Capture(s, [Captured(stream[s], stream[s].pending) EXCEPT !.done = TRUE])

-----------------------------------------------------------------------------
(* The main thread *)

Goes(next) == main' = next /\ UNCHANGED <<stdin, stream, adapter, runner>>

DeadlinePasses == main.at = "polling" /\ ~main.late /\ Goes([main EXCEPT !.late = TRUE])

Poll ==
    /\ main.at = "polling"
    /\ \/ ~Running /\ Goes([main EXCEPT !.at = "join_writer"])
       \/ /\ Running
          /\ main.exceeded
          /\ Goes([main EXCEPT !.at = "killing"])
       \/ /\ Running
          /\ ~main.exceeded
          /\ main.late
          /\ Goes([main EXCEPT !.at = "killing", !.timed_out = TRUE])

\* Slip: an adapter that exceeds its limits is left alone.
Kill_None == adapter

\* The adapter may have ended since it was polled.
Kill == IF Running THEN [adapter EXCEPT !.at = "killed"] ELSE adapter

KillAndWait ==
    /\ main.at = "killing"
    /\ adapter' = Kill
    /\ main' = [main EXCEPT !.at = "join_writer"]
    /\ UNCHANGED <<stdin, stream, runner>>

Done(thread) == IF thread = "writer" THEN stdin.done ELSE stream[thread].done

\* Slip: the join waits for as long as it takes.
Join_Forever(thread, at, next) ==
    /\ main.at = at
    /\ Done(thread)
    /\ Goes([main EXCEPT !.at = next])

\* A thread that does not end within a second is left.
Join(thread, at, next) ==
    /\ main.at = at
    /\ Goes([main EXCEPT !.at = next, !.left = IF Done(thread) THEN @ ELSE @ \cup {thread}])

\* Slip: the exit code is asked before the flags are.
Outcome_ExitFirst ==
    LET captured == stream["stdout"].captured
    IN  CASE adapter.at = "exited" /\ captured >= adapter.line /\ adapter.valid -> "accepted"
          [] main.timed_out -> "bridge_timeout"
          [] main.exceeded -> "message_too_large"
          [] adapter.at # "exited" -> "bridge_exit"
          [] captured = 0 -> "bridge_no_response"
          [] OTHER -> "invalid_response"

Outcome ==
    LET captured == stream["stdout"].captured
    IN  CASE main.timed_out -> "bridge_timeout"
          [] ~main.timed_out /\ main.exceeded -> "message_too_large"
          [] ~main.timed_out /\ ~main.exceeded ->
                CASE adapter.at # "exited" -> "bridge_exit"
                  [] adapter.at = "exited" /\ captured = 0 -> "bridge_no_response"
                  [] adapter.at = "exited" /\ captured > 0 ->
                        IF adapter.valid /\ captured >= adapter.line THEN "accepted" ELSE "invalid_response"

Verdict ==
    /\ main.at = "verdict"
    /\ Goes([main EXCEPT !.at = "ended", !.outcome = Outcome])

Run ==
    \/ Poll
    \/ KillAndWait
    \/ Join("writer", "join_writer", "join_stdout")
    \/ Join("stdout", "join_stdout", "join_stderr")
    \/ Join("stderr", "join_stderr", "verdict")
    \/ Verdict

-----------------------------------------------------------------------------
(* ProcessRunner *)

\* join times out: the process of the bridge is terminated, not the adapter.
Terminate ==
    /\ runner = "joining"
    /\ InBridge
    /\ runner' = "timed_out"
    /\ main' = [main EXCEPT !.at = "gone"]
    /\ UNCHANGED <<stdin, stream, adapter>>

\* The process ends and its answer is taken from the queue.
Answer ==
    /\ runner = "joining"
    /\ main.at = "ended"
    /\ runner' = "answered"
    /\ UNCHANGED <<main, stdin, stream, adapter>>

-----------------------------------------------------------------------------
(* The adapter *)

Becomes(next) == adapter' = next /\ UNCHANGED <<main, stdin, stream, runner>>

ReadRequest ==
    /\ Running
    /\ stdin.pipe > 0
    /\ adapter' = [adapter EXCEPT !.read = @ + stdin.pipe]
    /\ stdin' = [stdin EXCEPT !.pipe = 0]
    /\ UNCHANGED <<main, stream, runner>>

\* What a willing adapter has to write, and how much others may.
Wanted(s) == IF adapter.willing /\ s = "stdout" THEN adapter.line ELSE MaxWritten

Write(s) ==
    /\ Running
    /\ InBridge
    /\ stream[s].written < Wanted(s)
    /\ stream[s].pipe < CAPACITY
    /\ stream' = [stream EXCEPT ![s].written = @ + 1, ![s].pipe = @ + 1]
    /\ UNCHANGED <<main, stdin, adapter, runner>>

LeavesHelper == Running /\ ~adapter.helper /\ Becomes([adapter EXCEPT !.helper = TRUE])

\* A write to a pipe without readers, which are gone, ends it too.
Exit ==
    /\ Running
    /\ \/ /\ adapter.willing => adapter.read = REQUEST /\ stream["stdout"].written = adapter.line
          /\ Becomes([adapter EXCEPT !.at = "exited"])
       \/ /\ ~adapter.willing \/ ~InBridge
          /\ Becomes([adapter EXCEPT !.at = "failed"])

HelperEnds == adapter.helper /\ ~Running /\ Becomes([adapter EXCEPT !.helper = FALSE])

Adapts == ReadRequest \/ (\E s \in Stream : Write(s)) \/ Exit

-----------------------------------------------------------------------------
(* The specification *)

BridgeNext ==
    \/ WriteRequest
    \/ \E s \in Stream : Read(s) \/ ReadEnds(s)
    \/ Run
    \/ DeadlinePasses
    \/ Adapts
    \/ LeavesHelper
    \/ HelperEnds
    \/ Terminate
    \/ Answer

BridgeSpec == BridgeInit /\ [][BridgeNext]_bridgeVars

\* The threads run.  A willing adapter works on, and its deadline may be far;
\* nothing is assumed of another but that its deadline comes.
BridgeFairSpec ==
    /\ BridgeSpec
    /\ WF_bridgeVars(WriteRequest)
    /\ \A s \in Stream : WF_bridgeVars(Read(s) \/ ReadEnds(s))
    /\ WF_bridgeVars(Run)
    /\ WF_bridgeVars(adapter.willing /\ Adapts)
    /\ WF_bridgeVars(~adapter.willing /\ DeadlinePasses)

-----------------------------------------------------------------------------
(* Properties *)

BridgeTypeOK ==
    /\ main \in Main
    /\ stdin \in Stdin
    /\ stream \in [Stream -> Output]
    /\ adapter \in Adapter
    /\ runner \in {"joining", "timed_out", "answered"}

\* The units of a stream are somewhere: none is lost or read twice between the
\* pipe, the unfinished read and what was returned.
StreamOK(o) ==
    /\ o.pending < CHUNK
    /\ o.written = o.pipe + o.pending + o.total
    /\ o.captured = Smaller(o.total, MAX_MESSAGE)
    /\ o.done => o.pipe = 0 /\ o.pending = 0

\* Behind a join the thread has ended or is left; a verdict on the output is
\* one on an adapter that ended by itself.
MainOK ==
    /\ main.at \in {"join_stderr", "verdict"} => stream["stdout"].done \/ "stdout" \in main.left
    /\ main.at = "verdict" => stream["stderr"].done \/ "stderr" \in main.left
    /\ main.at = "gone" => runner = "timed_out"
    /\ main.outcome \in {"accepted", "bridge_no_response", "invalid_response"} => adapter.at = "exited"

\* The bookkeeping of the threads agrees with the pipes: what is kept of a
\* stream is its beginning, up to the limit, the flag is set when more came,
\* and a reader only ends when nobody can write any more.
BridgeIInv ==
    /\ BridgeTypeOK
    /\ stdin.unsent + stdin.pipe + adapter.read = REQUEST
    /\ \A s \in Stream : /\ StreamOK(stream[s])
                         /\ stream[s].done => ~Held
                         /\ main.exceeded \/ stream[s].total <= MAX_MESSAGE
    /\ MainOK

\* An accepted answer is the whole line of an adapter that ended by itself with
\* success, and what it wrote was within the limit on both streams, as far as
\* their readers came.
AcceptedIsWhole ==
    main.outcome = "accepted" =>
        /\ adapter.at = "exited"
        /\ adapter.valid
        /\ stream["stdout"].captured >= adapter.line
        /\ \A s \in Stream \ main.left : stream[s].written <= MAX_MESSAGE

\* A whole and valid answer is taken for a missing or an invalid one only when
\* the reader was given up, as happens while a helper keeps the pipe open.
AnswerKept ==
    /\ main.outcome \in {"bridge_no_response", "invalid_response"}
    /\ adapter.valid
    /\ stream["stdout"].written >= adapter.line
    => "stdout" \in main.left

\* No adapter outlives its run, unless ProcessRunner terminated the bridge.
OrphanOnlyByTerminate ==
    Running /\ main.at \notin {"polling", "killing"} => runner = "timed_out"

\* A run ends: whatever order a willing adapter reads and writes in, without
\* its deadline, and with any other adapter at the deadline.
RunEnds == <>(main.at \in {"ended", "gone"})
=============================================================================
