--------------------------- MODULE TaskLifecycle ----------------------------
(***************************************************************************)
(* What the relay promises about a task, without clocks, tokens, tables or *)
(* Workers: a task is executed a bounded number of times, at most one      *)
(* execution at a time holds it, only the holder may publish, one result   *)
(* at most is ever published, and a closed task stays closed.              *)
(*                                                                         *)
(* Several tasks may step together: one sweep of the queue moves many.     *)
(***************************************************************************)
EXTENDS Naturals

CONSTANTS Task, MaxExecutions

VARIABLE life

Phase == {"unknown", "submitted", "ready", "held", "published", "closed"}

\* executions counts the executions granted so far, the last of which is the
\* holder while the phase is held; published is the one that published, or 0.
Life == [phase : Phase, executions : 0..MaxExecutions, published : 0..MaxExecutions]

Submit(l, m) ==
    l.phase = "unknown" /\ m = [l EXCEPT !.phase = "submitted"]

Enqueue(l, m) ==
    l.phase = "submitted" /\ m = [l EXCEPT !.phase = "ready"]

Execute(l, m) ==
    /\ l.phase = "ready"
    /\ l.executions < MaxExecutions
    /\ m = [phase |-> "held", executions |-> l.executions + 1, published |-> l.published]

GiveUp(l, m) ==
    /\ l.phase = "held"
    /\ l.executions < MaxExecutions
    /\ m = [l EXCEPT !.phase = "ready"]

Publish(l, m) ==
    /\ l.phase = "held"
    /\ m = [phase |-> "published", executions |-> l.executions, published |-> l.executions]

Close(l, m) ==
    /\ l.phase \in {"submitted", "ready", "held"}
    /\ m = [l EXCEPT !.phase = "closed"]

Step(l, m) ==
    \/ Submit(l, m)
    \/ Enqueue(l, m)
    \/ Execute(l, m)
    \/ GiveUp(l, m)
    \/ Publish(l, m)
    \/ Close(l, m)

Init == life = [t \in Task |-> [phase |-> "unknown", executions |-> 0, published |-> 0]]

Next ==
    /\ life' \in [Task -> Life]
    /\ \A t \in Task : life'[t] = life[t] \/ Step(life[t], life'[t])

Spec == Init /\ [][Next]_life
=============================================================================
