---------------------------- MODULE AgentPromise ----------------------------
(***************************************************************************)
(* What the local Agent promises its user, without requests, threads,      *)
(* locks or digests: models are run one at a time, by a verification or by *)
(* the one worker; a binding is trusted only as the outcome of a           *)
(* verification, and an edit takes the trust away; a worker that is told   *)
(* to stop takes no task but one it is committed to already.               *)
(***************************************************************************)
CONSTANTS NULL, Binding, Config

VARIABLES
    binding,    \* what each binding says, and whether it is trusted
    slot,       \* who runs a model
    worker,     \* what the worker does
    told        \* whether it was told to stop

promiseVars == <<binding, slot, worker, told>>

Init ==
    /\ binding = [b \in Binding |-> [config |-> NULL, trusted |-> FALSE]]
    /\ slot = "free"
    /\ worker = "none"
    /\ told = FALSE

Edit(b, config) ==
    /\ binding' = [binding EXCEPT ![b] = [config |-> config, trusted |-> FALSE]]
    /\ UNCHANGED <<slot, worker, told>>

Doubt(b) ==
    /\ binding' = [binding EXCEPT ![b].trusted = FALSE]
    /\ UNCHANGED <<slot, worker, told>>

Trust(b) ==
    /\ slot = "verification"
    /\ binding[b].config # NULL
    /\ binding' = [binding EXCEPT ![b].trusted = TRUE]
    /\ UNCHANGED <<slot, worker, told>>

BeginVerification ==
    /\ slot = "free"
    /\ slot' = "verification"
    /\ UNCHANGED <<binding, worker, told>>

EndVerification ==
    /\ slot = "verification"
    /\ slot' = "free"
    /\ UNCHANGED <<binding, worker, told>>

Hire ==
    /\ worker = "none"
    /\ worker' = "waiting"
    /\ UNCHANGED <<binding, slot, told>>

Tell ==
    /\ worker # "none"
    /\ told' = TRUE
    /\ UNCHANGED <<binding, slot, worker>>

Commit ==
    /\ worker = "waiting"
    /\ ~told
    /\ worker' = "committed"
    /\ UNCHANGED <<binding, slot, told>>

Take ==
    /\ worker = "committed"
    /\ slot = "free"
    /\ worker' = "running"
    /\ slot' = "worker"
    /\ UNCHANGED <<binding, told>>

Finish ==
    /\ worker = "running"
    /\ worker' = "waiting"
    /\ slot' = "free"
    /\ UNCHANGED <<binding, told>>

Retire ==
    /\ worker = "waiting"
    /\ worker' = "none"
    /\ told' = FALSE
    /\ UNCHANGED <<binding, slot>>

Restart ==
    /\ slot' = "free"
    /\ worker' = "none"
    /\ told' = FALSE
    /\ UNCHANGED binding

Next ==
    \/ \E b \in Binding : Doubt(b) \/ Trust(b) \/ \E config \in Config : Edit(b, config)
    \/ BeginVerification \/ EndVerification
    \/ Hire \/ Tell \/ Commit \/ Take \/ Finish \/ Retire
    \/ Restart

Spec == Init /\ [][Next]_promiseVars
=============================================================================
