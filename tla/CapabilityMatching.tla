------------------------- MODULE CapabilityMatching -------------------------
(***************************************************************************)
(* Routing of a task to a Worker capability (TaskRepository._matches).  An *)
(* envelope carries the task type, the optional hard constraints of        *)
(* requires and the MIME types of its inputs; a capability manifest what   *)
(* one Worker binding offers.  An optional field that is absent is NULL.   *)
(***************************************************************************)
EXTENDS Naturals, Sequences

CONSTANT NULL    \* Python's None, SQL's NULL

Constrains(wanted, offered) == wanted # NULL => wanted = offered

Suits(envelope, capability) ==
    /\ capability.task_type = envelope.task_type
    /\ Constrains(envelope.provider, capability.provider)
    /\ Constrains(envelope.service_id, capability.service_id)
    /\ envelope.model # NULL => envelope.model \in capability.models
    /\ envelope.formats \subseteq capability.formats
    /\ capability.formats # {} => envelope.input_formats \subseteq capability.formats

\* Slip: the first capability is taken without a look.
IsMatch_First(envelope, capabilities, i) == i = 1 /\ i \in DOMAIN capabilities

\* The first capability of the Worker's list that suits the envelope is the
\* one the lease is bound to; none may suit it.
IsMatch(envelope, capabilities, i) ==
    /\ i \in DOMAIN capabilities
    /\ Suits(envelope, capabilities[i])
    /\ \A j \in 1..(i - 1) : ~Suits(envelope, capabilities[j])

Matches(envelope, capabilities) ==
    \E i \in DOMAIN capabilities : Suits(envelope, capabilities[i])
=============================================================================
