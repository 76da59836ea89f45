----------------------------- MODULE AgentStore -----------------------------
(***************************************************************************)
(* The desktop Agent's database: agent/store.py.  A connection is in       *)
(* autocommit mode, so every statement is atomic and nothing more: a       *)
(* method of two statements is two actions.                                *)
(***************************************************************************)
EXTENDS FiniteSets

CONSTANTS
    NULL,
    Binding,        \* binding ids
    Config,         \* what a binding may say
    Enabled,        \* the configurations with enabled = true
    Secretive       \* the configurations _reject_secrets refuses

ASSUME ConfigAssumption ==
    /\ Enabled \subseteq Config
    /\ Secretive \subseteq Config
    /\ NULL \notin Config
    /\ NULL \notin [sha256 : Config]

VARIABLES
    bindings,       \* the model_bindings table
    accepting       \* the accepting column of agent_state

storeVars == <<bindings, accepting>>

digest(config) == [sha256 |-> config]

Row == [binding_json : Config \cup {NULL},
        verified : BOOLEAN,
        verified_digest : [sha256 : Config] \cup {NULL}]

StoreTypeOK ==
    /\ bindings \in [Binding -> Row]
    /\ accepting \in BOOLEAN

StoreInit ==
    /\ bindings = [b \in Binding |-> [binding_json |-> NULL, verified |-> FALSE,
                                      verified_digest |-> NULL]]
    /\ accepting = FALSE

get_binding(b) == bindings[b].binding_json

is_verified(b) ==
    /\ bindings[b].verified
    /\ bindings[b].verified_digest = digest(bindings[b].binding_json)

has_verified_enabled_binding ==
    \E b \in Binding : get_binding(b) \in Enabled /\ is_verified(b)

\* Slip: an edit keeps the verification.
save_binding_Keeps(b, config) ==
    /\ bindings' = IF config \in Secretive
                   THEN bindings
                   ELSE [bindings EXCEPT ![b].binding_json = config]
    /\ UNCHANGED accepting

save_binding(b, config) ==
    /\ bindings' = IF config \in Secretive
                   THEN bindings
                   ELSE [bindings EXCEPT ![b] = [binding_json |-> config,
                                                 verified |-> FALSE,
                                                 verified_digest |-> NULL]]
    /\ UNCHANGED accepting

mark_unverified(b) ==
    /\ bindings' = [bindings EXCEPT ![b].verified = FALSE,
                                    ![b].verified_digest = NULL]
    /\ UNCHANGED accepting

\* Slip: the UPDATE does not compare the row with the one that was read.
mark_verified_update_Blind(b, seen) ==
    /\ bindings' = [bindings EXCEPT ![b].verified = TRUE,
                                    ![b].verified_digest = digest(seen)]
    /\ UNCHANGED accepting

\* The UPDATE that ends mark_verified, for the row its SELECT had seen.
mark_verified_update(b, seen) ==
    /\ bindings' = IF get_binding(b) = seen
                   THEN [bindings EXCEPT ![b].verified = TRUE,
                                         ![b].verified_digest = digest(seen)]
                   ELSE bindings
    /\ UNCHANGED accepting

set_accepting(enabled) ==
    /\ accepting' = enabled
    /\ UNCHANGED bindings

-----------------------------------------------------------------------------
(* Properties *)

\* A verification always belongs to the configuration stored beside it: an
\* edit that slips in between the SELECT and the UPDATE of mark_verified is
\* never taken for verified.
VerifiedMatchesStored ==
    \A b \in Binding : bindings[b].verified =>
        /\ bindings[b].binding_json # NULL
        /\ bindings[b].verified_digest = digest(bindings[b].binding_json)
=============================================================================
