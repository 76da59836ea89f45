-------------------------- MODULE MCTaskRepository --------------------------
(***************************************************************************)
(* Instances of TaskRepository.                                            *)
(***************************************************************************)
EXTENDS TaskRepository, TLC

Envelope(key, ttl) ==
    [idempotency_key |-> key, task_type |-> "ocr", provider |-> NULL, model |-> NULL,
     service_id |-> NULL, formats |-> {}, input_formats |-> {"png"}, ttl_seconds |-> ttl]

Manifest(id, formats) ==
    [capability_id |-> id, task_type |-> "ocr", provider |-> "p", service_id |-> NULL,
     models |-> {"m"}, formats |-> formats]

MCBackoff == <<1, 1, 2>>

\* One task that every Worker can run: all the attempts, renewals and late
\* calls on it.
OneRequest    == {Envelope("k1", 5)}
OneCapability == {<<Manifest("c1", {"png"})>>}
OneOwner      == [x \in Device \cup Worker |-> "o1"]

\* Two keys, two requests under one of them, Workers that suit one format.
TwoRequests ==
    {Envelope("k1", 2), [Envelope("k1", 2) EXCEPT !.provider = "p"],
     [Envelope("k2", 3) EXCEPT !.input_formats = {"wav"}, !.model = "m"]}
TwoCapabilities ==
    {<<Manifest("c1", {"png"})>>, <<Manifest("c2", {"wav"}), Manifest("c3", {})>>}
TwoOwners == [x \in Device \cup Worker |-> IF x \in {"d2", "w2"} THEN "o2" ELSE "o1"]

TaskSymmetry == Permutations(Task)
=============================================================================
