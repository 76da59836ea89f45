--------------------------- MODULE MCControlPlane ---------------------------
(***************************************************************************)
(* Instances of ControlPlane.                                              *)
(***************************************************************************)
EXTENDS ControlPlane, MCTaskRepository

CONSTANT Key

ShortRequests == {Envelope(key, 1) : key \in Key}

\* Tasks, requests in flight and keys are interchangeable.
ControlSymmetry == Permutations(Task) \cup Permutations(Http) \cup Permutations(Key)
=============================================================================
