--------------------------- MODULE MCWorkerRuntime ---------------------------
(***************************************************************************)
(* Instances of WorkerRuntime.                                             *)
(***************************************************************************)
EXTENDS WorkerRuntime, MCTaskRepository

ShortRequest == {Envelope("k1", 2)}
=============================================================================
