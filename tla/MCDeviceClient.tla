--------------------------- MODULE MCDeviceClient ---------------------------
(***************************************************************************)
(* Instances of DeviceClient.                                              *)
(***************************************************************************)
EXTENDS DeviceClient, MCControlPlane

OneClient == [k \in Client |-> "d1"]
=============================================================================
