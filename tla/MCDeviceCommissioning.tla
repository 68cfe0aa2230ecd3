----------------------- MODULE MCDeviceCommissioning -----------------------
(* Instances of DeviceCommissioning for TLC. *)
EXTENDS DeviceCommissioning
=============================================================================
