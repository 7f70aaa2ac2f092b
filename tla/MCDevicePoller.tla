--------------------------- MODULE MCDevicePoller ---------------------------
(* Instances of DevicePoller for TLC. *)
EXTENDS DevicePoller
=============================================================================
