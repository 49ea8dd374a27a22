--------------------------- MODULE MCDeviceQuery ---------------------------
(* The instance of DeviceQuery that TLC checks; its sizes are numbers.      *)
EXTENDS DeviceQuery
=============================================================================
