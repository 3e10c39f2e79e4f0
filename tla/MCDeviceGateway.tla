--------------------------- MODULE MCDeviceGateway ---------------------------
(* Instances of DeviceGateway for TLC.                                     *)
EXTENDS DeviceGateway

CONSTANTS worker, s1, s2, t1, bad
=============================================================================
