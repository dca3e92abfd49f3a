--------------------------- MODULE MCDeviceIdentity ---------------------------
(***************************************************************************)
(* Two connection threads.                                                 *)
(***************************************************************************)
EXTENDS DeviceIdentity

CONSTANTS t1, t2

=============================================================================
