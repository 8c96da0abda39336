--------------------------- MODULE MCDeviceModes ---------------------------
(* DeviceModes for TLC: it is finite as it stands. *)
EXTENDS DeviceModes
=============================================================================
