---------------------------- MODULE MCDeviceFdir ----------------------------
(* DeviceFdir for TLC, with small thresholds (recoveries: the default).      *)
EXTENDS DeviceFdir

SmallThresholds == [c \in Counters |-> 1]
=============================================================================
