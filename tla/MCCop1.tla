------------------------------- MODULE MCCop1 -------------------------------
(* The sequence-controlled uplink for TLC. *)
EXTENDS Cop1
=============================================================================
