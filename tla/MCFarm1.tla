------------------------------ MODULE MCFarm1 ------------------------------
(* Farm1 under every sequence of validated frames, for TLC. *)
EXTENDS Farm1
=============================================================================
