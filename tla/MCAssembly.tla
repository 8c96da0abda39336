----------------------------- MODULE MCAssembly -----------------------------
(* Assembly for TLC: two commands are enough for one to come while the other *)
(* is carried out.  Forced commands to the devices come from the healths     *)
(* that are overwritten on the way.                                          *)
EXTENDS Assembly

MCCommands == {"ON", "OFF"} \X {FALSE}
=============================================================================
