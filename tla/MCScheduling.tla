---------------------------- MODULE MCScheduling ----------------------------
(* Scheduling for TLC: three telecommands, two of them with one request id.  *)
EXTENDS Scheduling

MCActivities == 1..3
MCRequestId == <<1, 2, 2>>
=============================================================================
