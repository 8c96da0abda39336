----------------------------- MODULE MCSubsystem -----------------------------
(* Subsystem for TLC: two children and three modes in a chain of fallbacks.   *)
EXTENDS Subsystem, TLC

CONSTANTS a, b

MCChildren == {a, b}
Step(table, check, waits) == [table |-> table, checkSuccess |-> check, waits |-> waits]

MCSequences ==
    [OFF  |-> [fallback |-> "OFF", target |-> a :> "OFF" @@ b :> "OFF",
               steps |-> <<Step(a :> "OFF" @@ b :> "OFF", FALSE, FALSE)>>],
     ONE  |-> [fallback |-> "OFF", target |-> a :> "ON" @@ b :> "OFF",
               steps |-> <<Step(b :> "OFF", FALSE, TRUE), Step(a :> "ON", FALSE, FALSE)>>],
     BOTH |-> [fallback |-> "ONE", target |-> a :> "ON" @@ b :> "ON",
               steps |-> <<Step(a :> "ON", TRUE, TRUE), Step(b :> "ON", FALSE, FALSE)>>]]
==============================================================================
