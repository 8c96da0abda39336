------------------------------- MODULE HasModes -------------------------------
(***************************************************************************)
(* What an object with modes (HasModesIF, ModeHelper) promises to those    *)
(* who command it: it rests in a mode or it is on its way; a command it    *)
(* takes sets it in motion and is answered when it next rests; nobody      *)
(* whose command was taken is forgotten.                                   *)
(***************************************************************************)
CONSTANTS
    Rests,          \* the modes an object can rest in
    Moving,         \* what it shows while it is on its way
    Commanders      \* those who send mode commands

VARIABLES
    shown,          \* the mode it rests in, or Moving
    owed            \* commanders whose command was taken and not answered

Init == shown \in Rests \cup {Moving} /\ owed = {}

Take(q) ==
    /\ shown \in Rests /\ owed = {}
    /\ shown' = Moving /\ owed' = {q}

Settle ==
    /\ shown = Moving
    /\ shown' \in Rests /\ owed' = {}

\* A command may be carried out on the spot.
Jump ==
    /\ shown \in Rests /\ owed = {}
    /\ shown' \in Rests /\ UNCHANGED owed

Next == (\E q \in Commanders : Take(q)) \/ Settle \/ Jump

Spec == Init /\ [][Next]_<<shown, owed>>
=============================================================================
