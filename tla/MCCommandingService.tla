------------------------ MODULE MCCommandingService ------------------------
(* CommandingService for TLC: telecommands for up to three objects. *)
EXTENDS CommandingService, TLC

CONSTANTS objA, objB, objC, qA, qB, qC

Three == 1..3
ObjectsABC == {objA, objB, objC}
QueuesABC == {qA, qB, qC}

\* Objects are alike: the ways to share three telecommands out among them.
Shares == { <<objA, objA, objA>>, <<objA, objA, objB>>, <<objA, objB, objA>>,
            <<objA, objB, objB>>, <<objA, objB, objC>> }

OwnQueues == objA :> qA @@ objB :> qB @@ objC :> qC
=============================================================================
