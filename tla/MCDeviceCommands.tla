-------------------------- MODULE MCDeviceCommands --------------------------
(* DeviceCommands for TLC: two commands share a reply that is awaited for    *)
(* some cycles, one has a reply with a countdown, one a periodic reply.      *)
EXTENDS DeviceCommands, TLC

CONSTANTS get, set, dump, hk, raw, ack, data, frame

AllCommands == {get, set, dump, hk, raw}
AllReplies == {ack, data, frame}
Enables == get :> ack @@ set :> ack @@ dump :> data @@ hk :> frame @@ raw :> None
=============================================================================
