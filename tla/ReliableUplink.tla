--------------------------- MODULE ReliableUplink ---------------------------
(***************************************************************************)
(* What the sequence-controlled service promises to the layer above it:    *)
(* the telecommand frames the ground hands over come out of the virtual    *)
(* channel once each and in the order they were handed over, whatever the  *)
(* radio link does to them on the way.                                     *)
(***************************************************************************)
EXTENDS Naturals, Sequences

VARIABLES
    sent,   \* how many frames the ground has handed over; they are 0, 1, 2, ...
    got     \* the frames forwarded to the MAP channel, oldest first

uplinkVars == <<sent, got>>

UplinkInit == sent = 0 /\ got = <<>>

HandOver == sent' = sent + 1 /\ UNCHANGED got

Forward ==
    /\ Len(got) < sent
    /\ got' = Append(got, Len(got))
    /\ UNCHANGED sent

UplinkNext == HandOver \/ Forward

UplinkSafe == UplinkInit /\ [][UplinkNext]_uplinkVars

UplinkSpec == UplinkSafe /\ WF_uplinkVars(Forward)
=============================================================================
