-------------------------------- MODULE Cop1 --------------------------------
(***************************************************************************)
(* The sequence-controlled uplink as a whole: the FARM-1 machine of Farm1  *)
(* on board, a radio link that loses frames and delays the report, and the *)
(* ground's sending procedure.  The ground is not part of the repository;  *)
(* it is given the least that the code relies on: it numbers its frames    *)
(* modulo SeqModulus, keeps at most SendWindow of them unacknowledged,     *)
(* repeats any of those whenever it likes and takes the N(R) of a CLCW as  *)
(* an acknowledgement.  setToWaitState has no caller in the repository and *)
(* is left to Farm1.                                                       *)
(***************************************************************************)
EXTENDS Farm1, Sequences

CONSTANTS
    SendWindow,     \* frames the ground leaves unacknowledged at most
    MaxFrames,      \* bound: frames the ground ever sends
    LinkCapacity    \* bound: frames under way at once

\* positiveWindow is what the ground is told its window may be.
ASSUME CopAssumption ==
    /\ SendWindow \in Nat /\ SendWindow <= positiveWindow
    /\ MaxFrames \in Nat /\ LinkCapacity \in Nat

VARIABLES
    uplink,     \* frames under way, oldest first
    nextSend,   \* frames sent so far; the next one has this number
    acked,      \* frames the ground knows to have been accepted
    report,     \* the N(R) of the CLCW the ground received last
    accepted    \* the frames forwarded on board, by their full number

groundVars == <<nextSend, acked, report>>
copVars == <<farmVars, groundVars, uplink, accepted>>

ADFrame(i) == [kind |-> "AD", idx |-> i]
BDFrame == [kind |-> "BD", idx |-> 0]
UnlockFrame == [kind |-> "unlock", idx |-> 0]
Frames == [kind : {"AD", "BD", "unlock"}, idx : Nat]

\* The N(S) the frame header carries.
SequenceNumber(i) == i % SeqModulus

CopInit ==
    /\ FarmInit
    /\ uplink = <<>>
    /\ nextSend = 0 /\ acked = 0 /\ report = 0
    /\ accepted = <<>>

-----------------------------------------------------------------------------
(* The ground. *)

Transmit(frame) ==
    /\ Len(uplink) < LinkCapacity
    /\ uplink' = Append(uplink, frame)
    /\ UNCHANGED <<farmVars, acked, report, accepted>>

SendNew ==
    /\ nextSend < acked + SendWindow
    /\ nextSend < MaxFrames
    /\ nextSend' = nextSend + 1
    /\ Transmit(ADFrame(nextSend))

Resend(i) == acked <= i /\ i < nextSend /\ Transmit(ADFrame(i)) /\ UNCHANGED nextSend

SendOther(frame) == Transmit(frame) /\ UNCHANGED nextSend

\* A CLCW comes down some time after the TTC system sampled it.
SampleClcw ==
    /\ report # clcw.vRValue
    /\ report' = clcw.vRValue
    /\ UNCHANGED <<farmVars, nextSend, acked, uplink, accepted>>

\* N(R) acknowledges all frames before it; one outside the window is ignored.
Acknowledge ==
    LET n == (report - acked) % SeqModulus
    IN  /\ n > 0
        /\ acked + n <= nextSend
        /\ acked' = acked + n
        /\ UNCHANGED <<farmVars, nextSend, report, uplink, accepted>>

-----------------------------------------------------------------------------
(* The link. *)

Lose ==
    /\ uplink # <<>>
    /\ uplink' = Tail(uplink)
    /\ UNCHANGED <<farmVars, groundVars, accepted>>

(* A frame arrives: frameAcceptanceAndReportingMechanism calls the handler   *)
(* of its type, and for an accepted AD frame goes on to mapDemultiplexing.   *)
DeliverAccept ==
    /\ uplink # <<>> /\ Head(uplink).kind = "AD"
    /\ OpenAccept(SequenceNumber(Head(uplink).idx))
    /\ accepted' = Append(accepted, Head(uplink).idx)
    /\ uplink' = Tail(uplink)
    /\ UNCHANGED groundVars

DeliverDiscard ==
    /\ uplink # <<>> /\ Head(uplink).kind = "AD"
    /\ DiscardAD(SequenceNumber(Head(uplink).idx))
    /\ uplink' = Tail(uplink)
    /\ UNCHANGED <<groundVars, accepted>>

DeliverB ==
    /\ uplink # <<>>
    /\ \/ Head(uplink).kind = "BD" /\ AcceptBD
       \/ Head(uplink).kind = "unlock" /\ BCUnlock
    /\ uplink' = Tail(uplink)
    /\ UNCHANGED <<groundVars, accepted>>

-----------------------------------------------------------------------------
CopNext ==
    \/ SendNew
    \/ \E i \in acked..(nextSend - 1) : Resend(i)
    \/ SendOther(BDFrame)
    \/ SendOther(UnlockFrame)
    \/ SampleClcw
    \/ Acknowledge
    \/ Lose
    \/ DeliverAccept
    \/ DeliverDiscard
    \/ DeliverB

CopSpec == CopInit /\ [][CopNext]_copVars

(* The link does not lose the frame V(R) waits for for ever, frames do not    *)
(* stay under way, the ground repeats its oldest unacknowledged frame again   *)
(* and again, and CLCWs come down.  On board nothing is assumed beyond a      *)
(* frame being processed when it arrives.                                     *)
CopFairness ==
    /\ SF_copVars(DeliverAccept)
    /\ SF_copVars(Resend(acked))
    /\ WF_copVars(Lose)
    /\ WF_copVars(SampleClcw)
    /\ WF_copVars(Acknowledge)

CopLiveSpec == CopSpec /\ CopFairness

-----------------------------------------------------------------------------
CopTypeOK ==
    /\ FarmTypeOK
    /\ uplink \in Seq(Frames)
    /\ nextSend \in Nat /\ acked \in Nat
    /\ report \in SeqNumbers
    /\ accepted \in Seq(Nat)

(* A ground that respects the window never drives the channel into Lockout,  *)
(* whatever is lost, repeated or still under way: the unequal comparisons of  *)
(* the positive and the negative window both suffice.                         *)
NoSpuriousLockout == currentState # "lockout"

(* V(R) is only sent modulo SeqModulus and may be old when it is read, yet    *)
(* the ground never takes for accepted a frame that was not forwarded.        *)
AcknowledgedIsAccepted == acked <= Len(accepted)

Uplink == INSTANCE ReliableUplink WITH sent <- nextSend, got <- accepted

(* The channel forwards the frames 0, 1, 2, ... once each and in order, and   *)
(* never one the ground has not sent.                                         *)
InOrderOnce == Uplink!UplinkSafe

(* And every frame handed over is forwarded in the end.                       *)
EventuallyForwarded == Uplink!UplinkSpec
=============================================================================
