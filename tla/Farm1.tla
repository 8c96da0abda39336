------------------------------- MODULE Farm1 -------------------------------
(***************************************************************************)
(* The FARM-1 machine of a TC virtual channel: VirtualChannelReception,    *)
(* its three state classes Farm1StateOpen, Farm1StateWait and              *)
(* Farm1StateLockout, and the CLCW it reports to the ground with.          *)
(*                                                                         *)
(* A frame reaches this module after DataLinkLayer::processFrame has       *)
(* validated it.  Each action is one whole call of                         *)
(* frameAcceptanceAndReportingMechanism up to the forwarding to the MAP    *)
(* channel: the reaction of the current state, and then the refresh of     *)
(* V(R) and of the FARM-B counter in the CLCW and its copy to the TTC.     *)
(***************************************************************************)
EXTENDS Integers

CONSTANTS
    SeqModulus,     \* values of the uint8_t N(S) and V(R); 256 in the code
    BModulus,       \* values of the uint8_t FARM-B counter; 256 in the code
    Window,         \* slidingWindowWidth
    WaitCallers     \* states in which a higher procedure calls setToWaitState

States == {"open", "wait", "lockout"}

\* initialize() refuses a width over 254 and an odd one.
ASSUME FarmAssumption ==
    /\ SeqModulus \in Nat /\ SeqModulus > 0 /\ SeqModulus % 2 = 0
    /\ BModulus \in Nat /\ BModulus > 0 /\ BModulus % 4 = 0
    /\ Window \in Nat /\ Window <= SeqModulus - 2 /\ Window % 2 = 0
    /\ WaitCallers \subseteq States

VARIABLES
    currentState,   \* which of openState, waitState, lockoutState is current
    vR,             \* receiver frame sequence number
    farmBCounter,   \* counts the type-B frames accepted
    internalClcw,   \* the channel's own CLCW register
    clcw            \* the register handed to the TTC system

farmVars == <<currentState, vR, farmBCounter, internalClcw, clcw>>

Flags == [lockout : BOOLEAN, wait : BOOLEAN, retransmit : BOOLEAN]
Registers == [flags : Flags, vRValue : 0..(SeqModulus - 1), farmBCount : 0..3]

-----------------------------------------------------------------------------
positiveWindow == Window \div 2
negativeWindow == Window \div 2

\* int8_t diff = frame->getSequenceNumber() - myVC->vR: the difference modulo
\* SeqModulus, read as a signed number of the same width.
Diff(ns) ==
    LET d == (ns - vR) % SeqModulus
    IN  IF d < SeqModulus \div 2 THEN d ELSE d - SeqModulus

\* Slips: a window one frame too narrow.
SlipPositiveWindow(d) == 0 < d /\ d < positiveWindow - 1
SlipNegativeWindow(d) == d < 0 /\ d > -negativeWindow + 1

InPositiveWindow(d) == 0 < d /\ d < positiveWindow
InNegativeWindow(d) == d < 0 /\ d >= -negativeWindow

Flag(l, w, r) == [lockout |-> l, wait |-> w, retransmit |-> r]
CurrentFlags == internalClcw.flags

\* Slip: the register is copied to the TTC before it is refreshed.
SlipReport(flags, v, b) ==
    /\ vR' = v
    /\ farmBCounter' = b
    /\ internalClcw' = [flags |-> flags, vRValue |-> v, farmBCount |-> b % 4]
    /\ clcw' = internalClcw

(* The tail of frameAcceptanceAndReportingMechanism: after the reaction, the *)
(* register is refreshed and copied out, whatever the result was.            *)
Report(flags, v, b) ==
    /\ vR' = v
    /\ farmBCounter' = b
    /\ internalClcw' = [flags |-> flags, vRValue |-> v, farmBCount |-> b % 4]
    /\ clcw' = internalClcw'

CountB == (farmBCounter + 1) % BModulus

FarmInit ==
    /\ currentState = "open"
    /\ vR = 0
    /\ farmBCounter = 0
    /\ internalClcw = [flags |-> Flag(FALSE, FALSE, FALSE), vRValue |-> 0, farmBCount |-> 0]
    /\ clcw = internalClcw

-----------------------------------------------------------------------------
(* handleADFrame of the three states, one action per outcome.  Only          *)
(* OpenAccept makes frameAcceptanceAndReportingMechanism forward the frame.  *)

\* Slip: any frame of the positive window is taken for the expected one.
SlipOpenAccept(ns) ==
    /\ currentState = "open"
    /\ Diff(ns) >= 0 /\ Diff(ns) < positiveWindow
    /\ Report([CurrentFlags EXCEPT !.retransmit = FALSE], (vR + 1) % SeqModulus, farmBCounter)
    /\ UNCHANGED currentState

OpenAccept(ns) ==
    /\ currentState = "open"
    /\ Diff(ns) = 0
    /\ Report([CurrentFlags EXCEPT !.retransmit = FALSE], (vR + 1) % SeqModulus, farmBCounter)
    /\ UNCHANGED currentState

\* Slip: V(R) follows a frame that is not accepted.
SlipOpenPositiveWindow(ns) ==
    /\ currentState = "open"
    /\ InPositiveWindow(Diff(ns))
    /\ Report([CurrentFlags EXCEPT !.retransmit = TRUE], ns, farmBCounter)
    /\ UNCHANGED currentState

OpenPositiveWindow(ns) ==
    /\ currentState = "open"
    /\ InPositiveWindow(Diff(ns))
    /\ Report([CurrentFlags EXCEPT !.retransmit = TRUE], vR, farmBCounter)
    /\ UNCHANGED currentState

OpenNegativeWindow(ns) ==
    /\ currentState = "open"
    /\ InNegativeWindow(Diff(ns))
    /\ Report(CurrentFlags, vR, farmBCounter)
    /\ UNCHANGED currentState

OpenLockout(ns) ==
    /\ currentState = "open"
    /\ Diff(ns) # 0
    /\ ~InPositiveWindow(Diff(ns))
    /\ ~InNegativeWindow(Diff(ns))
    /\ Report([CurrentFlags EXCEPT !.lockout = TRUE], vR, farmBCounter)
    /\ currentState' = "lockout"

WaitDiscard(ns) ==
    /\ currentState = "wait"
    /\ Diff(ns) >= -negativeWindow
    /\ Diff(ns) < positiveWindow
    /\ Report(CurrentFlags, vR, farmBCounter)
    /\ UNCHANGED currentState

WaitLockout(ns) ==
    /\ currentState = "wait"
    /\ Diff(ns) < -negativeWindow \/ Diff(ns) >= positiveWindow
    /\ Report([CurrentFlags EXCEPT !.lockout = TRUE], vR, farmBCounter)
    /\ currentState' = "lockout"

LockoutDiscard(ns) ==
    /\ currentState = "lockout"
    /\ Report(CurrentFlags, vR, farmBCounter)
    /\ UNCHANGED currentState

DiscardAD(ns) ==
    \/ OpenPositiveWindow(ns)
    \/ OpenNegativeWindow(ns)
    \/ OpenLockout(ns)
    \/ WaitDiscard(ns)
    \/ WaitLockout(ns)
    \/ LockoutDiscard(ns)

(* handleBDFrame: accepted in every state, and forwarded. *)
AcceptBD ==
    /\ Report(CurrentFlags, vR, CountB)
    /\ UNCHANGED currentState

(* handleBCFrame with an unlock command. *)
UnlockInOpen ==
    /\ currentState = "open"
    /\ Report([CurrentFlags EXCEPT !.retransmit = FALSE], vR, CountB)
    /\ UNCHANGED currentState

UnlockInWait ==
    /\ currentState = "wait"
    /\ Report([CurrentFlags EXCEPT !.retransmit = FALSE, !.wait = FALSE], vR, CountB)
    /\ currentState' = "open"

UnlockInLockout ==
    /\ currentState = "lockout"
    /\ Report(Flag(FALSE, FALSE, FALSE), vR, CountB)
    /\ currentState' = "open"

BCUnlock == UnlockInOpen \/ UnlockInWait \/ UnlockInLockout

(* handleBCFrame with a set V(R) command. *)
SetVrInOpen(v) ==
    /\ currentState = "open"
    /\ Report([CurrentFlags EXCEPT !.retransmit = FALSE], v, CountB)
    /\ UNCHANGED currentState

SetVrInWait(v) ==
    /\ currentState = "wait"
    /\ Report([CurrentFlags EXCEPT !.retransmit = FALSE, !.wait = FALSE], v, CountB)
    /\ currentState' = "open"

\* Slip: V(R) is set in Lockout as in the other states.
SlipSetVrInLockout(v) ==
    /\ currentState = "lockout"
    /\ Report(CurrentFlags, v, CountB)
    /\ UNCHANGED currentState

SetVrInLockout(v) ==
    /\ currentState = "lockout"
    /\ Report(CurrentFlags, vR, CountB)
    /\ UNCHANGED currentState

BCSetVr(v) == SetVrInOpen(v) \/ SetVrInWait(v) \/ SetVrInLockout(v)

(* handleBCFrame with content that is neither command. *)
BCIllegal ==
    /\ Report(CurrentFlags, vR, farmBCounter)
    /\ UNCHANGED currentState

(* setToWaitState: changes the channel's own register only; the TTC copy    *)
(* keeps its old value until the next frame.                                *)
setToWaitState ==
    /\ currentState \in WaitCallers
    /\ currentState' = "wait"
    /\ internalClcw' = [internalClcw EXCEPT !.flags.wait = TRUE]
    /\ UNCHANGED <<vR, farmBCounter, clcw>>
-----------------------------------------------------------------------------
(* The channel on its own: any validated frame may come at any time.        *)

SeqNumbers == 0..(SeqModulus - 1)

FarmNext ==
    \/ \E ns \in SeqNumbers : OpenAccept(ns) \/ DiscardAD(ns)
    \/ AcceptBD
    \/ BCUnlock
    \/ \E v \in SeqNumbers : BCSetVr(v)
    \/ BCIllegal
    \/ setToWaitState

FarmSpec == FarmInit /\ [][FarmNext]_farmVars

-----------------------------------------------------------------------------
(* The variables have the types of the class members. *)
FarmTypeOK ==
    /\ currentState \in States
    /\ vR \in SeqNumbers
    /\ farmBCounter \in 0..(BModulus - 1)
    /\ internalClcw \in Registers
    /\ clcw \in Registers

(* The flags of the channel's register tell the state of the machine: the    *)
(* lockout flag is up exactly in Lockout, the wait flag is up in Wait and     *)
(* both are down in Open.  The flags and currentState are set by separate     *)
(* statements in seven handlers of three classes.                             *)
FlagsMirrorState ==
    /\ internalClcw.flags.lockout <=> currentState = "lockout"
    /\ currentState = "wait" => internalClcw.flags.wait
    /\ currentState = "open" => ~internalClcw.flags.wait

(* What the ground last saw: the TTC copy of the CLCW never lacks or invents  *)
(* a lockout, and carries the V(R) and the FARM-B count of the machine, even  *)
(* though setToWaitState changes only the channel's own register.             *)
ReportIsCurrent ==
    /\ clcw.flags.lockout <=> currentState = "lockout"
    /\ clcw.flags.retransmit = internalClcw.flags.retransmit
    /\ clcw.vRValue = vR
    /\ clcw.farmBCount = farmBCounter % 4

(* Farm1StateLockout: "To leave the State, a BC Unlock command is required."  *)
(* While locked out V(R) never moves, and the step that leaves the state      *)
(* counts a type-B frame, opens the machine and takes all three flags down.   *)
LockoutStep ==
    currentState = "lockout" =>
        /\ vR' = vR
        /\ currentState' # "lockout" =>
              /\ currentState' = "open"
              /\ farmBCounter' = CountB
              /\ internalClcw'.flags = Flag(FALSE, FALSE, FALSE)

LockoutNeedsUnlock == [][LockoutStep]_farmVars
=============================================================================
