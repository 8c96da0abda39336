------------------------------ MODULE DeviceFdir ------------------------------
(***************************************************************************)
(* Failure isolation of a device (DeviceHandlerFailureIsolation on         *)
(* FailureIsolationBase and FaultCounter): faults are counted, some only   *)
(* after the fault-tree parent or the power system has confirmed them, and *)
(* lead to a recovery or to the device being given up.                     *)
(*                                                                         *)
(* The handler's task runs checkForFailures (`checking') and otherwise     *)
(* triggers events and obeys health commands; events that others report of *)
(* the device and answers to confirmation requests come in by a bounded    *)
(* queue.  Events are the classes that eventReceived tells apart.          *)
(***************************************************************************)
EXTENDS Naturals, Sequences

CONSTANTS
    Threshold,      \* the failure thresholds of the three counters
    QueueDepth,     \* of eventQueue
    MaxRequests     \* confirmation requests of a kind that are under way

Counters == {"strange", "missed", "recovery"}

ASSUME FdirAssumption ==
    Threshold \in [Counters -> Nat] /\ QueueDepth \in Nat \ {0} /\ MaxRequests \in Nat \ {0}

VARIABLES
    checking,       \* the task is in checkForFailures
    health,         \* the owner's entry of the HealthTable
    fdirState,
    count,          \* the fault counters
    eventQueue,
    requests,       \* confirmation requests without an answer
    meddled,        \* the health, or what is said of it, is not FDIR's doing
    overlooked      \* the assembly has forgotten the recovery it was asked for

vars == <<checking, health, fdirState, count, eventQueue, requests, meddled, overlooked>>

HealthStates == {"HEALTHY", "FAULTY", "EXTERNAL_CONTROL", "NEEDS_RECOVERY", "PERMANENT_FAULTY"}
FDIRStates == {"NONE", "RECOVERY_ONGOING", "DEVICE_MIGHT_BE_OFF", "AWAIT_SHUTDOWN"}

\* Each stands for the events that share its case in eventReceived; HEALTHY is
\* a HEALTH_INFO that says so.
ToConfirm == {"MISSED_REPLY", "SWITCH_WENT_OFF"}
Faults == ToConfirm \cup {"TRANSITION_FAILED", "STRANGE_REPLY", "FUSE_WENT_OFF"}
Infos == {"MODE_INFO", "HEALTHY"}

Init ==
    /\ checking = FALSE /\ health = "HEALTHY" /\ fdirState = "NONE"
    /\ count = [c \in Counters |-> 0]
    /\ eventQueue = <<>> /\ requests = [e \in ToConfirm |-> 0]
    /\ meddled = FALSE /\ overlooked = FALSE

-----------------------------------------------------------------------------
(* Reactions *)

setFaulty ==
    /\ health' = "FAULTY" /\ fdirState' = "AWAIT_SHUTDOWN"
    /\ meddled' = FALSE /\ overlooked' = FALSE

\* Slip: the fault is recorded, the owner is not told.
SlipStartRecovery ==
    /\ fdirState' = "RECOVERY_ONGOING" /\ meddled' = FALSE /\ overlooked' = FALSE
    /\ UNCHANGED health

startRecovery ==
    /\ health' = "NEEDS_RECOVERY" /\ fdirState' = "RECOVERY_ONGOING"
    /\ meddled' = FALSE /\ overlooked' = FALSE

\* Slip: the number of recoveries is forgotten as well.
SlipClearFaultCounters == [c \in Counters |-> 0]

clearFaultCounters == [c \in Counters |-> IF c = "recovery" THEN count[c] ELSE 0]

AboveThreshold(counts, c) == counts[c] + 1 > Threshold[c]

handleRecovery ==
    \/ /\ ~AboveThreshold(clearFaultCounters, "recovery")
       /\ count' = [clearFaultCounters EXCEPT !["recovery"] = @ + 1]
       /\ startRecovery
    \/ /\ AboveThreshold(clearFaultCounters, "recovery")
       /\ count' = [clearFaultCounters EXCEPT !["recovery"] = 0]
       /\ setFaulty

incrementAndCheck(c) ==
    \/ /\ ~AboveThreshold(count, c)
       /\ count' = [count EXCEPT ![c] = @ + 1]
       /\ UNCHANGED <<health, fdirState, meddled, overlooked>>
    \/ AboveThreshold(count, c) /\ handleRecovery

\* Nobody can be asked, or the message is not taken.
CannotAsk == UNCHANGED requests

sendConfirmationRequest(e) ==
    /\ requests[e] < MaxRequests
    /\ requests' = [requests EXCEPT ![e] = @ + 1]

NoReaction == UNCHANGED <<health, fdirState, count, requests, meddled, overlooked>>

-----------------------------------------------------------------------------
(* Events *)

\* Slip: a HEALTH_INFO is not recognised.
SlipWakes(e) == e = "MODE_INFO" /\ fdirState # "RECOVERY_ONGOING"

\* isFdirInActionOrAreWeFaulty while an action is in progress
Wakes(e) == e = "HEALTHY" \/ (e = "MODE_INFO" /\ fdirState # "RECOVERY_ONGOING")

\* A HEALTH_INFO from the queue may be older than the action.
WaitsNoMore(e) ==
    /\ fdirState' = "NONE"
    /\ meddled' = (meddled \/ e = "HEALTHY")
    /\ UNCHANGED <<health, count, requests, overlooked>>

\* Slip: a device that is faulty already is treated like any other.
SlipIgnoresAll == FALSE

IgnoresAll == health \in {"FAULTY", "PERMANENT_FAULTY"}

HandlesFault(e) ==
    \/ e = "TRANSITION_FAILED" /\ handleRecovery /\ UNCHANGED requests
    \/ e = "STRANGE_REPLY" /\ incrementAndCheck("strange") /\ UNCHANGED requests
    \/ /\ e = "MISSED_REPLY" /\ sendConfirmationRequest(e)
       /\ UNCHANGED <<health, fdirState, count, meddled, overlooked>>
    \/ e = "MISSED_REPLY" /\ CannotAsk /\ incrementAndCheck("missed")
    \/ /\ e = "SWITCH_WENT_OFF" /\ sendConfirmationRequest(e)
       /\ fdirState' = "DEVICE_MIGHT_BE_OFF"
       /\ UNCHANGED <<health, count, meddled, overlooked>>
    \/ e = "SWITCH_WENT_OFF" /\ CannotAsk /\ NoReaction
    \/ e = "FUSE_WENT_OFF" /\ setFaulty /\ UNCHANGED <<count, requests>>

eventReceived(e) ==
    \/ fdirState # "NONE" /\ Wakes(e) /\ WaitsNoMore(e)
    \/ fdirState # "NONE" /\ ~Wakes(e) /\ NoReaction
    \/ fdirState = "NONE" /\ (IgnoresAll \/ e \in Infos) /\ NoReaction
    \/ fdirState = "NONE" /\ ~IgnoresAll /\ HandlesFault(e)

\* An answer is acted on in every state and for every health.
eventConfirmed(e) ==
    \/ e = "MISSED_REPLY" /\ incrementAndCheck("missed")
    \/ e = "SWITCH_WENT_OFF" /\ handleRecovery

-----------------------------------------------------------------------------
(* The handler's task *)

isFdirDisabledForSeverity(e) == e \in Faults /\ health = "EXTERNAL_CONTROL"

triggerEvent(e) ==
    /\ ~checking
    /\ fdirState = "NONE" \/ e \in Infos
    /\ ~isFdirDisabledForSeverity(e)
    /\ eventReceived(e)
    /\ UNCHANGED <<checking, eventQueue>>

\* A health command; HEALTH_INFO is triggered before the table is written.
SetHealth(h) ==
    /\ ~checking
    /\ health' = h
    /\ fdirState' = IF h = "HEALTHY" /\ Wakes(h) THEN "NONE" ELSE fdirState
    /\ meddled' = (h # "HEALTHY") /\ overlooked' = FALSE
    /\ UNCHANGED <<checking, count, eventQueue, requests>>

\* The parent assembly ends the recovery of the device.
Recovered == health = "NEEDS_RECOVERY" /\ SetHealth("HEALTHY")

CheckBegins ==
    /\ ~checking /\ checking' = TRUE
    /\ UNCHANGED <<health, fdirState, count, eventQueue, requests, meddled, overlooked>>

CheckMessage ==
    /\ checking /\ eventQueue # <<>>
    /\ eventQueue' = Tail(eventQueue)
    /\ LET m == Head(eventQueue) IN
       \/ m.id = "EVENT" /\ isFdirDisabledForSeverity(m.event) /\ NoReaction
       \/ m.id = "EVENT" /\ ~isFdirDisabledForSeverity(m.event) /\ eventReceived(m.event)
       \/ m.id = "YOUR_FAULT" /\ eventConfirmed(m.event) /\ UNCHANGED requests
       \/ m.id = "MY_FAULT" /\ NoReaction
    /\ UNCHANGED checking

\* The timers of the counters in cs have run out.
decrementFaultCounters(cs) ==
    /\ checking /\ eventQueue = <<>> /\ checking' = FALSE
    /\ count' = [c \in Counters |-> IF c \in cs /\ count[c] > 0 THEN count[c] - 1 ELSE count[c]]
    /\ UNCHANGED <<health, fdirState, eventQueue, requests, meddled, overlooked>>

-----------------------------------------------------------------------------
(* Others *)

\* A message is lost when the queue is full.
Deliver(m) ==
    eventQueue' = IF Len(eventQueue) < QueueDepth THEN Append(eventQueue, m) ELSE eventQueue

\* The power system or a monitor reports of the device, or the health service
\* announces the health of all objects.
Reported(e) ==
    /\ e = "HEALTHY" => health = "HEALTHY"
    /\ Deliver([id |-> "EVENT", event |-> e])
    /\ UNCHANGED <<checking, health, fdirState, count, requests, meddled, overlooked>>

Answered(e, verdict) ==
    /\ requests[e] > 0 /\ requests' = [requests EXCEPT ![e] = @ - 1]
    /\ Deliver([id |-> verdict, event |-> e])
    /\ UNCHANGED <<checking, health, fdirState, count, meddled, overlooked>>

\* The parent ends an earlier recovery of the device and resets the flag that
\* this request has set (AssemblyBase::checkAndHandleRecovery, see Assembly).
RequestForgotten ==
    /\ health = "NEEDS_RECOVERY" /\ overlooked' = TRUE
    /\ UNCHANGED <<checking, health, fdirState, count, eventQueue, requests, meddled>>

-----------------------------------------------------------------------------

CheckEnds == \E cs \in SUBSET Counters : decrementFaultCounters(cs)
checkForFailures == CheckBegins \/ CheckMessage \/ CheckEnds

Next ==
    \/ \E e \in Faults \cup {"MODE_INFO"} : triggerEvent(e)
    \/ \E h \in HealthStates : SetHealth(h)
    \/ checkForFailures
    \/ \E e \in Faults \cup {"HEALTHY"} : Reported(e)
    \/ \E e \in ToConfirm, verdict \in {"YOUR_FAULT", "MY_FAULT"} : Answered(e, verdict)
    \/ RequestForgotten

Spec == Init /\ [][Next]_vars

\* The task goes on, others do not keep its queue filled for ever, and an
\* assembly ends the recoveries it is asked for and does not forget: its
\* command stays in the queue until the handler has read it.
FairSpec ==
    /\ Spec
    /\ WF_vars(checkForFailures) /\ SF_vars(CheckMessage /\ eventQueue' = <<>>) /\ SF_vars(CheckEnds)
    /\ SF_vars(~overlooked /\ Recovered)

-----------------------------------------------------------------------------
(* Properties *)

Messages == [id : {"EVENT"}, event : Faults \cup {"HEALTHY"}]
            \cup [id : {"YOUR_FAULT", "MY_FAULT"}, event : ToConfirm]

\* Counters stay at or below their thresholds.
TypeOK ==
    /\ checking \in BOOLEAN /\ meddled \in BOOLEAN /\ overlooked \in BOOLEAN
    /\ health \in HealthStates /\ fdirState \in FDIRStates
    /\ \A c \in Counters : count[c] \in 0..Threshold[c]
    /\ eventQueue \in Seq(Messages) /\ Len(eventQueue) <= QueueDepth
    /\ requests \in [ToConfirm -> 0..MaxRequests]

\* FDIR ignores faults for a recovery exactly as long as the owner's health
\* asks the assembly for one, and while it awaits the shutdown the device is
\* faulty, unless somebody else has set the health or an announcement made
\* before the recovery has been read (isFdirInActionOrAreWeFaulty).
RecoveryIsKnown ==
    ~meddled => /\ (fdirState = "RECOVERY_ONGOING") <=> (health = "NEEDS_RECOVERY")
                /\ fdirState = "AWAIT_SHUTDOWN" => health = "FAULTY"

LateConfirmation == checking /\ eventQueue # <<>> /\ Head(eventQueue).id = "YOUR_FAULT"

KeepsTheirHealth ==
    health \in {"EXTERNAL_CONTROL", "FAULTY", "PERMANENT_FAULTY"} /\ health' # health
    => meddled' \/ health' = "HEALTHY" \/ LateConfirmation

\* What others decide about a device stays: of a device that is under external
\* control or faulty FDIR changes the health only when an answer to an earlier
\* confirmation request comes in (eventConfirmed).
OthersDecide == [][KeepsTheirHealth]_vars

\* A recovery ends, and FDIR listens again, although mode messages, faults and
\* answers come in meanwhile, unless the assembly forgets what it was asked
\* for: then nothing but a health command ends it.
RecoveryEnds ==
    (fdirState = "RECOVERY_ONGOING") ~> (fdirState # "RECOVERY_ONGOING" \/ meddled \/ overlooked)

RecoveryStarts == fdirState # "RECOVERY_ONGOING" /\ fdirState' = "RECOVERY_ONGOING"
CalmsDown == count'["recovery"] < count["recovery"] /\ health' # "FAULTY"

\* A device that needs one recovery after the other, with no quiet time between
\* them, is given up (handleRecovery).
GivesUp ==
    <>[][~CalmsDown]_vars /\ []<><<RecoveryStarts>>_vars => []<>(health = "FAULTY")

=============================================================================
