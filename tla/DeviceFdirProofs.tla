-------------------------- MODULE DeviceFdirProofs --------------------------
(***************************************************************************)
(* Theorems about DeviceFdir, for all thresholds, queues and numbers of    *)
(* confirmation requests.                                                  *)
(***************************************************************************)
EXTENDS DeviceFdir, SequenceTheorems, TLAPS

\* What the reactions change: the state of FDIR, its counters and the health.
ReactionOK ==
    /\ meddled \in BOOLEAN /\ overlooked \in BOOLEAN /\ health \in HealthStates /\ fdirState \in FDIRStates
    /\ count \in [Counters -> Nat] /\ \A c \in Counters : count[c] <= Threshold[c]
    /\ RecoveryIsKnown

RequestsOK == requests \in [ToConfirm -> 0..MaxRequests]

QueueOK == eventQueue \in Seq(Messages) /\ Len(eventQueue) <= QueueDepth

FdirInv == ReactionOK /\ RequestsOK /\ QueueOK /\ checking \in BOOLEAN

reactionVars == <<health, fdirState, count, meddled, overlooked>>

-----------------------------------------------------------------------------

\* The parts of the invariant together give the type invariant.
LEMMA InvImpliesType ==
  ASSUME FdirInv
  PROVE  TypeOK
BY FdirAssumption DEF FdirInv, ReactionOK, RequestsOK, QueueOK, TypeOK, Counters

LEMMA ThresholdsAreNumbers == \A c \in Counters : Threshold[c] \in Nat
BY FdirAssumption

LEMMA ReactionUnchanged ==
  ASSUME ReactionOK, UNCHANGED reactionVars
  PROVE  ReactionOK'
BY DEF ReactionOK, RecoveryIsKnown, reactionVars

\* A recovery is started or the device given up; the counters stay in range.
LEMMA RecoveryKeeps ==
  ASSUME ReactionOK, handleRecovery
  PROVE  ReactionOK'
<1>1. /\ meddled' = FALSE /\ overlooked' = FALSE
      /\ \/ health' = "NEEDS_RECOVERY" /\ fdirState' = "RECOVERY_ONGOING"
         \/ health' = "FAULTY" /\ fdirState' = "AWAIT_SHUTDOWN"
  BY DEF handleRecovery, startRecovery, setFaulty
<1>2. /\ clearFaultCounters \in [Counters -> Nat]
      /\ \A c \in Counters : clearFaultCounters[c] <= Threshold[c]
  BY ThresholdsAreNumbers DEF ReactionOK, clearFaultCounters
<1>3. "recovery" \in Counters
  BY DEF Counters
<1>4. \/ /\ ~(clearFaultCounters["recovery"] + 1 > Threshold["recovery"])
         /\ count' = [clearFaultCounters EXCEPT !["recovery"] = @ + 1]
      \/ count' = [clearFaultCounters EXCEPT !["recovery"] = 0]
  BY DEF handleRecovery, AboveThreshold
<1>5. count' \in [Counters -> Nat]
  BY <1>2, <1>3, <1>4
<1>6. \A c \in Counters : count'[c] <= Threshold[c]
  BY <1>2, <1>3, <1>4, ThresholdsAreNumbers
<1>7. QED
  BY <1>1, <1>5, <1>6 DEF ReactionOK, RecoveryIsKnown, HealthStates, FDIRStates

LEMMA CountingKeeps ==
  ASSUME ReactionOK, NEW c \in Counters, incrementAndCheck(c)
  PROVE  ReactionOK'
<1>1. CASE handleRecovery
  BY <1>1, RecoveryKeeps
<1>2. CASE /\ ~AboveThreshold(count, c)
           /\ count' = [count EXCEPT ![c] = @ + 1]
           /\ UNCHANGED <<health, fdirState, meddled, overlooked>>
  <2>1. count' \in [Counters -> Nat]
    BY <1>2 DEF ReactionOK
  <2>2. \A d \in Counters : count'[d] <= Threshold[d]
    BY <1>2, ThresholdsAreNumbers DEF ReactionOK, AboveThreshold
  <2>3. QED
    BY <1>2, <2>1, <2>2 DEF ReactionOK, RecoveryIsKnown
<1>3. QED
  BY <1>1, <1>2 DEF incrementAndCheck

\* Whatever event comes in, the reaction to it keeps the invariant.
LEMMA EventKeeps ==
  ASSUME ReactionOK, RequestsOK, NEW e, eventReceived(e)
  PROVE  ReactionOK' /\ RequestsOK'
<1>1. CASE fdirState # "NONE" /\ Wakes(e) /\ WaitsNoMore(e)
  <2>1. RequestsOK'
    BY <1>1 DEF RequestsOK, WaitsNoMore
  <2>2. e = "HEALTHY" \/ fdirState # "RECOVERY_ONGOING"
    BY <1>1 DEF Wakes
  <2>3. QED
    BY <1>1, <2>1, <2>2 DEF WaitsNoMore, ReactionOK, RecoveryIsKnown, FDIRStates
<1>2. CASE NoReaction
  BY <1>2, ReactionUnchanged DEF NoReaction, RequestsOK, reactionVars
<1>3. CASE fdirState = "NONE" /\ HandlesFault(e)
  <2>1. CASE (handleRecovery \/ incrementAndCheck("strange") \/ incrementAndCheck("missed"))
             /\ UNCHANGED requests
    BY <2>1, RecoveryKeeps, CountingKeeps DEF RequestsOK, Counters
  <2>2. CASE /\ e \in ToConfirm /\ sendConfirmationRequest(e)
             /\ fdirState' \in {"NONE", "DEVICE_MIGHT_BE_OFF"}
             /\ UNCHANGED <<health, count, meddled, overlooked>>
    <3>1. RequestsOK'
      BY <2>2, FdirAssumption DEF sendConfirmationRequest, RequestsOK
    <3>2. QED
      BY <1>3, <2>2, <3>1 DEF ReactionOK, RecoveryIsKnown, FDIRStates
  <2>3. CASE setFaulty /\ UNCHANGED <<count, requests>>
    BY <2>3 DEF setFaulty, ReactionOK, RecoveryIsKnown, RequestsOK, HealthStates, FDIRStates
  <2>4. QED
    BY <1>2, <1>3, <2>1, <2>2, <2>3 DEF HandlesFault, CannotAsk, ToConfirm
<1>4. QED
  BY <1>1, <1>2, <1>3 DEF eventReceived

\* A message that finds room in the queue is one of those FDIR expects.
LEMMA DeliverKeeps ==
  ASSUME QueueOK, NEW m \in Messages, Deliver(m)
  PROVE  QueueOK'
<1>1. Append(eventQueue, m) \in Seq(Messages) /\ Len(Append(eventQueue, m)) = Len(eventQueue) + 1
  BY DEF QueueOK
<1>2. Len(eventQueue) \in Nat
  BY DEF QueueOK
<1>3. QED
  BY <1>1, <1>2, FdirAssumption DEF QueueOK, Deliver

LEMMA TailKeeps ==
  ASSUME QueueOK, eventQueue # <<>>, eventQueue' = Tail(eventQueue)
  PROVE  QueueOK' /\ Head(eventQueue) \in Messages
BY FdirAssumption DEF QueueOK

-----------------------------------------------------------------------------

LEMMA CheckMessageKeeps ==
  ASSUME FdirInv, CheckMessage
  PROVE  FdirInv'
<1>1. QueueOK' /\ checking' \in BOOLEAN
  BY TailKeeps DEF FdirInv, CheckMessage
<1>2. ReactionOK' /\ RequestsOK'
  <2>1. CASE NoReaction
    BY <2>1, ReactionUnchanged DEF FdirInv, NoReaction, RequestsOK, reactionVars
  <2>2. CASE eventReceived(Head(eventQueue).event)
    BY <2>2, EventKeeps DEF FdirInv
  <2>3. CASE eventConfirmed(Head(eventQueue).event) /\ UNCHANGED requests
    BY <2>3, RecoveryKeeps, CountingKeeps DEF FdirInv, eventConfirmed, RequestsOK, Counters
  <2>4. QED
    BY <2>1, <2>2, <2>3 DEF CheckMessage
<1>3. QED
  BY <1>1, <1>2 DEF FdirInv

LEMMA CheckEndsKeeps ==
  ASSUME FdirInv, CheckEnds
  PROVE  FdirInv'
<1>1. PICK cs \in SUBSET Counters : decrementFaultCounters(cs)
  BY DEF CheckEnds
<1>2. count' \in [Counters -> Nat] /\ \A c \in Counters : count'[c] <= Threshold[c]
  BY <1>1, FdirAssumption DEF decrementFaultCounters, FdirInv, ReactionOK
<1>3. ReactionOK'
  BY <1>1, <1>2 DEF decrementFaultCounters, FdirInv, ReactionOK, RecoveryIsKnown
<1>4. QED
  BY <1>1, <1>3 DEF decrementFaultCounters, FdirInv, QueueOK, RequestsOK

LEMMA SetHealthKeeps ==
  ASSUME FdirInv, NEW h \in HealthStates, SetHealth(h)
  PROVE  FdirInv'
<1>1. ReactionOK'
  BY DEF FdirInv, SetHealth, Wakes, ReactionOK, RecoveryIsKnown, FDIRStates, HealthStates
<1>2. QED
  BY <1>1 DEF FdirInv, SetHealth, QueueOK, RequestsOK

LEMMA OthersKeep ==
  ASSUME FdirInv,
         \/ \E e \in Faults \cup {"HEALTHY"} : Reported(e)
         \/ \E e \in ToConfirm, verdict \in {"YOUR_FAULT", "MY_FAULT"} : Answered(e, verdict)
  PROVE  FdirInv'
<1>1. CASE \E e \in Faults \cup {"HEALTHY"} : Reported(e)
  <2>1. PICK e \in Faults \cup {"HEALTHY"} : Reported(e)
    BY <1>1
  <2>2. [id |-> "EVENT", event |-> e] \in Messages
    BY DEF Messages
  <2>3. QueueOK'
    BY <2>1, <2>2, DeliverKeeps DEF FdirInv, Reported
  <2>4. QED
    BY <2>1, <2>3, ReactionUnchanged DEF FdirInv, Reported, RequestsOK, reactionVars
<1>2. CASE \E e \in ToConfirm, verdict \in {"YOUR_FAULT", "MY_FAULT"} : Answered(e, verdict)
  <2>1. PICK e \in ToConfirm, verdict \in {"YOUR_FAULT", "MY_FAULT"} : Answered(e, verdict)
    BY <1>2
  <2>2. [id |-> verdict, event |-> e] \in Messages
    BY DEF Messages
  <2>3. QueueOK'
    BY <2>1, <2>2, DeliverKeeps DEF FdirInv, Answered
  <2>4. RequestsOK'
    BY <2>1, FdirAssumption DEF FdirInv, Answered, RequestsOK
  <2>5. QED
    BY <2>1, <2>3, <2>4, ReactionUnchanged DEF FdirInv, Answered, reactionVars
<1>3. QED
  BY <1>1, <1>2

LEMMA FdirInitial ==
  ASSUME Init
  PROVE  FdirInv
<1>1. ReactionOK
  <2>1. count \in [Counters -> Nat] /\ \A c \in Counters : count[c] = 0
    BY DEF Init
  <2>2. \A c \in Counters : count[c] <= Threshold[c]
    BY <2>1, ThresholdsAreNumbers
  <2>3. QED
    BY <2>1, <2>2 DEF Init, ReactionOK, RecoveryIsKnown, HealthStates, FDIRStates
<1>2. RequestsOK /\ QueueOK
  BY FdirAssumption DEF Init, RequestsOK, QueueOK
<1>3. QED
  BY <1>1, <1>2 DEF Init, FdirInv

LEMMA FdirStep ==
  ASSUME FdirInv, [Next]_vars
  PROVE  FdirInv'
<1>1. CASE \E e \in Faults \cup {"MODE_INFO"} : triggerEvent(e)
  BY <1>1, EventKeeps DEF triggerEvent, FdirInv, QueueOK
<1>2. CASE \E h \in HealthStates : SetHealth(h)
  BY <1>2, SetHealthKeeps
<1>3. CASE CheckBegins
  BY <1>3, ReactionUnchanged DEF CheckBegins, FdirInv, QueueOK, RequestsOK, reactionVars
<1>4. CASE CheckMessage
  BY <1>4, CheckMessageKeeps
<1>5. CASE CheckEnds
  BY <1>5, CheckEndsKeeps
<1>6. CASE \/ \E e \in Faults \cup {"HEALTHY"} : Reported(e)
           \/ \E e \in ToConfirm, verdict \in {"YOUR_FAULT", "MY_FAULT"} : Answered(e, verdict)
  BY <1>6, OthersKeep
<1>7. CASE UNCHANGED vars
  BY <1>7, ReactionUnchanged DEF vars, FdirInv, QueueOK, RequestsOK, reactionVars
<1>8. CASE RequestForgotten
  BY <1>8 DEF RequestForgotten, FdirInv, ReactionOK, RecoveryIsKnown, QueueOK, RequestsOK
<1>9. QED
  BY <1>1, <1>2, <1>3, <1>4, <1>5, <1>6, <1>7, <1>8 DEF Next, checkForFailures

\* The invariant holds throughout.
LEMMA FdirInvariant == Spec => []FdirInv
<1>1. Init => FdirInv
  BY FdirInitial
<1>2. FdirInv /\ [Next]_vars => FdirInv'
  BY FdirStep
<1>3. QED
  BY <1>1, <1>2, PTL DEF Spec

\* Type correctness of the failure isolation, with counters that never exceed
\* their thresholds (FaultCounter).
THEOREM FdirTypeCorrect == Spec => []TypeOK
<1>1. FdirInv => TypeOK
  BY InvImpliesType
<1>2. QED
  BY <1>1, FdirInvariant, PTL

\* FDIR's state and the owner's health agree on recoveries and shutdowns
\* (startRecovery, setFaulty, isFdirInActionOrAreWeFaulty), whatever the
\* thresholds and however many messages are under way.
THEOREM RecoveryAlwaysKnown == Spec => []RecoveryIsKnown
<1>1. FdirInv => RecoveryIsKnown
  BY DEF FdirInv, ReactionOK
<1>2. QED
  BY <1>1, FdirInvariant, PTL

-----------------------------------------------------------------------------

\* An event changes no health that FDIR is not to touch.
LEMMA EventLeavesHealth ==
  ASSUME NEW e, eventReceived(e), ~isFdirDisabledForSeverity(e),
         health \in {"EXTERNAL_CONTROL", "FAULTY", "PERMANENT_FAULTY"}
  PROVE  health' = health
<1>1. CASE fdirState # "NONE" \/ IgnoresAll \/ e \in Infos
  BY <1>1 DEF eventReceived, WaitsNoMore, NoReaction, HandlesFault, Infos
<1>2. CASE health = "EXTERNAL_CONTROL" /\ e \notin Faults /\ e \notin Infos
  BY <1>2 DEF eventReceived, WaitsNoMore, NoReaction, HandlesFault, Faults, ToConfirm
<1>3. QED
  BY <1>1, <1>2 DEF IgnoresAll, isFdirDisabledForSeverity

\* Of a device that others have put under external control or that is faulty,
\* FDIR changes the health only for a late confirmation (eventConfirmed).
THEOREM OthersAlwaysDecide == Spec => OthersDecide
<1>1. ASSUME FdirInv, [Next]_vars
      PROVE  [KeepsTheirHealth]_vars
  <2>1. SUFFICES ASSUME health \in {"EXTERNAL_CONTROL", "FAULTY", "PERMANENT_FAULTY"},
                        health' # health
                 PROVE  meddled' \/ health' = "HEALTHY" \/ LateConfirmation
    BY DEF KeepsTheirHealth
  <2>2. CASE \E e \in Faults \cup {"MODE_INFO"} : triggerEvent(e)
    BY <2>1, <2>2, EventLeavesHealth DEF triggerEvent
  <2>3. CASE \E h \in HealthStates : SetHealth(h)
    BY <2>3 DEF SetHealth
  <2>4. CASE CheckMessage
    <3>1. CASE Head(eventQueue).id = "YOUR_FAULT"
      BY <2>4, <3>1 DEF CheckMessage, LateConfirmation
    <3>2. CASE Head(eventQueue).id # "YOUR_FAULT"
      BY <2>1, <2>4, <3>2, EventLeavesHealth DEF CheckMessage, NoReaction
    <3>3. QED
      BY <3>1, <3>2
  <2>5. CASE CheckBegins \/ CheckEnds
    BY <2>1, <2>5 DEF CheckBegins, CheckEnds, decrementFaultCounters
  <2>6. CASE \/ \E e \in Faults \cup {"HEALTHY"} : Reported(e)
             \/ \E e \in ToConfirm, verdict \in {"YOUR_FAULT", "MY_FAULT"} : Answered(e, verdict)
    BY <2>1, <2>6 DEF Reported, Answered
  <2>7. CASE RequestForgotten \/ UNCHANGED vars
    BY <2>1, <2>7 DEF RequestForgotten, vars
  <2>8. QED
    BY <1>1, <2>2, <2>3, <2>4, <2>5, <2>6, <2>7 DEF Next, checkForFailures
<1>2. QED
  BY <1>1, FdirInvariant, PTL DEF Spec, OthersDecide

=============================================================================
