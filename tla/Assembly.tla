------------------------------- MODULE Assembly -------------------------------
(***************************************************************************)
(* AssemblyBase on SubsystemBase and ModeHelper: redundant devices are     *)
(* commanded to the mode of the assembly, their answers are counted, and   *)
(* changes of their modes and healths lead to new transitions, to a        *)
(* recovery of a device or to OFF.                                         *)
(*                                                                         *)
(* performOperation handles the messages in the queue and then calls       *)
(* performChildOperation, which here is enabled when no message is left.   *)
(* Messages of one child stay in order; those of different children come   *)
(* in any order.  Devices answer every mode command in the end, and reject *)
(* one that comes while they change their mode (see DeviceModes).          *)
(***************************************************************************)
EXTENDS Integers, Sequences, FiniteSets

CONSTANTS
    Children, None,
    Enough,         \* devices the child class wants to be on in MODE_ON
    InboxDepth,     \* command queue of a device
    Commands,       \* the mode commands the assembly gets, forced or not
    MaxCommands, MaxEvents,     \* mode commands; things that happen to the devices
    MaxInputs                   \* both together

ASSUME AssemblyAssumption ==
    /\ IsFiniteSet(Children) /\ None \notin Children
    /\ Enough \in 1..Cardinality(Children) /\ InboxDepth \in Nat \ {0}
    /\ Commands \subseteq {"OFF", "ON"} \X BOOLEAN
    /\ MaxCommands \in Nat /\ MaxEvents \in Nat /\ MaxInputs \in Nat

VARIABLES
    mode,
    problems,                   \* CHILD_PROBLEMS: the last OFF was accepted all the same
    targetMode, internalState,
    recoveryState, recoveringDevice,            \* None when idle
    commandsOutstanding,
    childMode, healthChanged,                   \* childrenMap
    childrenChangedMode,
    forced,                     \* ModeHelper
    theOneWhoCommandedAMode,    \* the number of the command taken last, 0 when answered
    waiting, displaced,         \* commands taken without an answer; those no longer in it
    health,                     \* HealthTable
    device, going,              \* the modes of the devices, and where they are going
    inbox, outbox,              \* messages to and from the devices
    commands, events,           \* how many there have been
    overlooked                  \* devices whose flag was reset with a change to see
                                \* to, or which could not be told of their recovery

modeVars == <<mode, problems>>
commanderVars == <<theOneWhoCommandedAMode, waiting, displaced>>
asmVars == <<modeVars, targetMode, internalState, recoveryState, recoveringDevice,
             commandsOutstanding, childMode, healthChanged, childrenChangedMode, forced,
             commanderVars, overlooked>>
recoveryVars == <<recoveryState, recoveringDevice, healthChanged, overlooked>>
deviceVars == <<health, device, going, outbox>>
vars == <<asmVars, deviceVars, inbox, commands, events>>

Modes == {"OFF", "ON"}
InternalStates == {"NONE", "OVERWRITE_HEALTH", "NEED_SECOND_STEP", "SINGLE_STEP", "SECOND_STEP"}
RecoveryStates == {"IDLE", "STARTED", "WAIT", "ONGOING", "ONGOING_2"}
HealthStates == {"HEALTHY", "FAULTY", "EXTERNAL_CONTROL", "NEEDS_RECOVERY"}

Init ==
    /\ mode = "OFF" /\ problems = FALSE /\ targetMode = "OFF" /\ internalState = "NONE"
    /\ recoveryState = "IDLE" /\ recoveringDevice = None
    /\ commandsOutstanding = 0 /\ childrenChangedMode = FALSE
    /\ childMode = [c \in Children |-> "UNKNOWN"] /\ healthChanged = {}
    /\ forced = FALSE /\ theOneWhoCommandedAMode = 0 /\ waiting = {} /\ displaced = {}
    /\ health = [c \in Children |-> "HEALTHY"]
    /\ device = [c \in Children |-> "OFF"] /\ going = [c \in Children |-> None]
    /\ inbox = [c \in Children |-> <<>>] /\ outbox = [c \in Children |-> <<>>]
    /\ commands = 0 /\ events = 0 /\ overlooked = {}

\* One more command, or one more event
Another == commands + events < MaxInputs

isInTransition == internalState # "NONE" \/ recoveryState # "IDLE"
isFaulty(c) == health[c] \in {"FAULTY", "NEEDS_RECOVERY"}
isCommandable(c) == health[c] # "EXTERNAL_CONTROL"

-----------------------------------------------------------------------------
(* Commands to the devices *)

Outstanding(sent) == Cardinality(sent)

executeTable(table, isForced) ==
    LET command == [c \in Children |-> IF isFaulty(c) THEN "OFF" ELSE table[c]]
        sent == { c \in Children : /\ isFaulty(c) \/ isForced \/ isCommandable(c)
                                   /\ isForced \/ childMode[c] # command[c]
                                   /\ Len(inbox[c]) < InboxDepth }
    IN  /\ inbox' = [c \in Children |-> IF c \in sent THEN Append(inbox[c], command[c]) ELSE inbox[c]]
        /\ commandsOutstanding' = Outstanding(sent)

\* A health command; not counted when it cannot be sent.
sendHealthCommand(c, h) ==
    IF Len(inbox[c]) < InboxDepth
    THEN /\ inbox' = [inbox EXCEPT ![c] = Append(@, h)]
         /\ commandsOutstanding' = commandsOutstanding + 1
    ELSE UNCHANGED <<inbox, commandsOutstanding>>

\* commandChildren and overwriteDeviceHealth as a child class uses them: it
\* prefers healthy devices, may want a second step, and may take a faulty
\* device into use when there are too few.
Available == { c \in Children : health[c] = "HEALTHY" }
Choices == { s \in SUBSET Children : /\ Cardinality(s) = Enough
                                     /\ Cardinality(Available) >= Enough => s \subseteq Available }

commandChildren(m, isForced, step) ==
    \/ /\ m = "OFF"
       /\ executeTable([c \in Children |-> "OFF"], isForced)
       /\ internalState' = step /\ forced' = isForced
    \/ /\ m = "ON"
       /\ \E s \in Choices : executeTable([c \in Children |-> IF c \in s THEN "ON" ELSE "OFF"], isForced)
       /\ internalState' \in IF step = "SECOND_STEP" THEN {step} ELSE {step, "NEED_SECOND_STEP"}
       /\ forced' = isForced
    \/ /\ m = "ON" /\ Cardinality(Available) < Enough
       /\ \E c \in Children : health[c] = "FAULTY" /\ sendHealthCommand(c, "EXTERNAL_CONTROL")
       /\ internalState' = "OVERWRITE_HEALTH" /\ forced' = TRUE

doStartTransition(m, isForced) ==
    /\ targetMode' = m
    /\ commandChildren(m, isForced, "SINGLE_STEP")

-----------------------------------------------------------------------------
(* Messages: ModeHelper, handleModeReply, handleHealthReply *)

\* Every command has a commander of its own, known by its number.  One that is
\* taken before the last has been answered takes the place of its commander.
Commanded(n) ==
    /\ theOneWhoCommandedAMode' = n
    /\ waiting' = waiting \cup {n}
    /\ displaced' = displaced \cup ({theOneWhoCommandedAMode} \ {0})

\* ModeHelper::modeChanged tells the commander.
CommanderAnswered ==
    /\ theOneWhoCommandedAMode' = 0
    /\ waiting' = waiting \ {theOneWhoCommandedAMode}
    /\ UNCHANGED displaced

\* A command that is rejected leaves the forced flag behind.
ModeCommand(m, isForced) ==
    /\ Another /\ commands < MaxCommands /\ commands' = commands + 1
    /\ \/ /\ m # "OFF" /\ internalState # "NONE"
          /\ forced' = (forced \/ isForced)
          /\ UNCHANGED <<targetMode, internalState, commandsOutstanding, inbox, commanderVars>>
       \/ /\ m = "OFF" \/ internalState = "NONE"
          /\ Commanded(commands')
          /\ doStartTransition(m, forced \/ isForced)
    /\ UNCHANGED <<modeVars, recoveryVars, childMode, childrenChangedMode, deviceVars, events>>

\* Slip: the news is kept, and not acted on.
SlipUpdateChildMode(c, m) ==
    /\ childMode' = [childMode EXCEPT ![c] = m]
    /\ UNCHANGED childrenChangedMode

updateChildMode(c, m) ==
    /\ childMode' = [childMode EXCEPT ![c] = m]
    /\ childrenChangedMode' = TRUE

ModeReply(c, m) ==
    /\ updateChildMode(c, m.mode)
    /\ commandsOutstanding' = commandsOutstanding - (IF m.type = "MODE_REPLY" THEN 1 ELSE 0)
    /\ UNCHANGED healthChanged

CantReachMode ==
    /\ commandsOutstanding' = commandsOutstanding - 1
    /\ UNCHANGED <<childMode, childrenChangedMode, healthChanged>>

\* Slip: the answer of a device that was set HEALTHY is not counted.
SlipHealthReply == UNCHANGED <<commandsOutstanding, childMode, childrenChangedMode, healthChanged>>

HealthReply ==
    /\ commandsOutstanding' = commandsOutstanding - (IF isInTransition THEN 1 ELSE 0)
    /\ UNCHANGED <<childMode, childrenChangedMode, healthChanged>>

HealthInfo(c, m) ==
    /\ healthChanged' = IF m.health = "EXTERNAL_CONTROL" THEN healthChanged ELSE healthChanged \cup {c}
    /\ UNCHANGED <<childMode, childrenChangedMode, commandsOutstanding>>

checkCommandQueue(c) ==
    /\ outbox[c] # <<>>
    /\ outbox' = [outbox EXCEPT ![c] = Tail(@)]
    /\ LET m == Head(outbox[c]) IN
       \/ m.type \in {"MODE_REPLY", "MODE_INFO"} /\ ModeReply(c, m)
       \/ m.type = "CANT_REACH_MODE" /\ CantReachMode
       \/ m.type = "HEALTH_SET" /\ HealthReply
       \/ m.type = "HEALTH_INFO" /\ HealthInfo(c, m)
    /\ UNCHANGED <<modeVars, targetMode, internalState, recoveryState, recoveringDevice, forced,
                   commanderVars, overlooked, health, device, going, inbox, commands, events>>

-----------------------------------------------------------------------------
(* performChildOperation *)

checkChildOff(c) == isCommandable(c) => childMode[c] = "OFF"

\* checkChildrenStateOn is the child class's.
checkChildrenState ==
    IF targetMode = "OFF" THEN \A c \in Children : checkChildOff(c)
    ELSE Cardinality({ c \in Children : childMode[c] = "ON" }) >= Enough

\* setMode: the commander is answered.
setMode ==
    /\ internalState' = "NONE" /\ mode' = targetMode /\ problems' = ~checkChildrenState
    /\ forced' = FALSE /\ CommanderAnswered
    /\ UNCHANGED <<targetMode, commandsOutstanding, inbox>>

Transition(m) == doStartTransition(m, forced) /\ UNCHANGED <<modeVars, commanderVars>>

RecoveryDone == recoveryState' = "IDLE" /\ recoveringDevice' = None

handleChildrenChangedHealth(c) ==
    /\ c \in healthChanged /\ healthChanged' = healthChanged \ {c}
    /\ \/ /\ health[c] = "NEEDS_RECOVERY"
          /\ recoveryState' = "STARTED" /\ recoveringDevice' = c
          /\ Transition(targetMode)
       \/ /\ health[c] # "NEEDS_RECOVERY"
          /\ Transition(mode)
          /\ RecoveryDone
    /\ UNCHANGED overlooked

NothingToDo == UNCHANGED <<modeVars, targetMode, internalState, commandsOutstanding, inbox, forced, commanderVars>>

handleChildrenChanged ==
    \/ /\ childrenChangedMode /\ checkChildrenState
       /\ NothingToDo /\ UNCHANGED recoveryVars
    \/ /\ childrenChangedMode /\ ~checkChildrenState
       /\ Transition("OFF") /\ UNCHANGED recoveryVars
    \/ /\ ~childrenChangedMode
       /\ \E c \in healthChanged : handleChildrenChangedHealth(c)
    \/ /\ ~childrenChangedMode /\ healthChanged = {}
       /\ NothingToDo /\ UNCHANGED recoveryVars

\* STATE_NEED_SECOND_STEP, and STATE_OVERWRITE_HEALTH, which goes on with the
\* mode the assembly has, not with the one it is to reach.
NextStep ==
    /\ \/ /\ internalState = "NEED_SECOND_STEP"
          /\ commandChildren(targetMode, forced, "SECOND_STEP")
       \/ /\ internalState = "OVERWRITE_HEALTH"
          /\ commandChildren(mode, forced, "SINGLE_STEP")
    /\ UNCHANGED <<modeVars, targetMode, commanderVars, recoveryVars>>

\* Slip: the recovery is over when the device has been told.
SlipRecoveryWait ==
    /\ recoveryState = "WAIT" /\ internalState' = "NONE"
    /\ sendHealthCommand(recoveringDevice, "HEALTHY")
    /\ overlooked' = overlooked \cup { c \in {recoveringDevice} : inbox' = inbox }
    /\ RecoveryDone
    /\ UNCHANGED <<modeVars, targetMode, forced, commanderVars, healthChanged>>

\* recoveryOffTimer has timed out.
RecoveryWait ==
    /\ recoveryState = "WAIT" /\ recoveryState' = "ONGOING"
    /\ internalState' = "NONE"
    /\ sendHealthCommand(recoveringDevice, "HEALTHY")
    /\ overlooked' = overlooked \cup { c \in {recoveringDevice} : inbox' = inbox }
    /\ UNCHANGED <<modeVars, targetMode, forced, commanderVars, recoveringDevice, healthChanged>>

\* Slip: the flags of all devices are reset.
SlipRecoveryOngoing ==
    /\ recoveryState = "ONGOING" /\ recoveryState' = "ONGOING_2"
    /\ healthChanged' = {}
    /\ overlooked' = overlooked \cup { c \in healthChanged \ Available : c = recoveringDevice }
    /\ Transition(targetMode)
    /\ UNCHANGED <<recoveringDevice>>

\* The flag may stand for a later change than the one to HEALTHY.
RecoveryOngoing ==
    /\ recoveryState = "ONGOING" /\ recoveryState' = "ONGOING_2"
    /\ healthChanged' = healthChanged \ {recoveringDevice}
    /\ overlooked' = overlooked \cup { c \in healthChanged \ Available : c = recoveringDevice }
    /\ Transition(targetMode)
    /\ UNCHANGED <<recoveringDevice>>

checkAndHandleRecovery ==
    \/ /\ recoveryState = "STARTED" /\ recoveryState' = "WAIT"
       /\ NothingToDo /\ UNCHANGED <<recoveringDevice, healthChanged, overlooked>>
    \/ /\ recoveryState = "WAIT"     \* recoveryOffTimer is busy
       /\ NothingToDo /\ UNCHANGED recoveryVars
    \/ RecoveryWait
    \/ RecoveryOngoing

\* handleModeReached and handleModeTransitionFailed, at the end of a recovery
\* or without one
Verdict ==
    /\ recoveryState \in {"IDLE", "ONGOING_2"}
    /\ \/ /\ checkChildrenState \/ targetMode = "OFF"
          /\ setMode
          /\ RecoveryDone /\ UNCHANGED <<healthChanged, overlooked>>
       \/ /\ ~checkChildrenState /\ targetMode # "OFF" /\ healthChanged = {}
          /\ Transition("OFF")
          /\ RecoveryDone /\ UNCHANGED <<healthChanged, overlooked>>
       \/ /\ ~checkChildrenState /\ targetMode # "OFF"
          /\ \E c \in healthChanged : handleChildrenChangedHealth(c)

handleChildrenTransition ==
    \/ commandsOutstanding > 0 /\ NothingToDo /\ UNCHANGED recoveryVars
    \/ commandsOutstanding <= 0 /\ NextStep
    \/ /\ commandsOutstanding <= 0 /\ internalState \in {"NONE", "SINGLE_STEP", "SECOND_STEP"}
       /\ checkAndHandleRecovery \/ Verdict

performChildOperation ==
    /\ \A c \in Children : outbox[c] = <<>>
    /\ \/ isInTransition /\ handleChildrenTransition
       \/ ~isInTransition /\ handleChildrenChanged
    /\ childrenChangedMode' = FALSE
    /\ UNCHANGED <<childMode, deviceVars, commands, events>>

-----------------------------------------------------------------------------
(* Devices *)

Tell(c, ms) == outbox' = [outbox EXCEPT ![c] = @ \o ms]

Told(c, h) == IF h = health[c] THEN <<>> ELSE <<[type |-> "HEALTH_INFO", health |-> h]>>

DeviceObeys(c) ==
    /\ inbox[c] # <<>> /\ inbox' = [inbox EXCEPT ![c] = Tail(@)]
    /\ LET m == Head(inbox[c]) IN
       \/ /\ m \in Modes /\ going[c] = None
          /\ going' = [going EXCEPT ![c] = m]
          /\ UNCHANGED <<health, outbox>>
       \/ /\ m \in Modes /\ going[c] # None
          /\ Tell(c, <<[type |-> "CANT_REACH_MODE"]>>)
          /\ UNCHANGED <<health, going>>
       \/ /\ m \in HealthStates
          /\ health' = [health EXCEPT ![c] = m]
          /\ Tell(c, Append(Told(c, m), [type |-> "HEALTH_SET"]))
          /\ UNCHANGED going
    /\ UNCHANGED <<asmVars, device, commands, events>>

\* A device that does not come up ends in OFF.
DeviceArrives(c) ==
    /\ going[c] # None /\ going' = [going EXCEPT ![c] = None]
    /\ \E m \in {going[c], "OFF"} :
          /\ device' = [device EXCEPT ![c] = m]
          /\ Tell(c, <<[type |-> "MODE_REPLY", mode |-> m]>>)
    /\ UNCHANGED <<asmVars, health, inbox, commands, events>>

\* Off by itself, or by somebody else's command, for which it has been taken
\* under external control.
DeviceMoves(c) ==
    /\ Another /\ events < MaxEvents /\ events' = events + 1
    /\ going[c] = None
    /\ \E m \in IF isCommandable(c) THEN {"OFF"} ELSE Modes :
          /\ device' = [device EXCEPT ![c] = m]
          /\ Tell(c, <<[type |-> "MODE_INFO", mode |-> m]>>)
    /\ UNCHANGED <<asmVars, health, going, inbox, commands>>

\* By the device's FDIR, or by a command.
HealthChanges(c, h) ==
    /\ Another /\ events < MaxEvents /\ events' = events + 1
    /\ h # health[c] /\ health' = [health EXCEPT ![c] = h]
    /\ Tell(c, Told(c, h))
    /\ UNCHANGED <<asmVars, device, going, inbox, commands>>

-----------------------------------------------------------------------------

Next ==
    \/ \E cmd \in Commands : ModeCommand(cmd[1], cmd[2])
    \/ performChildOperation
    \/ \E c \in Children : checkCommandQueue(c) \/ DeviceObeys(c) \/ DeviceArrives(c) \/ DeviceMoves(c)
    \/ \E c \in Children, h \in HealthStates : HealthChanges(c, h)

Spec == Init /\ [][Next]_vars

\* The assembly's task goes on until the timer is out, and devices obey and arrive.
FairSpec ==
    /\ Spec
    /\ WF_vars(performChildOperation) 
    /\ \A c \in Children : WF_vars(checkCommandQueue(c)) /\ WF_vars(DeviceObeys(c)) /\ WF_vars(DeviceArrives(c))

-----------------------------------------------------------------------------
(* Properties *)

MaxOutstanding == Cardinality(Children) + 1

TypeOK ==
    /\ mode \in Modes /\ problems \in BOOLEAN /\ targetMode \in Modes /\ internalState \in InternalStates
    /\ recoveryState \in RecoveryStates /\ recoveringDevice \in Children \cup {None}
    /\ commandsOutstanding \in Int /\ commandsOutstanding <= MaxOutstanding
    /\ childMode \in [Children -> Modes \cup {"UNKNOWN"}] /\ healthChanged \subseteq Children
    /\ childrenChangedMode \in BOOLEAN /\ forced \in BOOLEAN
    /\ theOneWhoCommandedAMode \in 0..commands /\ waiting \subseteq 1..commands /\ displaced \subseteq 1..commands
    /\ health \in [Children -> HealthStates] /\ overlooked \subseteq Children
    /\ device \in [Children -> Modes] /\ going \in [Children -> Modes \cup {None}]
    /\ \A c \in Children : Len(inbox[c]) <= InboxDepth
    /\ commands \in 0..MaxCommands /\ events \in 0..MaxEvents

\* An assembly at rest has reached what it was last told to, by a command or by
\* itself, and has answered the command it took last, whatever recoveries,
\* second steps and overwritten healths lie between (handleModeReached,
\* setMode).  Commands it took before are answered, too, unless another was
\* taken on the way to their mode: ModeHelper then forgets the first commander,
\* who waits for ever.
RestIsFinal ==
    ~isInTransition => /\ mode = targetMode
                       /\ theOneWhoCommandedAMode = 0
                       /\ waiting \subseteq displaced

AtRest == ~isInTransition /\ ~childrenChangedMode /\ healthChanged = {}
NoNews == \A c \in Children : outbox[c] = <<>>

\* The assembly says ON only with enough devices on, and OFF only with the
\* devices off which it may command or after CHILD_PROBLEMS, but for what it
\* has not been told yet (handleChildrenChanged).
ModeIsBacked ==
    AtRest /\ NoNews =>
        \/ mode = "ON" /\ Cardinality({ c \in Children : device[c] = "ON" }) >= Enough
        \/ mode = "OFF" /\ (problems \/ \A c \in Children : isCommandable(c) => device[c] = "OFF")

\* A transition ends, whatever comes late, fails or is recovered on the way.
TransitionsEnd == isInTransition ~> ~isInTransition

\* The recovery a device asks for takes place, unless its flag was reset by the
\* recovery before (checkAndHandleRecovery).
RecoveryServed ==
    \A c \in Children : (health[c] = "NEEDS_RECOVERY") ~> (health[c] # "NEEDS_RECOVERY" \/ c \in overlooked)

=============================================================================
