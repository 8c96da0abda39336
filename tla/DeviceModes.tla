----------------------------- MODULE DeviceModes -----------------------------
(***************************************************************************)
(* The mode machine of DeviceHandlerBase with its ModeHelper: a device is  *)
(* switched on, started up, moved between its modes, shut down and         *)
(* switched off, each stage with a time limit.                             *)
(*                                                                         *)
(* The handler is one periodic task.  In each cycle it reads at most one   *)
(* message, runs doStateMachine and checkSwitchState, and talks to the     *)
(* device; `phase' says where it is.  The switch and the clock are others' *)
(* business and move at any time.  What the child class does in doStartUp, *)
(* doShutDown and doTransition is a free choice among what                 *)
(* DeviceHandlerBase.h allows, doing nothing included.  The handler has no *)
(* thermal set, and the only submode is SUBMODE_NONE, as                   *)
(* isModeCombinationValid asks for.                                        *)
(***************************************************************************)
EXTENDS Naturals

VARIABLES
    mode,
    transitionSourceMode,
    overdue,                \* timeoutStart lies as far back as the limit that applies
    commander,              \* theOneWhoCommandedAMode
    health,
    switchOffWasReported,
    phase,
    powerSwitcher,          \* configuration: a power switcher is set
    hasSwitches,            \* configuration: and getSwitches names switches of it
    switchCommand,          \* the last switch command sent
    switchState,            \* what the power switcher reports
    told,                   \* the last mode each queue was told
    owed,                   \* commanders whose command was taken and not answered
    switchSkipped           \* RAW was entered from OFF, or ERROR_ON was left, and the
                            \* switch was not commanded since

taskVars == <<phase, switchOffWasReported>>
helperVars == <<commander, told, owed>>
powerConfig == <<powerSwitcher, hasSwitches>>
powerVars == <<powerConfig, switchCommand, switchState>>
vars == <<mode, transitionSourceMode, overdue, health, taskVars, helperVars, powerVars,
          switchSkipped>>

Rests == {"OFF", "ON", "NORMAL", "RAW", "ERROR_ON"}
ChildModes == {"START_UP", "SHUT_DOWN", "TO_ON", "TO_NORMAL", "TO_RAW"}
BaseModes == {"POWER_DOWN", "POWER_ON", "WAIT_OFF", "WAIT_ON", "SWITCH_IS_OFF"}
Modes == Rests \cup ChildModes \cup BaseModes
Queues == {"parent", "ground"}
Healths == {"HEALTHY", "FAULTY", "EXTERNAL_CONTROL", "NEEDS_RECOVERY"}

\* setStartUpImmediately has the handler leave OFF before its first cycle.
Init ==
    /\ mode \in {"OFF", "POWER_ON"} /\ transitionSourceMode = "POWER_DOWN"
    /\ overdue = FALSE /\ health = "HEALTHY"
    /\ commander = "none" /\ told = [q \in Queues |-> "nothing"] /\ owed = {}
    /\ phase = "readCommandQueue" /\ switchOffWasReported = FALSE
    /\ powerSwitcher \in BOOLEAN /\ hasSwitches \in {FALSE, powerSwitcher}
    /\ switchCommand = "off" /\ switchState = "off"
    /\ switchSkipped = FALSE

-----------------------------------------------------------------------------
(* ModeHelper and setMode.  `q' is theOneWhoCommandedAMode at the time.      *)

\* Slip: the parent is informed of changes nobody commanded, and of no others.
SlipInformed(q) == { r \in Queues : r = q \/ (r = "parent" /\ q = "none") }

\* The commander gets the reply, the parent the info unless it commanded.
Informed(q) == { r \in Queues : r = q \/ (r = "parent" /\ q # "parent") }

modeChanged(m, q) ==
    /\ told' = [r \in Queues |-> IF r \in Informed(q) THEN m ELSE told[r]]
    /\ commander' = "none"

setMode(m, q, owing) ==
    /\ mode' = m
    /\ overdue' = FALSE
    /\ IF m \in Rests THEN modeChanged(m, q) /\ owed' = owing \ Informed(q)
       ELSE commander' = q /\ owed' = owing /\ UNCHANGED told

ChangeMode(m) == setMode(m, commander, owed)
KeepMode == UNCHANGED <<mode, overdue, helperVars>>

-----------------------------------------------------------------------------
(* Mode commands *)

Commandable == {"OFF", "ON", "NORMAL", "RAW"}

\* Slip: a handler in transition takes commands.
SlipCheckModeCommand(m) ==
    /\ mode = "ERROR_ON" => m = "OFF"
    /\ m = "NORMAL" => mode # "OFF"

checkModeCommand(m) ==
    /\ mode \in Rests
    /\ mode = "ERROR_ON" => m = "OFF"
    /\ m = "NORMAL" => mode # "OFF"

\* The transitional mode a commanded mode begins with.
FirstMode(m) ==
    CASE m = "ON" -> IF mode = "OFF" THEN "POWER_ON" ELSE "TO_ON"
      [] m = "OFF" -> IF mode = "OFF" THEN "POWER_DOWN" ELSE "SHUT_DOWN"
      [] m = "RAW" -> IF mode = "OFF" THEN "RAW" ELSE "TO_RAW"
      [] m = "NORMAL" -> "TO_NORMAL"

\* The mode to fall back to when the child does not get there in time.
FallBack(m) ==
    CASE mode = "OFF" /\ m = "ON" -> "POWER_DOWN"
      [] mode = "OFF" /\ m # "ON" -> transitionSourceMode
      [] mode # "OFF" /\ m = "OFF" -> "POWER_DOWN"
      [] OTHER -> mode

startTransition(m, q) ==
    /\ setMode(FirstMode(m), q, owed \cup {q})
    /\ transitionSourceMode' = FallBack(m)
    /\ switchSkipped' = (switchSkipped \/ mode = "ERROR_ON" \/ (mode = "OFF" /\ m = "RAW"))

\* A command from anyone but the parent puts the device under external control.
ModeCommand(q, m) ==
    /\ checkModeCommand(m)
    /\ startTransition(m, q)
    /\ health' = IF q = "parent" THEN health ELSE "EXTERNAL_CONTROL"
    /\ UNCHANGED <<switchOffWasReported, powerVars>>

SetHealth(h) ==
    /\ health' = h
    /\ KeepMode /\ UNCHANGED <<transitionSourceMode, switchOffWasReported, powerVars, switchSkipped>>

\* No message, one that is refused, or one that has nothing to do with modes.
NothingForModes ==
    /\ KeepMode
    /\ UNCHANGED <<transitionSourceMode, health, switchOffWasReported, powerVars, switchSkipped>>

readCommandQueue ==
    /\ phase = "readCommandQueue" /\ phase' = "doStateMachine"
    /\ \/ \E q \in Queues, m \in Commandable : ModeCommand(q, m)
       \/ \E h \in Healths : SetHealth(h)
       \/ NothingForModes

-----------------------------------------------------------------------------
(* The child class.  A handler that gives up a transition for another one    *)
(* moves towards ON, so that it does not reconfigure for ever.               *)

ChildMoves(m) ==
    CASE m = "START_UP" -> {"ON", "TO_ON", "POWER_DOWN"}
      [] m = "SHUT_DOWN" -> {"POWER_DOWN", "TO_ON", "ON"}
      [] m = "TO_ON" -> {"ON"}
      [] m = "TO_NORMAL" -> {"NORMAL", "ON", "TO_ON"}
      [] m = "TO_RAW" -> {"RAW", "ON", "TO_ON"}

-----------------------------------------------------------------------------
(* doStateMachine *)

NoPower == UNCHANGED powerVars
KeepSource == UNCHANGED <<transitionSourceMode, switchSkipped>>

ChildMovesOn ==
    /\ mode \in ChildModes
    /\ \E m \in ChildMoves(mode) : ChangeMode(m)
    /\ KeepSource /\ NoPower

ChildTimesOut ==
    /\ mode \in ChildModes /\ overdue
    /\ ChangeMode(transitionSourceMode)
    /\ KeepSource /\ NoPower

PowerOn ==
    /\ mode = "POWER_ON"
    /\ switchCommand' = IF hasSwitches THEN "on" ELSE switchCommand
    /\ ChangeMode("WAIT_ON") /\ switchSkipped' = FALSE
    /\ UNCHANGED <<transitionSourceMode, powerConfig, switchState>>

PowerDown ==
    /\ mode = "POWER_DOWN"
    /\ switchCommand' = IF hasSwitches THEN "off" ELSE switchCommand
    /\ ChangeMode("WAIT_OFF") /\ switchSkipped' = FALSE
    /\ UNCHANGED <<transitionSourceMode, powerConfig, switchState>>

SwitchedOn == hasSwitches => switchState = "on"

\* Slip: the wait is given up without switching off.
SlipWaitOnTimesOut ==
    /\ mode = "WAIT_ON" /\ powerSwitcher /\ overdue
    /\ ChangeMode("OFF")
    /\ KeepSource /\ NoPower

WaitOnTimesOut ==
    /\ mode = "WAIT_ON" /\ powerSwitcher /\ overdue
    /\ ChangeMode("POWER_DOWN")
    /\ KeepSource /\ NoPower

\* doStartUp is called in the same cycle.
StartUp ==
    /\ mode = "WAIT_ON" /\ ~(powerSwitcher /\ overdue) /\ SwitchedOn
    /\ transitionSourceMode' = "SHUT_DOWN"
    /\ \E m \in {"START_UP"} \cup ChildMoves("START_UP") : ChangeMode(m)
    /\ NoPower /\ UNCHANGED switchSkipped

WaitOffWithoutSwitcher ==
    /\ mode = "WAIT_OFF" /\ ~powerSwitcher
    /\ ChangeMode("OFF")
    /\ KeepSource /\ NoPower

\* Slip: the switch is commanded again.
SlipWaitOffTimesOut ==
    /\ mode = "WAIT_OFF" /\ powerSwitcher /\ overdue
    /\ ChangeMode("POWER_DOWN")
    /\ KeepSource /\ NoPower

WaitOffTimesOut ==
    /\ mode = "WAIT_OFF" /\ powerSwitcher /\ overdue
    /\ ChangeMode("ERROR_ON")
    /\ KeepSource /\ NoPower

SwitchIsOff ==
    /\ mode = "WAIT_OFF" /\ powerSwitcher /\ ~overdue /\ (hasSwitches => switchState = "off")
    /\ ChangeMode("SWITCH_IS_OFF")
    /\ KeepSource /\ NoPower

TurnsOff ==
    /\ mode = "SWITCH_IS_OFF"
    /\ ChangeMode("OFF")
    /\ KeepSource /\ NoPower

\* Nothing to do in a mode of rest, nothing come true in a waiting one.
Waits ==
    /\ \/ mode \in Rests
       \/ mode \in ChildModes /\ ~overdue
       \/ mode = "WAIT_ON" /\ hasSwitches /\ ~overdue /\ switchState = "off"
       \/ mode = "WAIT_OFF" /\ hasSwitches /\ ~overdue /\ switchState = "on"
    /\ KeepMode /\ KeepSource /\ NoPower

doStateMachine ==
    /\ phase = "doStateMachine" /\ phase' = "checkSwitchState"
    /\ \/ ChildMovesOn \/ ChildTimesOut \/ PowerOn \/ PowerDown
       \/ WaitOnTimesOut \/ StartUp
       \/ WaitOffWithoutSwitcher \/ WaitOffTimesOut \/ SwitchIsOff \/ TurnsOff
       \/ Waits
    /\ UNCHANGED <<health, switchOffWasReported>>

checkSwitchState ==
    /\ phase = "checkSwitchState" /\ phase' = "parseReply"
    /\ switchOffWasReported' = (mode \in {"ON", "NORMAL"}
                                   /\ (switchOffWasReported \/ ~SwitchedOn))
    /\ KeepMode /\ KeepSource /\ NoPower /\ UNCHANGED health

\* A reply of the device may let the child finish its transition.
parseReply ==
    /\ phase = "parseReply" /\ phase' = "readCommandQueue"
    /\ \/ ChildMovesOn
       \/ KeepMode /\ KeepSource /\ NoPower
    /\ UNCHANGED <<health, switchOffWasReported>>

Cycle == readCommandQueue \/ doStateMachine \/ checkSwitchState \/ parseReply

-----------------------------------------------------------------------------
(* The surroundings *)

TimePasses ==
    /\ mode \in ChildModes \cup {"WAIT_ON", "WAIT_OFF"} /\ ~overdue
    /\ overdue' = TRUE
    /\ UNCHANGED <<mode, transitionSourceMode, health, taskVars, helperVars, powerVars,
                   switchSkipped>>

\* The switch follows its last command, or trips.
SwitchMoves ==
    /\ switchState' \in {switchCommand, "off"} /\ switchState' # switchState
    /\ UNCHANGED <<mode, transitionSourceMode, overdue, health, taskVars, helperVars,
                   powerConfig, switchCommand, switchSkipped>>

Next == Cycle \/ TimePasses \/ SwitchMoves

Spec == Init /\ [][Next]_vars

\* The task runs every period, and time goes on; neither the switch, nor the
\* child, nor anyone who might send a message has to do anything.
FairSpec == Spec /\ WF_vars(Cycle) /\ WF_vars(TimePasses)

-----------------------------------------------------------------------------
(* Properties *)

TypeOK ==
    /\ mode \in Modes /\ transitionSourceMode \in Modes /\ overdue \in BOOLEAN
    /\ commander \in Queues \cup {"none"} /\ health \in Healths
    /\ told \in [Queues -> Rests \cup {"nothing"}] /\ owed \subseteq Queues
    /\ phase \in {"readCommandQueue", "doStateMachine", "checkSwitchState", "parseReply"}
    /\ switchOffWasReported \in BOOLEAN /\ switchSkipped \in BOOLEAN
    /\ powerSwitcher \in BOOLEAN /\ hasSwitches \in {FALSE, powerSwitcher}
    /\ {switchCommand, switchState} \subseteq {"on", "off"}

\* While the handler rests, the parent knows the mode it rests in, whoever
\* commanded it there and whether or not it is the one that was commanded
\* (sendModeReplyMessage, sendModeInfoMessage).
ParentKnows == mode \in Rests => told["parent"] \in {"nothing", mode}

\* The power agrees with the mode: a handler that shows OFF has commanded the
\* switches off after it last commanded them on, on every way out of a failed or
\* interrupted start, and one that works with its device has switched it on,
\* except after two short cuts: startTransition enters RAW from OFF without the
\* switch, and a child may refuse to shut down a device that is in ERROR_ON.
PowerFitsMode ==
    hasSwitches =>
        /\ mode = "OFF" => switchCommand = "off"
        /\ ~switchSkipped /\ mode \in ChildModes \cup {"ON", "NORMAL", "RAW", "WAIT_ON"}
              => switchCommand = "on"

\* Every command taken is answered once, when the handler next rests; see
\* HasModes.
HM == INSTANCE HasModes WITH
          Moving <- "moving", Commanders <- Queues,
          shown <- IF mode \in Rests THEN mode ELSE "moving"

ImplementsHasModes == HM!Spec

\* The start-up timed out: a SHUT_DOWN entered this way has itself to fall
\* back to, and a child that does nothing keeps the handler in it.
FailedStartUp == mode = "SHUT_DOWN" /\ transitionSourceMode = "SHUT_DOWN"

\* Every transition comes to rest whatever the switch and the child do, unless
\* the shut down after a failed start-up is never finished by the child.
TransitionsEnd == (mode \notin Rests) ~> (mode \in Rests \/ FailedStartUp)

=============================================================================
