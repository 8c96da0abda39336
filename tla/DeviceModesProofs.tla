-------------------------- MODULE DeviceModesProofs --------------------------
(***************************************************************************)
(* Theorems about DeviceModes.  TLC visits all of its states; the proofs   *)
(* say why the properties hold, and which parts of the state they rest on. *)
(***************************************************************************)
EXTENDS DeviceModes, TLAPS

\* Nobody but the present commander waits, and nobody while the handler rests.
OwedOK == owed \subseteq (IF mode \in Rests THEN {} ELSE {commander})

\* Where the child may fall back to when it does not get to its goal in time.
SourceOK == mode \in ChildModes => transitionSourceMode \in {"SHUT_DOWN", "POWER_DOWN", "ON", "NORMAL", "RAW"}

\* What has been commanded off stays off until the handler is started again.
OffOK == hasSwitches /\ mode \in {"OFF", "WAIT_OFF", "SWITCH_IS_OFF", "ERROR_ON"} => switchCommand = "off"

ModesInv == TypeOK /\ OwedOK /\ SourceOK /\ OffOK /\ ParentKnows /\ PowerFitsMode

-----------------------------------------------------------------------------

LEMMA ModesInitial ==
  ASSUME Init
  PROVE  ModesInv
BY DEF Init, ModesInv, TypeOK, OwedOK, SourceOK, OffOK, ParentKnows, PowerFitsMode,
       Modes, Rests, ChildModes, BaseModes, Queues, Healths

\* setMode, for a commander who is the only one to wait: who is owed an answer
\* gets it when the handler comes to rest, and the parent is told in any case.
LEMMA SetModeKeeps ==
  ASSUME TypeOK, ParentKnows, NEW m \in Modes, NEW q \in Queues \cup {"none"}, NEW owing \in SUBSET Queues,
         owing \subseteq {q}, setMode(m, q, owing)
  PROVE  /\ mode' = m /\ overdue' = FALSE
         /\ commander' \in Queues \cup {"none"} /\ told' \in [Queues -> Rests \cup {"nothing"}]
         /\ owed' = IF m \in Rests THEN {} ELSE owing
         /\ owed' \subseteq Queues /\ OwedOK' /\ ParentKnows'
<1>1. q \in Queues => q \in Informed(q)
  BY DEF Informed
<1>2. "parent" \in Informed(q) /\ "parent" \in Queues
  BY DEF Informed, Queues
<1>3. CASE m \in Rests
  <2>1. told' = [r \in Queues |-> IF r \in Informed(q) THEN m ELSE told[r]] /\ commander' = "none"
        /\ owed' = owing \ Informed(q) /\ mode' = m /\ overdue' = FALSE
    BY <1>3 DEF setMode, modeChanged
  <2>2. owed' = {}
    BY <1>1, <2>1
  <2>3. told' \in [Queues -> Rests \cup {"nothing"}] /\ told'["parent"] = m
    BY <1>2, <1>3, <2>1 DEF TypeOK
  <2>4. QED
    BY <1>3, <2>1, <2>2, <2>3 DEF OwedOK, ParentKnows
<1>4. CASE m \notin Rests
  BY <1>4 DEF setMode, OwedOK, ParentKnows, TypeOK
<1>5. QED
  BY <1>3, <1>4

\* The same for a change of mode that nobody has commanded just now.
LEMMA ChangeModeKeeps ==
  ASSUME ModesInv, mode \notin Rests, NEW m \in Modes, ChangeMode(m)
  PROVE  /\ mode' = m /\ overdue' = FALSE
         /\ commander' \in Queues \cup {"none"} /\ told' \in [Queues -> Rests \cup {"nothing"}]
         /\ owed' = (IF m \in Rests THEN {} ELSE owed)
         /\ owed' \subseteq Queues /\ OwedOK' /\ ParentKnows'
BY SetModeKeeps DEF ModesInv, TypeOK, OwedOK, ChangeMode

-----------------------------------------------------------------------------

LEMMA ModeCommandKeeps ==
  ASSUME ModesInv, NEW q \in Queues, NEW m \in Commandable, ModeCommand(q, m),
         phase' = "doStateMachine"
  PROVE  ModesInv'
<1>1. mode \in Rests /\ (mode = "ERROR_ON" => m = "OFF") /\ (m = "NORMAL" => mode # "OFF")
  BY DEF ModeCommand, checkModeCommand
<1>2. FirstMode(m) \in {"POWER_ON", "TO_ON", "POWER_DOWN", "SHUT_DOWN", "RAW", "TO_RAW", "TO_NORMAL"}
      /\ (FirstMode(m) = "RAW" => mode = "OFF" /\ m = "RAW")
      /\ (FirstMode(m) \in ChildModes => mode # "OFF")
  BY <1>1 DEF FirstMode, Commandable, ChildModes
<1>3. owed \cup {q} = {q} /\ {q} \in SUBSET Queues /\ FirstMode(m) \in Modes
  BY <1>1, <1>2 DEF ModesInv, OwedOK, Modes, Rests, ChildModes, BaseModes
<1>4. setMode(FirstMode(m), q, owed \cup {q})
  BY DEF ModeCommand, startTransition
<1>5. /\ mode' = FirstMode(m) /\ overdue' = FALSE
      /\ commander' \in Queues \cup {"none"} /\ told' \in [Queues -> Rests \cup {"nothing"}]
      /\ owed' \subseteq Queues /\ OwedOK' /\ ParentKnows'
  BY <1>3, <1>4, SetModeKeeps DEF ModesInv
<1>6. /\ transitionSourceMode' \in Modes
      /\ mode # "OFF" => transitionSourceMode' \in {"POWER_DOWN", "ON", "NORMAL", "RAW"}
  <2>1. transitionSourceMode' = FallBack(m)
    BY DEF ModeCommand, startTransition
  <2>2. QED
    BY <1>1, <2>1 DEF FallBack, ModesInv, TypeOK, Modes, Rests, BaseModes, Commandable
<1>7. TypeOK'
  BY <1>3, <1>5, <1>6 DEF ModesInv, TypeOK, ModeCommand, startTransition, powerVars, powerConfig, Healths
<1>8. SourceOK'
  BY <1>2, <1>5, <1>6 DEF SourceOK
<1>9. OffOK' /\ PowerFitsMode'
  BY <1>1, <1>2, <1>5 DEF ModesInv, TypeOK, OffOK, PowerFitsMode, ModeCommand, startTransition, powerVars, powerConfig, Rests, ChildModes
<1>10. QED
  BY <1>5, <1>7, <1>8, <1>9 DEF ModesInv

\* Steps that leave the mode alone.
LEMMA KeepModeKeeps ==
  ASSUME ModesInv, UNCHANGED <<mode, helperVars, transitionSourceMode, switchSkipped, powerConfig, switchCommand>>,
         overdue' \in BOOLEAN, health' \in Healths, switchOffWasReported' \in BOOLEAN,
         phase' \in {"readCommandQueue", "doStateMachine", "checkSwitchState", "parseReply"},
         switchState' \in {"on", "off"}
  PROVE  ModesInv'
BY DEF ModesInv, TypeOK, OwedOK, SourceOK, OffOK, ParentKnows, PowerFitsMode, helperVars, powerConfig

LEMMA ReadCommandQueueKeeps ==
  ASSUME ModesInv, readCommandQueue
  PROVE  ModesInv'
<1>1. CASE \E q \in Queues, m \in Commandable : ModeCommand(q, m)
  BY <1>1, ModeCommandKeeps DEF readCommandQueue
<1>2. CASE (\E h \in Healths : SetHealth(h)) \/ NothingForModes
  BY <1>2, KeepModeKeeps DEF readCommandQueue, SetHealth, NothingForModes, KeepMode, powerVars, powerConfig, ModesInv, TypeOK
<1>3. QED
  BY <1>1, <1>2 DEF readCommandQueue

\* Steps of doStateMachine that change the mode, without the switches.
LEMMA MovedKeeps ==
  ASSUME ModesInv, mode \notin Rests, NEW m \in Modes, ChangeMode(m),
         m \in ChildModes => transitionSourceMode' \in {"SHUT_DOWN", "POWER_DOWN", "ON", "NORMAL", "RAW"},
         hasSwitches /\ m \in {"OFF", "WAIT_OFF", "SWITCH_IS_OFF", "ERROR_ON"} => switchCommand = "off",
         hasSwitches /\ ~switchSkipped /\ m \in ChildModes \cup {"ON", "NORMAL", "RAW", "WAIT_ON"}
             => switchCommand = "on",
         transitionSourceMode' \in Modes, UNCHANGED <<switchSkipped, powerVars, health, switchOffWasReported>>,
         phase' \in {"readCommandQueue", "checkSwitchState"}
  PROVE  ModesInv'
<1>1. /\ mode' = m /\ overdue' = FALSE
      /\ commander' \in Queues \cup {"none"} /\ told' \in [Queues -> Rests \cup {"nothing"}]
      /\ owed' \subseteq Queues /\ OwedOK' /\ ParentKnows'
  BY ChangeModeKeeps
<1>2. TypeOK'
  BY <1>1 DEF ModesInv, TypeOK, powerVars, powerConfig
<1>3. SourceOK' /\ OffOK' /\ PowerFitsMode'
  BY <1>1 DEF SourceOK, OffOK, PowerFitsMode, powerVars, powerConfig
<1>4. QED
  BY <1>1, <1>2, <1>3 DEF ModesInv

LEMMA ChildMovesOnKeeps ==
  ASSUME ModesInv, ChildMovesOn, UNCHANGED <<health, switchOffWasReported>>,
         phase' \in {"readCommandQueue", "checkSwitchState"}
  PROVE  ModesInv'
<1>1. PICK m \in ChildMoves(mode) : ChangeMode(m)
  BY DEF ChildMovesOn
<1>2. m \in {"ON", "TO_ON", "POWER_DOWN", "NORMAL", "RAW"} /\ m \in Modes
  BY DEF ChildMovesOn, ChildMoves, ChildModes, Modes, Rests, BaseModes
<1>3. QED
  BY <1>1, <1>2, MovedKeeps
     DEF ChildMovesOn, ModesInv, TypeOK, SourceOK, PowerFitsMode, KeepSource, NoPower, ChildModes, Rests

LEMMA TimedOutKeeps ==
  ASSUME ModesInv, ChildTimesOut \/ WaitOnTimesOut \/ WaitOffTimesOut,
         UNCHANGED <<health, switchOffWasReported>>, phase' = "checkSwitchState"
  PROVE  ModesInv'
<1>1. CASE ChildTimesOut
  BY <1>1, MovedKeeps
     DEF ChildTimesOut, ModesInv, TypeOK, SourceOK, PowerFitsMode, KeepSource, NoPower, ChildModes, Rests
<1>2. CASE WaitOnTimesOut
  <2>1. "POWER_DOWN" \in Modes
    BY DEF Modes, BaseModes
  <2>2. QED
    BY <1>2, <2>1, MovedKeeps DEF WaitOnTimesOut, ModesInv, TypeOK, KeepSource, NoPower, ChildModes, Rests
<1>3. CASE WaitOffTimesOut
  <2>1. "ERROR_ON" \in Modes
    BY DEF Modes, Rests
  <2>2. QED
    BY <1>3, <2>1, MovedKeeps DEF WaitOffTimesOut, ModesInv, TypeOK, OffOK, KeepSource, NoPower, ChildModes, Rests
<1>4. QED
  BY <1>1, <1>2, <1>3

LEMMA StartUpKeeps ==
  ASSUME ModesInv, StartUp, UNCHANGED <<health, switchOffWasReported>>, phase' = "checkSwitchState"
  PROVE  ModesInv'
<1>1. PICK m \in {"START_UP"} \cup ChildMoves("START_UP") : ChangeMode(m)
  BY DEF StartUp
<1>2. m \in {"START_UP", "ON", "TO_ON", "POWER_DOWN"} /\ m \in Modes /\ "SHUT_DOWN" \in Modes
  BY DEF ChildMoves, ChildModes, Modes, Rests, BaseModes
<1>3. QED
  BY <1>1, <1>2, MovedKeeps DEF StartUp, ModesInv, TypeOK, PowerFitsMode, NoPower, ChildModes, Rests

LEMMA SwitchedOffKeeps ==
  ASSUME ModesInv, WaitOffWithoutSwitcher \/ SwitchIsOff \/ TurnsOff,
         UNCHANGED <<health, switchOffWasReported>>, phase' = "checkSwitchState"
  PROVE  ModesInv'
<1>1. "OFF" \in Modes /\ "SWITCH_IS_OFF" \in Modes
  BY DEF Modes, Rests, BaseModes
<1>2. CASE SwitchIsOff
  BY <1>1, <1>2, MovedKeeps DEF SwitchIsOff, ModesInv, TypeOK, OffOK, KeepSource, NoPower, ChildModes, Rests
<1>3. CASE WaitOffWithoutSwitcher \/ TurnsOff
  BY <1>1, <1>3, MovedKeeps
     DEF WaitOffWithoutSwitcher, TurnsOff, ModesInv, TypeOK, OffOK, KeepSource, NoPower, ChildModes, Rests
<1>4. QED
  BY <1>2, <1>3

LEMMA SwitchingKeeps ==
  ASSUME ModesInv, PowerOn \/ PowerDown, UNCHANGED <<health, switchOffWasReported>>, phase' = "checkSwitchState"
  PROVE  ModesInv'
<1>1. PICK m \in {"WAIT_ON", "WAIT_OFF"} :
         /\ ChangeMode(m) /\ switchSkipped' = FALSE /\ mode \in {"POWER_ON", "POWER_DOWN"}
         /\ switchCommand' = IF hasSwitches THEN (IF m = "WAIT_ON" THEN "on" ELSE "off") ELSE switchCommand
         /\ UNCHANGED <<transitionSourceMode, powerConfig, switchState>>
  BY DEF PowerOn, PowerDown
<1>2. m \in Modes /\ m \notin ChildModes /\ mode \notin Rests
  BY <1>1 DEF Modes, BaseModes, ChildModes, Rests
<1>3. /\ mode' = m /\ overdue' = FALSE
      /\ commander' \in Queues \cup {"none"} /\ told' \in [Queues -> Rests \cup {"nothing"}]
      /\ owed' \subseteq Queues /\ OwedOK' /\ ParentKnows'
  BY <1>1, <1>2, ChangeModeKeeps
<1>4. TypeOK'
  BY <1>1, <1>2, <1>3 DEF ModesInv, TypeOK, powerConfig
<1>5. SourceOK' /\ OffOK' /\ PowerFitsMode'
  BY <1>1, <1>2, <1>3 DEF SourceOK, OffOK, PowerFitsMode, powerConfig
<1>6. QED
  BY <1>3, <1>4, <1>5 DEF ModesInv

LEMMA StateMachineKeeps ==
  ASSUME ModesInv, doStateMachine
  PROVE  ModesInv'
<1>1. CASE Waits
  BY <1>1, KeepModeKeeps DEF doStateMachine, Waits, KeepMode, KeepSource, NoPower, powerVars, powerConfig, ModesInv, TypeOK
<1>2. QED
  BY <1>1, ChildMovesOnKeeps, TimedOutKeeps, StartUpKeeps, SwitchedOffKeeps, SwitchingKeeps DEF doStateMachine

LEMMA ModesStep ==
  ASSUME ModesInv, [Next]_vars
  PROVE  ModesInv'
<1>1. CASE checkSwitchState
  BY <1>1, KeepModeKeeps
     DEF checkSwitchState, KeepMode, KeepSource, NoPower, powerVars, powerConfig, ModesInv, TypeOK
<1>2. CASE parseReply
  <2>1. CASE ChildMovesOn
    BY <1>2, <2>1, ChildMovesOnKeeps DEF parseReply
  <2>2. CASE KeepMode /\ KeepSource /\ NoPower
    BY <1>2, <2>2, KeepModeKeeps DEF parseReply, KeepMode, KeepSource, NoPower, powerVars, powerConfig, ModesInv, TypeOK
  <2>3. QED
    BY <1>2, <2>1, <2>2 DEF parseReply
<1>3. CASE TimePasses \/ SwitchMoves
  BY <1>3, KeepModeKeeps DEF TimePasses, SwitchMoves, taskVars, powerVars, powerConfig, ModesInv, TypeOK
<1>4. CASE UNCHANGED vars
  BY <1>4, KeepModeKeeps DEF vars, taskVars, powerVars, powerConfig, ModesInv, TypeOK
<1>5. QED
  BY <1>1, <1>2, <1>3, <1>4, ReadCommandQueueKeeps, StateMachineKeeps DEF Next, Cycle

LEMMA ModesInvariant == Spec => []ModesInv
BY ModesInitial, ModesStep, PTL DEF Spec

-----------------------------------------------------------------------------
(* The refinement of HasModes *)

Shown == IF mode \in Rests THEN mode ELSE "moving"

\* A change of mode while the handler is on its way: it stays on its way, and
\* nothing is answered, or it comes to rest and every answer is given.
LEMMA ChangeIsAllowed ==
  ASSUME ModesInv, mode \notin Rests, NEW m \in Modes, ChangeMode(m)
  PROVE  HM!Settle \/ UNCHANGED <<Shown, owed>>
<1>1. mode' = m /\ owed' = (IF m \in Rests THEN {} ELSE owed)
  BY ChangeModeKeeps
<1>2. QED
  BY <1>1 DEF HM!Settle, Shown

\* A command that is taken sets the handler in motion, or is carried out at once.
LEMMA CommandIsAllowed ==
  ASSUME ModesInv, NEW q \in Queues, NEW m \in Commandable, ModeCommand(q, m)
  PROVE  (\E r \in Queues : HM!Take(r)) \/ HM!Jump
<1>1. mode \in Rests /\ owed = {}
  BY DEF ModeCommand, checkModeCommand, ModesInv, OwedOK
<1>2. FirstMode(m) \in Modes
  BY <1>1 DEF FirstMode, Commandable, Modes, Rests, ChildModes, BaseModes
<1>3. setMode(FirstMode(m), q, {q}) /\ {q} \in SUBSET Queues /\ q \in Queues \cup {"none"}
  BY <1>1 DEF ModeCommand, startTransition
<1>4. mode' = FirstMode(m) /\ owed' = IF FirstMode(m) \in Rests THEN {} ELSE {q}
  BY <1>2, <1>3, SetModeKeeps DEF ModesInv
<1>5. CASE FirstMode(m) \in Rests
  BY <1>1, <1>4, <1>5 DEF HM!Jump
<1>6. CASE FirstMode(m) \notin Rests
  BY <1>1, <1>4, <1>6 DEF HM!Take
<1>7. QED
  BY <1>5, <1>6

\* What doStateMachine and the child do to the mode.
LEMMA MachineIsAllowed ==
  ASSUME ModesInv, doStateMachine \/ parseReply
  PROVE  HM!Settle \/ UNCHANGED <<Shown, owed>>
<1>1. CASE UNCHANGED <<mode, owed>>
  BY <1>1 DEF Shown
<1>2. CASE mode \notin Rests /\ \E m \in Modes : ChangeMode(m)
  BY <1>2, ChangeIsAllowed
<1>3. CASE ChildMovesOn
  <2>1. ChildMoves(mode) \subseteq Modes /\ mode \notin Rests
    BY <1>3 DEF ChildMovesOn, ChildMoves, ChildModes, Modes, Rests, BaseModes
  <2>2. QED
    BY <1>2, <1>3, <2>1 DEF ChildMovesOn
<1>4. CASE StartUp
  <2>1. {"START_UP"} \cup ChildMoves("START_UP") \subseteq Modes /\ mode \notin Rests
    BY <1>4 DEF StartUp, ChildMoves, ChildModes, Modes, Rests, BaseModes
  <2>2. QED
    BY <1>2, <1>4, <2>1 DEF StartUp
<1>5. CASE ChildTimesOut
  BY <1>2, <1>5 DEF ChildTimesOut, ChildModes, Rests, ModesInv, TypeOK
<1>6. CASE PowerOn \/ PowerDown \/ WaitOnTimesOut
  BY <1>2, <1>6 DEF PowerOn, PowerDown, WaitOnTimesOut, Modes, Rests, BaseModes
<1>7. CASE WaitOffWithoutSwitcher \/ WaitOffTimesOut \/ SwitchIsOff \/ TurnsOff
  BY <1>2, <1>7 DEF WaitOffWithoutSwitcher, WaitOffTimesOut, SwitchIsOff, TurnsOff, Modes, Rests, BaseModes
<1>8. CASE KeepMode
  BY <1>1, <1>8 DEF KeepMode, helperVars
<1>9. QED
  BY <1>3, <1>4, <1>5, <1>6, <1>7, <1>8 DEF doStateMachine, parseReply, Waits

LEMMA StepIsAllowed ==
  ASSUME ModesInv, [Next]_vars
  PROVE  [HM!Next]_<<Shown, owed>>
<1>1. CASE \E q \in Queues, m \in Commandable : ModeCommand(q, m)
  BY <1>1, CommandIsAllowed DEF HM!Next
<1>2. CASE doStateMachine \/ parseReply
  BY <1>2, MachineIsAllowed DEF HM!Next
<1>3. CASE UNCHANGED <<mode, owed>>
  BY <1>3 DEF Shown
<1>4. QED
  BY <1>1, <1>2, <1>3
     DEF Next, Cycle, readCommandQueue, SetHealth, NothingForModes, checkSwitchState, KeepMode, helperVars,
         TimePasses, SwitchMoves, vars

-----------------------------------------------------------------------------

\* The parent of a handler at rest knows its mode, whoever commanded it and
\* however it got there (ModeHelper::modeChanged).
THEOREM ParentAlwaysKnows == Spec => []ParentKnows
BY ModesInvariant, PTL DEF ModesInv

\* On every way through doStateMachine, with timeouts, a tripping switch and any
\* child, the switches are commanded off before OFF is shown, and on before
\* the device is worked with, but for the two short cuts of startTransition.
THEOREM PowerAlwaysFits == Spec => []PowerFitsMode
BY ModesInvariant, PTL DEF ModesInv

\* The mode machine keeps the promise of HasModesIF: a command that is taken
\* is answered exactly when the handler next rests.
THEOREM HandlerHasModes == Spec => ImplementsHasModes
<1>1. Init => HM!Init
  BY DEF Init, HM!Init, Rests
<1>2. ModesInv /\ [Next]_vars => [HM!Next]_<<Shown, owed>>
  BY StepIsAllowed
<1>3. QED
  BY <1>1, <1>2, ModesInvariant, PTL DEF Spec, ImplementsHasModes, HM!Spec, Shown

=============================================================================
