------------------------------ MODULE Subsystem ------------------------------
(***************************************************************************)
(* Subsystem on SubsystemBase and ModeHelper: a mode is a sequence of mode *)
(* tables.  The tables are executed one after the other, the answers of    *)
(* the children are counted, the last word has the target table; when it   *)
(* is not reached the subsystem goes back to the mode it had and then, by  *)
(* force, to the fallback of the mode, of the fallback, and so on.         *)
(*                                                                         *)
(* The build has no mode store (FSFW_USE_MODESTORE 0): tables and          *)
(* sequences are those that checkObjectConnections has accepted at the     *)
(* start.  There is one submode.  Messages and performChildOperation are   *)
(* as in Assembly.  Children answer every command in the end; Troubles     *)
(* bounds how often they do not do as they are told.                       *)
(***************************************************************************)
EXTENDS Integers, Sequences, FiniteSets

CONSTANTS
    Children, ChildModes,
    modeSequences,      \* mode |-> [fallback, target, steps]; a step is [table, checkSuccess, waits]
    InitialMode, None,  \* None: targetMode before the first transition, 0 in the code
    InboxDepth,
    MaxCommands, MaxTroubles

Tables == UNION { [cs -> ChildModes] : cs \in SUBSET Children }
Modes == DOMAIN modeSequences

Steps == [table : Tables, checkSuccess : BOOLEAN, waits : BOOLEAN]

\* checkSequence holds for every sequence.  UNKNOWN (-1 in the code) is what the
\* subsystem notes of a child it has not heard of, and in no table.
ASSUME SubsystemAssumption ==
    /\ IsFiniteSet(Children) /\ "OFF" \in ChildModes /\ "UNKNOWN" \notin ChildModes
    /\ InboxDepth \in Nat \ {0} /\ InitialMode \in Modes /\ None \notin Modes
    /\ \A m \in Modes : /\ modeSequences[m].fallback \in Modes /\ modeSequences[m].target \in Tables
                        /\ modeSequences[m].steps \in Seq(Steps)
    /\ MaxCommands \in Nat /\ MaxTroubles \in Nat

VARIABLES
    mode, targetMode, isInTransition,
    currentTargetTable,
    currentSequenceIterator,    \* position in the steps of targetMode; past the end: nullptr
    uptimeStartTable,           \* the step at which the wait began; <<>> when none has
    commandsOutstanding,
    childMode, childrenChangedMode, childrenChangedHealth,
    forced,                     \* ModeHelper
    theOneWhoCommandedAMode,    \* the number of the command taken last, 0 when answered
    waiting, displaced,         \* commands taken without an answer; those no longer in it
    health,                     \* HealthTable
    device,                     \* the modes of the children
    inbox, outbox,              \* messages to and from them
    commands, troubles

commanderVars == <<theOneWhoCommandedAMode, waiting, displaced>>
transitionVars == <<targetMode, isInTransition, currentTargetTable, currentSequenceIterator,
                    uptimeStartTable, commandsOutstanding, inbox, forced>>
subsystemVars == <<mode, transitionVars, childMode, childrenChangedMode, childrenChangedHealth,
                   commanderVars>>
vars == <<subsystemVars, health, device, outbox, commands, troubles>>

\* FAULTY stands for NEEDS_RECOVERY too, of which the subsystem makes no difference.
HealthStates == {"HEALTHY", "FAULTY", "EXTERNAL_CONTROL"}
NoTable == [c \in {} |-> "OFF"]

Init ==
    /\ mode = InitialMode /\ targetMode = None /\ isInTransition = FALSE
    /\ currentTargetTable = NoTable /\ currentSequenceIterator = 1 /\ uptimeStartTable = <<>>
    /\ commandsOutstanding = 0
    /\ childMode = [c \in Children |-> "UNKNOWN"]
    /\ childrenChangedMode = FALSE /\ childrenChangedHealth = FALSE
    /\ forced = FALSE /\ theOneWhoCommandedAMode = 0 /\ waiting = {} /\ displaced = {}
    /\ health = [c \in Children |-> "HEALTHY"] /\ device = [c \in Children |-> "OFF"]
    /\ inbox = [c \in Children |-> <<>>] /\ outbox = [c \in Children |-> <<>>]
    /\ commands = 0 /\ troubles = 0

getFallbackSequence(m) == modeSequences[m].fallback

checkStateAgainstTable(table) == \A c \in DOMAIN table : childMode[c] = table[c]

-----------------------------------------------------------------------------
(* Transitions *)

CommandFor(c, table) == IF health[c] = "FAULTY" THEN "OFF" ELSE table[c]

Outstanding(sent) == Cardinality(sent)

executeTable(table, isForced) ==
    LET sent == { c \in DOMAIN table :
                    /\ isForced \/ health[c] # "EXTERNAL_CONTROL"
                    /\ isForced \/ childMode[c] # CommandFor(c, table)
                    /\ Len(inbox[c]) < InboxDepth }
    IN  /\ inbox' = [c \in Children |-> IF c \in sent THEN Append(inbox[c], CommandFor(c, table)) ELSE inbox[c]]
        /\ commandsOutstanding' = Outstanding(sent)

\* The step at position i of the sequence, if there is one
ExecuteStep(m, i, isForced) ==
    LET steps == modeSequences[m].steps IN
    /\ currentSequenceIterator' = i
    /\ IF i \in DOMAIN steps THEN executeTable(steps[i].table, isForced)
       ELSE UNCHANGED <<inbox, commandsOutstanding>>

\* Forgets the commands that are out, but not the start of a wait.
startTransition(m, isForced) ==
    /\ targetMode' = m /\ isInTransition' = TRUE
    /\ currentTargetTable' = modeSequences[m].target
    /\ forced' = isForced
    /\ currentSequenceIterator' = 1
    /\ IF modeSequences[m].steps = <<>> THEN commandsOutstanding' = 0 /\ UNCHANGED inbox
       ELSE executeTable(modeSequences[m].steps[1].table, isForced)
    /\ UNCHANGED uptimeStartTable

\* Slip: the subsystem tries to go back to the mode it cannot keep.
SlipFallBack == startTransition(mode, TRUE) /\ UNCHANGED mode

\* The mode is set at once, so that the next failure leads on.
FallBack ==
    /\ mode' = getFallbackSequence(mode)
    /\ startTransition(mode', TRUE)

transitionFailed ==
    \/ mode = targetMode /\ FallBack
    \/ mode # targetMode /\ startTransition(mode, forced) /\ UNCHANGED mode

\* ModeHelper::modeChanged tells the commander.
CommanderAnswered ==
    /\ theOneWhoCommandedAMode' = 0
    /\ waiting' = waiting \ {theOneWhoCommandedAMode}
    /\ UNCHANGED displaced

\* setMode: the commander is answered, with REPLY_WRONG_MODE_REPLY if need be.
setMode ==
    /\ mode' = targetMode /\ isInTransition' = FALSE
    /\ forced' = FALSE /\ CommanderAnswered
    /\ UNCHANGED <<targetMode, currentTargetTable, currentSequenceIterator, uptimeStartTable,
                   commandsOutstanding, inbox>>

\* Slip: the last table is the last word.
SlipSequenceDone == currentSequenceIterator > Len(modeSequences[targetMode].steps) /\ setMode

SequenceDone ==
    /\ currentSequenceIterator > Len(modeSequences[targetMode].steps)
    /\ \/ checkStateAgainstTable(currentTargetTable) /\ setMode
       \/ ~checkStateAgainstTable(currentTargetTable) /\ transitionFailed /\ UNCHANGED commanderVars

TableFailed(s) == s.checkSuccess /\ ~checkStateAgainstTable(s.table)

Here == <<targetMode, currentSequenceIterator>>

TableDone(s) ==
    \/ TableFailed(s) /\ transitionFailed
    \/ /\ ~TableFailed(s) /\ s.waits /\ uptimeStartTable = <<>>
       /\ uptimeStartTable' = Here
       /\ UNCHANGED <<mode, targetMode, isInTransition, currentTargetTable, currentSequenceIterator,
                      commandsOutstanding, inbox, forced>>
    \/ /\ ~TableFailed(s) /\ s.waits /\ uptimeStartTable # <<>>       \* wait seconds have not passed
       /\ UNCHANGED <<mode, transitionVars>>
    \/ /\ ~TableFailed(s) /\ (s.waits => uptimeStartTable # <<>>)
       /\ uptimeStartTable' = <<>>
       /\ ExecuteStep(targetMode, currentSequenceIterator + 1, forced)
       /\ UNCHANGED <<mode, targetMode, isInTransition, currentTargetTable, forced>>

Transition ==
    \/ commandsOutstanding > 0 /\ UNCHANGED <<mode, transitionVars, commanderVars>>
    \/ commandsOutstanding <= 0 /\ SequenceDone
    \/ /\ commandsOutstanding <= 0 /\ currentSequenceIterator <= Len(modeSequences[targetMode].steps)
       /\ TableDone(modeSequences[targetMode].steps[currentSequenceIterator])
       /\ UNCHANGED commanderVars

-----------------------------------------------------------------------------
(* At rest *)

ChangedHealth ==
    /\ childrenChangedHealth
    /\ startTransition(mode, forced) /\ UNCHANGED mode

\* cantKeepMode
ChangedMode ==
    /\ ~childrenChangedHealth
    /\ \/ childrenChangedMode /\ ~checkStateAgainstTable(currentTargetTable) /\ FallBack
       \/ childrenChangedMode /\ checkStateAgainstTable(currentTargetTable) /\ UNCHANGED <<mode, transitionVars>>
       \/ ~childrenChangedMode /\ UNCHANGED <<mode, transitionVars>>

performChildOperation ==
    /\ \A c \in Children : outbox[c] = <<>>
    /\ \/ isInTransition /\ Transition /\ UNCHANGED childrenChangedHealth
       \/ /\ ~isInTransition
          /\ ChangedHealth \/ ChangedMode
          /\ childrenChangedHealth' = FALSE /\ UNCHANGED commanderVars
    /\ childrenChangedMode' = FALSE
    /\ UNCHANGED <<childMode, health, device, outbox, commands, troubles>>

-----------------------------------------------------------------------------
(* Messages *)

\* In transition only the fallback of the target is taken.
checkModeCommand(m) == isInTransition => m = getFallbackSequence(targetMode)

\* Every command has a commander of its own, known by its number.  One that is
\* taken before the last has been answered takes the place of its commander.
Commanded(n) ==
    /\ theOneWhoCommandedAMode' = n
    /\ waiting' = waiting \cup {n}
    /\ displaced' = displaced \cup ({theOneWhoCommandedAMode} \ {0})

ModeCommand(m, isForced) ==
    /\ commands < MaxCommands /\ commands' = commands + 1
    /\ \/ /\ ~checkModeCommand(m)
          /\ forced' = (forced \/ isForced)
          /\ UNCHANGED <<targetMode, isInTransition, currentTargetTable, currentSequenceIterator,
                         uptimeStartTable, commandsOutstanding, inbox, commanderVars>>
       \/ /\ checkModeCommand(m)
          /\ startTransition(m, forced \/ isForced) /\ Commanded(commands')
    /\ UNCHANGED <<mode, childMode, childrenChangedMode, childrenChangedHealth, health, device, outbox, troubles>>

\* Slip: what comes in during a transition is no news.
SlipModeReply(c, m) ==
    /\ childMode' = IF isInTransition THEN childMode ELSE [childMode EXCEPT ![c] = m.mode]
    /\ childrenChangedMode' = ~isInTransition
    /\ commandsOutstanding' = commandsOutstanding - (IF m.type = "MODE_INFO" THEN 0 ELSE 1)
    /\ UNCHANGED childrenChangedHealth

ModeReply(c, m) ==
    /\ childMode' = [childMode EXCEPT ![c] = m.mode] /\ childrenChangedMode' = TRUE
    /\ commandsOutstanding' = commandsOutstanding - (IF m.type = "MODE_INFO" THEN 0 ELSE 1)
    /\ UNCHANGED childrenChangedHealth

CantReachMode ==
    /\ commandsOutstanding' = commandsOutstanding - 1
    /\ UNCHANGED <<childMode, childrenChangedMode, childrenChangedHealth>>

HealthInfo(m) ==
    /\ childrenChangedHealth' = (childrenChangedHealth \/ m.health # "EXTERNAL_CONTROL")
    /\ UNCHANGED <<childMode, childrenChangedMode, commandsOutstanding>>

checkCommandQueue(c) ==
    /\ outbox[c] # <<>> /\ outbox' = [outbox EXCEPT ![c] = Tail(@)]
    /\ LET m == Head(outbox[c]) IN
       \/ m.type \in {"MODE_REPLY", "MODE_INFO"} /\ ModeReply(c, m)
       \/ m.type = "CANT_REACH_MODE" /\ CantReachMode
       \/ m.type = "HEALTH_INFO" /\ HealthInfo(m)
    /\ UNCHANGED <<mode, targetMode, isInTransition, currentTargetTable, currentSequenceIterator,
                   uptimeStartTable, inbox, forced, commanderVars, health, device, commands, troubles>>

-----------------------------------------------------------------------------
(* Children *)

Tell(c, m) == outbox' = [outbox EXCEPT ![c] = Append(@, m)]

Obey(c) ==
    /\ inbox[c] # <<>> /\ inbox' = [inbox EXCEPT ![c] = Tail(@)]
    /\ \/ /\ device' = [device EXCEPT ![c] = Head(inbox[c])]
          /\ Tell(c, [type |-> "MODE_REPLY", mode |-> Head(inbox[c])])
          /\ UNCHANGED troubles
       \/ /\ troubles < MaxTroubles /\ troubles' = troubles + 1
          /\ \/ /\ device' = [device EXCEPT ![c] = "OFF"]
                /\ Tell(c, [type |-> "MODE_REPLY", mode |-> "OFF"])
             \/ Tell(c, [type |-> "CANT_REACH_MODE"]) /\ UNCHANGED device
    /\ UNCHANGED <<mode, targetMode, isInTransition, currentTargetTable, currentSequenceIterator,
                   uptimeStartTable, commandsOutstanding, forced, childMode, childrenChangedMode,
                   childrenChangedHealth, commanderVars, health, commands>>

\* By itself, or by somebody else's command
Move(c, m) ==
    /\ troubles < MaxTroubles /\ troubles' = troubles + 1
    /\ m # device[c] /\ device' = [device EXCEPT ![c] = m]
    /\ Tell(c, [type |-> "MODE_INFO", mode |-> m])
    /\ UNCHANGED <<subsystemVars, health, commands>>

ChangeHealth(c, h) ==
    /\ troubles < MaxTroubles /\ troubles' = troubles + 1
    /\ h # health[c] /\ health' = [health EXCEPT ![c] = h]
    /\ Tell(c, [type |-> "HEALTH_INFO", health |-> h])
    /\ UNCHANGED <<subsystemVars, device, commands>>

-----------------------------------------------------------------------------

Next ==
    \/ \E m \in Modes, isForced \in BOOLEAN : ModeCommand(m, isForced)
    \/ performChildOperation
    \/ \E c \in Children : checkCommandQueue(c) \/ Obey(c)
    \/ \E c \in Children, m \in ChildModes : Move(c, m)
    \/ \E c \in Children, h \in HealthStates : ChangeHealth(c, h)

Spec == Init /\ [][Next]_vars

\* The subsystem's task runs, waits come to their end, and children obey.
FairSpec ==
    /\ Spec
    /\ WF_vars(performChildOperation)
    /\ \A c \in Children : WF_vars(checkCommandQueue(c)) /\ WF_vars(Obey(c))

-----------------------------------------------------------------------------
(* Properties *)

TypeOK ==
    /\ mode \in Modes /\ targetMode \in Modes \cup {None} /\ isInTransition \in BOOLEAN
    /\ currentTargetTable \in Tables /\ currentSequenceIterator \in Nat \ {0}
    /\ uptimeStartTable \in {<<>>} \cup Modes \X Nat
    /\ commandsOutstanding \in Int /\ commandsOutstanding <= Cardinality(Children)
    /\ childMode \in [Children -> ChildModes \cup {"UNKNOWN"}]
    /\ childrenChangedMode \in BOOLEAN /\ childrenChangedHealth \in BOOLEAN
    /\ forced \in BOOLEAN /\ theOneWhoCommandedAMode \in 0..commands
    /\ waiting \subseteq 1..commands /\ displaced \subseteq 1..commands
    /\ health \in [Children -> HealthStates] /\ device \in [Children -> ChildModes]
    /\ \A c \in Children : Len(inbox[c]) <= InboxDepth
    /\ commands \in 0..MaxCommands /\ troubles \in 0..MaxTroubles

Informed == ~childrenChangedMode /\ ~childrenChangedHealth /\ \A c \in Children : outbox[c] = <<>>

\* A subsystem at rest is in the mode it aimed for last, if it ever did, and has
\* answered the command it took last; with nothing it has yet to hear or to look
\* at, its children are where the target table wants them; whatever failed, came
\* late or was forced on the way (performChildOperation, transitionFailed,
\* cantKeepMode).  A command taken before is answered, too, unless the command
\* to the fallback was taken on the way to its mode: ModeHelper then forgets the
\* first commander, who waits for ever.
RestIsBacked ==
    ~isInTransition =>
        /\ mode = targetMode \/ (mode = InitialMode /\ targetMode = None)
        /\ theOneWhoCommandedAMode = 0 /\ waiting \subseteq displaced
        /\ Informed => \A c \in DOMAIN currentTargetTable : device[c] = currentTargetTable[c]

\* The mode changes to the one that has been reached, with every child of the
\* target table where it should be, or to the fallback of the mode; a
\* fallback is always forced (transitionFailed, cantKeepMode).
ModeChangesForAReason ==
    [][mode' # mode =>
          \/ ~isInTransition' /\ mode' = targetMode /\ checkStateAgainstTable(modeSequences[mode'].target)
          \/ isInTransition' /\ mode' = getFallbackSequence(mode) /\ targetMode' = mode' /\ forced']_vars

\* Once the children do as they are told, a transition ends: in the mode aimed
\* for, in the mode before, or down the chain of fallbacks.
TransitionsEnd == isInTransition ~> ~isInTransition

=============================================================================
