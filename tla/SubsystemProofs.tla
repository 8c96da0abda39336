--------------------------- MODULE SubsystemProofs ---------------------------
(***************************************************************************)
(* Theorems about Subsystem, for any children, tables and sequences.       *)
(*                                                                         *)
(* RestIsBacked relates the subsystem's mode with the modes its children   *)
(* really have.  Between the two are the messages under way (NewsOK) and   *)
(* what the subsystem has noted (SettledOK).                               *)
(***************************************************************************)
EXTENDS Subsystem, FiniteSetTheorems, SequenceTheorems, TLAPS

Messages ==
    [type : {"MODE_REPLY", "MODE_INFO"}, mode : ChildModes]
      \cup [type : {"CANT_REACH_MODE"}] \cup [type : {"HEALTH_INFO"}, health : HealthStates]

IsMode(m) == m.type \in {"MODE_REPLY", "MODE_INFO"}

\* The variables of a transition, and the others.
TransitionType ==
    /\ targetMode \in Modes \cup {None} /\ isInTransition \in BOOLEAN
    /\ isInTransition => targetMode \in Modes
    /\ currentTargetTable \in Tables /\ currentSequenceIterator \in Nat \ {0}
    /\ uptimeStartTable \in {<<>>} \cup Modes \X Nat
    /\ commandsOutstanding \in Int /\ commandsOutstanding <= Cardinality(Children)
    /\ inbox \in [Children -> Seq(ChildModes)] /\ \A c \in Children : Len(inbox[c]) <= InboxDepth
    /\ forced \in BOOLEAN

\* Who waits is in ModeHelper's mind, or has been displaced.
CommanderOK ==
    /\ theOneWhoCommandedAMode \in 0..commands /\ waiting \subseteq 1..commands /\ displaced \subseteq 1..commands
    /\ waiting \subseteq displaced \cup ({theOneWhoCommandedAMode} \ {0})

OtherType ==
    /\ mode \in Modes /\ CommanderOK
    /\ childMode \in [Children -> ChildModes \cup {"UNKNOWN"}]
    /\ childrenChangedMode \in BOOLEAN /\ childrenChangedHealth \in BOOLEAN
    /\ health \in [Children -> HealthStates] /\ device \in [Children -> ChildModes]
    /\ outbox \in [Children -> Seq(Messages)]
    /\ commands \in 0..MaxCommands /\ troubles \in 0..MaxTroubles

\* The last news of a child's mode that is under way is the mode it has; if
\* there is none the subsystem knows the mode, or never heard of it.
NewsOf(box, noted, actual) ==
    \/ \E i \in 1..Len(box) : /\ IsMode(box[i]) /\ box[i].mode = actual
                              /\ \A j \in (i + 1)..Len(box) : ~IsMode(box[j])
    \/ (\A i \in 1..Len(box) : ~IsMode(box[i])) /\ noted \in {actual, "UNKNOWN"}

NewsOK == \A c \in Children : NewsOf(outbox[c], childMode[c], device[c])

\* In a transition the table to be checked is that of the target; at rest it
\* has been found to hold, unless something has been noted since.
SettledOK ==
    IF isInTransition THEN currentTargetTable = modeSequences[targetMode].target
    ELSE /\ mode = targetMode \/ (mode = InitialMode /\ targetMode = None)
         /\ theOneWhoCommandedAMode = 0
         /\ childrenChangedMode \/ checkStateAgainstTable(currentTargetTable)

SubsystemInv == TransitionType /\ OtherType /\ NewsOK /\ SettledOK

-----------------------------------------------------------------------------

LEMMA InvGivesType ==
  ASSUME SubsystemInv
  PROVE  TypeOK
BY DEF SubsystemInv, TransitionType, OtherType, CommanderOK, TypeOK

LEMMA InvGivesRest ==
  ASSUME SubsystemInv
  PROVE  RestIsBacked
<1>1. ASSUME ~isInTransition, Informed, NEW c \in DOMAIN currentTargetTable
      PROVE  device[c] = currentTargetTable[c]
  <2>1. c \in Children /\ currentTargetTable[c] \in ChildModes
    BY <1>1 DEF SubsystemInv, TransitionType, Tables
  <2>2. childMode[c] = currentTargetTable[c]
    BY <1>1 DEF SubsystemInv, SettledOK, Informed, checkStateAgainstTable
  <2>3. childMode[c] \in {device[c], "UNKNOWN"}
    BY <1>1, <2>1 DEF SubsystemInv, NewsOK, NewsOf, Informed
  <2>4. QED
    BY <2>1, <2>2, <2>3, SubsystemAssumption
<1>2. QED
  BY <1>1 DEF RestIsBacked, SubsystemInv, SettledOK, OtherType, CommanderOK

LEMMA SubsystemInitial ==
  ASSUME Init
  PROVE  SubsystemInv
<1>1. NoTable \in Tables
  BY DEF NoTable, Tables
<1>2. /\ Cardinality(Children) \in Nat /\ InitialMode \in Modes /\ InboxDepth \in Nat
      /\ "OFF" \in ChildModes /\ MaxCommands \in Nat /\ MaxTroubles \in Nat
  BY SubsystemAssumption, FS_CardinalityType
<1>3. TransitionType
  <2>1. inbox \in [Children -> Seq(ChildModes)] /\ \A c \in Children : Len(inbox[c]) = 0
    BY EmptySeq DEF Init
  <2>2. uptimeStartTable \in {<<>>} \cup Modes \X Nat
    BY DEF Init
  <2>3. commandsOutstanding \in Int /\ commandsOutstanding <= Cardinality(Children)
    BY <1>2 DEF Init
  <2>4. targetMode = None /\ isInTransition = FALSE /\ forced \in BOOLEAN
        /\ currentTargetTable \in Tables
    BY <1>1, <1>2 DEF Init
  <2>5. currentSequenceIterator \in Nat \ {0}
    BY DEF Init
  <2>6. \A c \in Children : Len(inbox[c]) <= InboxDepth
    BY <1>2, <2>1
  <2>7. QED
    BY <2>1, <2>2, <2>3, <2>4, <2>5, <2>6 DEF TransitionType
<1>4. OtherType
  <2>1. outbox \in [Children -> Seq(Messages)]
    BY EmptySeq DEF Init
  <2>2. childMode \in [Children -> ChildModes \cup {"UNKNOWN"}] /\ device \in [Children -> ChildModes]
    BY <1>2 DEF Init
  <2>3. health \in [Children -> HealthStates]
    BY DEF Init, HealthStates
  <2>4. commands \in 0..MaxCommands /\ troubles \in 0..MaxTroubles
    BY <1>2 DEF Init
  <2>5. CommanderOK
    BY DEF Init, CommanderOK
  <2>6. QED
    BY <1>2, <2>1, <2>2, <2>3, <2>4, <2>5 DEF Init, OtherType
<1>5. NewsOK
  BY DEF Init, NewsOK, NewsOf
<1>6. SettledOK
  BY DEF Init, SettledOK, checkStateAgainstTable, NoTable
<1>7. QED
  BY <1>3, <1>4, <1>5, <1>6 DEF SubsystemInv

-----------------------------------------------------------------------------
(* Transitions *)

\* executeTable sends what fits, and counts what it has sent.
LEMMA ExecuteTableTyped ==
  ASSUME TransitionType, OtherType, NEW table \in Tables, NEW isForced, executeTable(table, isForced)
  PROVE  /\ commandsOutstanding' \in Int /\ commandsOutstanding' <= Cardinality(Children)
         /\ inbox' \in [Children -> Seq(ChildModes)] /\ \A c \in Children : Len(inbox'[c]) <= InboxDepth
<1> DEFINE sent == { c \in DOMAIN table :
                    /\ isForced \/ health[c] # "EXTERNAL_CONTROL"
                    /\ isForced \/ childMode[c] # CommandFor(c, table)
                    /\ Len(inbox[c]) < InboxDepth }
<1>1. /\ inbox' = [c \in Children |-> IF c \in sent THEN Append(inbox[c], CommandFor(c, table)) ELSE inbox[c]]
      /\ commandsOutstanding' = Cardinality(sent)
  BY DEF executeTable, Outstanding
<1>2. sent \in SUBSET Children
  BY DEF Tables
<1>3. \A c \in sent : CommandFor(c, table) \in ChildModes /\ Len(inbox[c]) < InboxDepth
  BY SubsystemAssumption DEF CommandFor, Tables
<1> HIDE DEF sent
<1>4. Cardinality(sent) \in Nat /\ Cardinality(sent) <= Cardinality(Children)
  BY <1>2, SubsystemAssumption, FS_Subset, FS_CardinalityType
<1>5. ASSUME NEW c \in Children
      PROVE  inbox'[c] \in Seq(ChildModes) /\ Len(inbox'[c]) <= InboxDepth
  <2>1. inbox[c] \in Seq(ChildModes) /\ Len(inbox[c]) <= InboxDepth /\ Len(inbox[c]) \in Nat
    BY DEF TransitionType
  <2>2. CASE c \in sent
    <3>1. inbox'[c] = Append(inbox[c], CommandFor(c, table))
      BY <1>1, <2>2
    <3>2. Len(inbox'[c]) = Len(inbox[c]) + 1 /\ inbox'[c] \in Seq(ChildModes)
      BY <1>3, <2>1, <2>2, <3>1, AppendProperties
    <3>3. QED
      BY <1>3, <2>1, <2>2, <3>2, SubsystemAssumption
  <2>3. CASE c \notin sent
    BY <1>1, <2>1, <2>3
  <2>4. QED
    BY <2>2, <2>3
<1>6. inbox' \in [Children -> Seq(ChildModes)]
  BY <1>1, <1>5
<1>7. QED
  BY <1>1, <1>4, <1>5, <1>6

LEMMA StartTransitionTyped ==
  ASSUME TransitionType, OtherType, NEW m \in Modes, NEW isForced \in BOOLEAN, startTransition(m, isForced)
  PROVE  /\ TransitionType'
         /\ isInTransition' /\ targetMode' = m /\ forced' = isForced
         /\ currentTargetTable' = modeSequences[m].target
<1> DEFINE steps == modeSequences[m].steps
<1>1. /\ targetMode' = m /\ isInTransition' = TRUE /\ forced' = isForced
      /\ currentTargetTable' = modeSequences[m].target /\ currentTargetTable' \in Tables
      /\ currentSequenceIterator' = 1 /\ uptimeStartTable' = uptimeStartTable
  BY SubsystemAssumption DEF startTransition
<1>2. /\ commandsOutstanding' \in Int /\ commandsOutstanding' <= Cardinality(Children)
      /\ inbox' \in [Children -> Seq(ChildModes)] /\ \A c \in Children : Len(inbox'[c]) <= InboxDepth
  <2>1. CASE steps = <<>>
    <3>1. Cardinality(Children) \in Nat
      BY SubsystemAssumption, FS_CardinalityType
    <3>2. QED
      BY <2>1, <3>1 DEF startTransition, TransitionType
  <2>2. CASE steps # <<>>
    <3>1. steps \in Seq(Steps)
      BY SubsystemAssumption
    <3>2. steps[1] \in Steps
      BY <2>2, <3>1
    <3>3. steps[1].table \in Tables
      BY <3>2 DEF Steps
    <3>4. executeTable(steps[1].table, isForced)
      BY <2>2 DEF startTransition
    <3>5. QED
      BY <3>3, <3>4, ExecuteTableTyped
  <2>3. QED
    BY <2>1, <2>2
<1>3. QED
  BY <1>1, <1>2 DEF TransitionType

\* Nobody commands, and nobody is answered.
LEMMA CommanderStays ==
  ASSUME CommanderOK, UNCHANGED <<commanderVars, commands>>
  PROVE  CommanderOK'
BY DEF CommanderOK, commanderVars

\* A new transition, in the mode that is kept or, by force, in the fallback.
LEMMA StartTransitionKeeps ==
  ASSUME SubsystemInv, NEW m \in Modes, NEW isForced \in BOOLEAN, startTransition(m, isForced),
         mode' \in Modes, CommanderOK', childrenChangedMode' \in BOOLEAN, childrenChangedHealth' \in BOOLEAN,
         commands' \in 0..MaxCommands,
         UNCHANGED <<childMode, health, device, outbox, troubles>>
  PROVE  SubsystemInv'
<1>1. TransitionType' /\ isInTransition' /\ targetMode' = m /\ currentTargetTable' = modeSequences[m].target
  BY StartTransitionTyped DEF SubsystemInv
<1>2. OtherType' /\ NewsOK'
  BY DEF SubsystemInv, OtherType, NewsOK
<1>3. SettledOK'
  BY <1>1 DEF SettledOK
<1>4. QED
  BY <1>1, <1>2, <1>3 DEF SubsystemInv

\* Steps of performChildOperation that leave the messages alone.
LEMMA QuietKeeps ==
  ASSUME SubsystemInv, TransitionType', SettledOK',
         mode' \in Modes, CommanderOK', childrenChangedMode' \in BOOLEAN, childrenChangedHealth' \in BOOLEAN,
         UNCHANGED <<childMode, health, device, outbox, commands, troubles>>
  PROVE  SubsystemInv'
<1>1. OtherType' /\ NewsOK'
  BY DEF SubsystemInv, OtherType, NewsOK
<1>2. QED
  BY <1>1 DEF SubsystemInv

FallBackModes == \A m \in Modes : getFallbackSequence(m) \in Modes

LEMMA FallBackIsMode == FallBackModes
BY SubsystemAssumption DEF FallBackModes, getFallbackSequence

LEMMA TransitionFailedKeeps ==
  ASSUME SubsystemInv, transitionFailed \/ FallBack, CommanderOK',
         childrenChangedMode' \in BOOLEAN, childrenChangedHealth' \in BOOLEAN,
         UNCHANGED <<childMode, health, device, outbox, commands, troubles>>
  PROVE  SubsystemInv'
<1>1. mode \in Modes /\ forced \in BOOLEAN /\ commands' \in 0..MaxCommands /\ TRUE \in BOOLEAN
  BY DEF SubsystemInv, OtherType, TransitionType
<1>2. CASE FallBack
  <2>1. mode' \in Modes /\ startTransition(mode', TRUE)
    BY <1>1, <1>2, FallBackIsMode DEF FallBack, FallBackModes
  <2>2. PICK m \in Modes : m = mode' /\ startTransition(m, TRUE)
    BY <2>1
  <2>3. QED
    BY <1>1, <2>1, <2>2, StartTransitionKeeps
<1>3. CASE startTransition(mode, forced) /\ UNCHANGED mode
  BY <1>1, <1>3, StartTransitionKeeps
<1>4. QED
  BY <1>2, <1>3 DEF transitionFailed

\* The next table, or the end of the sequence.
LEMMA ExecuteStepTyped ==
  ASSUME SubsystemInv, isInTransition, ExecuteStep(targetMode, currentSequenceIterator + 1, forced),
         uptimeStartTable' = <<>>, UNCHANGED <<targetMode, isInTransition, currentTargetTable, forced>>
  PROVE  TransitionType'
<1> DEFINE steps == modeSequences[targetMode].steps
           i == currentSequenceIterator + 1
<1>1. steps \in Seq(Steps)
  BY SubsystemAssumption DEF SubsystemInv, TransitionType
<1>2. i \in Nat \ {0} /\ currentSequenceIterator' = i
  BY DEF SubsystemInv, TransitionType, ExecuteStep
<1>3. /\ commandsOutstanding' \in Int /\ commandsOutstanding' <= Cardinality(Children)
      /\ inbox' \in [Children -> Seq(ChildModes)] /\ \A c \in Children : Len(inbox'[c]) <= InboxDepth
  <2>1. CASE i \in DOMAIN steps
    <3>1. steps[i] \in Steps
      BY <1>1, <2>1
    <3>2. steps[i].table \in Tables /\ executeTable(steps[i].table, forced)
      BY <2>1, <3>1 DEF Steps, ExecuteStep
    <3>3. QED
      BY <3>2, ExecuteTableTyped DEF SubsystemInv
  <2>2. CASE i \notin DOMAIN steps
    BY <2>2 DEF ExecuteStep, SubsystemInv, TransitionType
  <2>3. QED
    BY <2>1, <2>2
<1>4. QED
  BY <1>2, <1>3 DEF SubsystemInv, TransitionType

LEMMA TableDoneKeeps ==
  ASSUME SubsystemInv, isInTransition, NEW s, TableDone(s), childrenChangedMode' = FALSE,
         UNCHANGED <<commanderVars, childrenChangedHealth, childMode, health, device, outbox, commands, troubles>>
  PROVE  SubsystemInv'
<1>0. /\ mode \in Modes /\ CommanderOK' /\ childrenChangedMode' \in BOOLEAN
      /\ childrenChangedHealth' \in BOOLEAN
  BY CommanderStays DEF SubsystemInv, OtherType
<1>1. CASE transitionFailed
  BY <1>0, <1>1, TransitionFailedKeeps
<1>2. CASE /\ uptimeStartTable' = Here
           /\ UNCHANGED <<mode, targetMode, isInTransition, currentTargetTable, currentSequenceIterator,
                          commandsOutstanding, inbox, forced>>
  <2>1. TransitionType'
    BY <1>2 DEF SubsystemInv, TransitionType, Here
  <2>2. SettledOK'
    BY <1>2 DEF SubsystemInv, SettledOK
  <2>3. QED
    BY <1>0, <1>2, <2>1, <2>2, QuietKeeps
<1>3. CASE UNCHANGED <<mode, transitionVars>>
  <2>1. TransitionType' /\ SettledOK'
    BY <1>3 DEF SubsystemInv, TransitionType, SettledOK, transitionVars
  <2>2. QED
    BY <1>0, <1>3, <2>1, QuietKeeps
<1>4. CASE /\ uptimeStartTable' = <<>> /\ ExecuteStep(targetMode, currentSequenceIterator + 1, forced)
           /\ UNCHANGED <<mode, targetMode, isInTransition, currentTargetTable, forced>>
  <2>1. TransitionType'
    BY <1>4, ExecuteStepTyped
  <2>2. SettledOK'
    BY <1>4 DEF SubsystemInv, SettledOK
  <2>3. QED
    BY <1>0, <1>4, <2>1, <2>2, QuietKeeps
<1>5. QED
  BY <1>1, <1>2, <1>3, <1>4 DEF TableDone

LEMMA TransitionKeeps ==
  ASSUME SubsystemInv, isInTransition, Transition, childrenChangedMode' = FALSE,
         UNCHANGED <<childrenChangedHealth, childMode, health, device, outbox, commands, troubles>>
  PROVE  SubsystemInv'
<1>0. /\ mode \in Modes /\ CommanderOK /\ childrenChangedMode' \in BOOLEAN
      /\ childrenChangedHealth' \in BOOLEAN
  BY DEF SubsystemInv, OtherType
<1>1. CASE UNCHANGED <<mode, transitionVars, commanderVars>>
  <2>1. TransitionType' /\ SettledOK'
    BY <1>1 DEF SubsystemInv, TransitionType, SettledOK, transitionVars
  <2>2. QED
    BY <1>0, <1>1, <2>1, CommanderStays, QuietKeeps
<1>2. CASE checkStateAgainstTable(currentTargetTable) /\ setMode
  <2>1. TransitionType' /\ mode' \in Modes
    BY <1>2 DEF SubsystemInv, TransitionType, setMode
  <2>4. CommanderOK'
    <3>1. CommanderAnswered /\ commands' = commands
      BY <1>2 DEF setMode
    <3>2. CommanderOK /\ commands \in Nat
      BY DEF SubsystemInv, OtherType
    <3>3. QED
      BY <3>1, <3>2 DEF CommanderOK, CommanderAnswered
  <2>2. SettledOK'
    BY <1>2 DEF SettledOK, setMode, CommanderAnswered, checkStateAgainstTable
  <2>3. QED
    BY <1>0, <2>1, <2>2, <2>4, QuietKeeps
<1>3. CASE transitionFailed /\ UNCHANGED commanderVars
  BY <1>0, <1>3, CommanderStays, TransitionFailedKeeps
<1>4. CASE TableDone(modeSequences[targetMode].steps[currentSequenceIterator]) /\ UNCHANGED commanderVars
  BY <1>4, TableDoneKeeps
<1>5. QED
  BY <1>1, <1>2, <1>3, <1>4 DEF Transition, SequenceDone

LEMMA PerformChildOperationKeeps ==
  ASSUME SubsystemInv, performChildOperation
  PROVE  SubsystemInv'
<1>0. /\ mode \in Modes /\ forced \in BOOLEAN /\ CommanderOK /\ commands' \in 0..MaxCommands
      /\ childrenChangedMode' = FALSE
      /\ UNCHANGED <<childMode, health, device, outbox, commands, troubles>>
  BY DEF SubsystemInv, OtherType, TransitionType, performChildOperation
<1>1. CASE isInTransition
  BY <1>0, <1>1, TransitionKeeps DEF performChildOperation
<1>2. CASE ~isInTransition
  <2>0. (ChangedHealth \/ ChangedMode) /\ childrenChangedHealth' = FALSE /\ UNCHANGED commanderVars
    BY <1>2 DEF performChildOperation
  <2> CommanderOK'
    BY <1>0, <2>0, CommanderStays
  <2>1. CASE ChangedHealth
    BY <1>0, <2>0, <2>1, StartTransitionKeeps DEF ChangedHealth
  <2>2. CASE FallBack
    BY <1>0, <2>0, <2>2, TransitionFailedKeeps
  <2>3. CASE /\ ~childrenChangedMode \/ checkStateAgainstTable(currentTargetTable)
             /\ UNCHANGED <<mode, transitionVars>>
    <3>1. TransitionType'
      BY <2>3 DEF SubsystemInv, TransitionType, transitionVars
    <3>2. SettledOK'
      BY <1>0, <1>2, <2>0, <2>3 DEF SubsystemInv, SettledOK, transitionVars, commanderVars, checkStateAgainstTable
    <3>3. QED
      BY <1>0, <2>0, <2>3, <3>1, <3>2, QuietKeeps
  <2>4. QED
    BY <2>0, <2>1, <2>2, <2>3 DEF ChangedMode
<1>3. QED
  BY <1>1, <1>2 DEF SubsystemInv, TransitionType

-----------------------------------------------------------------------------
(* Messages *)

LEMMA ModeCommandKeeps ==
  ASSUME SubsystemInv, NEW m \in Modes, NEW isForced \in BOOLEAN, ModeCommand(m, isForced)
  PROVE  SubsystemInv'
<1>0. /\ commands' \in 0..MaxCommands /\ commands \in Nat /\ commands' = commands + 1
      /\ UNCHANGED <<mode, childMode, childrenChangedMode, childrenChangedHealth, health, device, outbox, troubles>>
  <2>1. commands \in 0..MaxCommands /\ commands < MaxCommands /\ commands' = commands + 1
    BY DEF ModeCommand, SubsystemInv, OtherType
  <2>2. QED
    BY <2>1, SubsystemAssumption DEF ModeCommand
<1>1. forced \in BOOLEAN /\ mode' \in Modes /\ CommanderOK
      /\ childrenChangedMode' \in BOOLEAN /\ childrenChangedHealth' \in BOOLEAN
  BY <1>0 DEF SubsystemInv, TransitionType, OtherType
<1>2. (forced \/ isForced) \in BOOLEAN
  BY <1>1
<1>3. CASE startTransition(m, forced \/ isForced) /\ Commanded(commands')
  <2>1. PICK b \in BOOLEAN : startTransition(m, b)
    BY <1>2, <1>3
  <2>2. CommanderOK'
    BY <1>0, <1>1, <1>3 DEF CommanderOK, Commanded
  <2>3. QED
    BY <1>0, <1>1, <2>1, <2>2, StartTransitionKeeps
<1>4. CASE /\ ~checkModeCommand(m)
           /\ forced' = (forced \/ isForced)
           /\ UNCHANGED <<targetMode, isInTransition, currentTargetTable, currentSequenceIterator,
                          uptimeStartTable, commandsOutstanding, inbox, commanderVars>>
  <2>0. forced' \in BOOLEAN
    BY <1>2, <1>4
  <2>1. TransitionType'
    BY <1>4, <2>0 DEF SubsystemInv, TransitionType
  <2>2. isInTransition
    BY <1>4 DEF checkModeCommand
  <2>6. CommanderOK'
    BY <1>0, <1>1, <1>4 DEF CommanderOK, commanderVars
  <2>3. OtherType' /\ NewsOK'
    BY <1>0, <1>4, <2>6 DEF SubsystemInv, OtherType, NewsOK
  <2>4. SettledOK'
    BY <1>0, <1>4, <2>2 DEF SubsystemInv, SettledOK
  <2>5. QED
    BY <2>1, <2>3, <2>4 DEF SubsystemInv
<1>5. QED
  BY <1>3, <1>4 DEF ModeCommand

LEMMA NewsTold ==
  ASSUME NEW box \in Seq(Messages), NEW m \in Messages, NEW noted, NEW was, NEW actual,
         NewsOf(box, noted, was),
         \/ IsMode(m) /\ m.mode = actual
         \/ ~IsMode(m) /\ was = actual
  PROVE  NewsOf(Append(box, m), noted, actual)
<1> DEFINE new == Append(box, m)
<1>1. /\ Len(new) = Len(box) + 1 /\ new[Len(box) + 1] = m /\ Len(box) \in Nat
      /\ \A i \in 1..Len(box) : new[i] = box[i]
  BY AppendProperties
<1> HIDE DEF new
<1>2. CASE IsMode(m) /\ m.mode = actual
  <2>1. Len(new) \in 1..Len(new) /\ new[Len(new)] = m /\ \A j \in (Len(new) + 1)..Len(new) : FALSE
    BY <1>1
  <2>2. QED
    BY <1>2, <2>1 DEF NewsOf, new
<1>3. CASE ~IsMode(m) /\ was = actual
  <2>1. CASE \E i \in 1..Len(box) : /\ IsMode(box[i]) /\ box[i].mode = actual
                                    /\ \A j \in (i + 1)..Len(box) : ~IsMode(box[j])
    <3>1. PICK i \in 1..Len(box) : /\ IsMode(box[i]) /\ box[i].mode = actual
                                    /\ \A j \in (i + 1)..Len(box) : ~IsMode(box[j])
      BY <2>1
    <3>2. i \in 1..Len(new) /\ new[i] = box[i]
      BY <1>1
    <3>3. \A j \in (i + 1)..Len(new) : ~IsMode(new[j])
      <4>1. TAKE j \in (i + 1)..Len(new)
      <4>2. j = Len(box) + 1 \/ j \in (i + 1)..Len(box)
        BY <1>1
      <4>3. j \in (i + 1)..Len(box) => new[j] = box[j]
        BY <1>1
      <4>4. QED
        BY <1>1, <1>3, <3>1, <4>2, <4>3
    <3>4. QED
      BY <3>1, <3>2, <3>3 DEF NewsOf, new
  <2>2. CASE (\A i \in 1..Len(box) : ~IsMode(box[i])) /\ noted \in {actual, "UNKNOWN"}
    <3>1. \A i \in 1..Len(new) : ~IsMode(new[i])
      <4>1. TAKE i \in 1..Len(new)
      <4>2. i = Len(box) + 1 \/ i \in 1..Len(box)
        BY <1>1
      <4>3. QED
        BY <1>1, <1>3, <2>2, <4>2
    <3>2. QED
      BY <2>2, <3>1 DEF NewsOf, new
  <2>3. QED
    BY <1>3, <2>1, <2>2 DEF NewsOf
<1>4. QED
  BY <1>2, <1>3

LEMMA NewsHeard ==
  ASSUME NEW box \in Seq(Messages), box # <<>>, NEW noted, NEW heard, NEW actual,
         NewsOf(box, noted, actual),
         heard = IF IsMode(Head(box)) THEN Head(box).mode ELSE noted
  PROVE  NewsOf(Tail(box), heard, actual)
<1> DEFINE new == Tail(box)
<1>1. /\ Len(new) = Len(box) - 1 /\ Len(box) \in Nat /\ Len(box) > 0 /\ Head(box) = box[1]
      /\ \A i \in 1..Len(new) : new[i] = box[i + 1]
  BY HeadTailProperties, EmptySeq
<1> HIDE DEF new
<1>2. CASE \E i \in 1..Len(box) : /\ IsMode(box[i]) /\ box[i].mode = actual
                                  /\ \A j \in (i + 1)..Len(box) : ~IsMode(box[j])
  <2>1. PICK i \in 1..Len(box) : /\ IsMode(box[i]) /\ box[i].mode = actual
                                  /\ \A j \in (i + 1)..Len(box) : ~IsMode(box[j])
    BY <1>2
  <2>2. \A k \in i..Len(new) : ~IsMode(new[k])
    <3>1. TAKE k \in i..Len(new)
    <3>2. k + 1 \in (i + 1)..Len(box) /\ k \in 1..Len(new)
      BY <1>1
    <3>3. QED
      BY <1>1, <2>1, <3>2
  <2>3. CASE i = 1
    <3>1. heard = actual
      BY <1>1, <2>1, <2>3
    <3>2. QED
      BY <2>2, <2>3, <3>1 DEF NewsOf, new
  <2>4. CASE i # 1
    <3>1. i - 1 \in 1..Len(new) /\ new[i - 1] = box[i] /\ (i - 1) + 1 = i
      <4>1. i - 1 \in 1..Len(new) /\ (i - 1) + 1 = i
        BY <1>1, <2>4
      <4>2. QED
        BY <1>1, <4>1
    <3>2. PICK k \in 1..Len(new) : k = i - 1 /\ new[k] = box[i] /\ k + 1 = i
      BY <3>1
    <3>3. IsMode(new[k]) /\ new[k].mode = actual /\ \A j \in (k + 1)..Len(new) : ~IsMode(new[j])
      BY <2>1, <2>2, <3>2
    <3>4. QED
      BY <3>3 DEF NewsOf, new
  <2>5. QED
    BY <2>3, <2>4
<1>3. CASE (\A i \in 1..Len(box) : ~IsMode(box[i])) /\ noted \in {actual, "UNKNOWN"}
  <2>1. 1 \in 1..Len(box)
    BY <1>1
  <2>2. heard = noted
    BY <1>1, <1>3, <2>1
  <2>3. \A k \in 1..Len(new) : ~IsMode(new[k])
    <3>1. TAKE k \in 1..Len(new)
    <3>2. k + 1 \in 1..Len(box)
      BY <1>1
    <3>3. QED
      BY <1>1, <1>3, <3>2
  <2>4. QED
    BY <1>3, <2>2, <2>3 DEF NewsOf, new
<1>4. QED
  BY <1>2, <1>3 DEF NewsOf

LEMMA CheckCommandQueueKeeps ==
  ASSUME SubsystemInv, NEW c \in Children, checkCommandQueue(c)
  PROVE  SubsystemInv'
<1> DEFINE m == Head(outbox[c])
<1>0. /\ outbox[c] # <<>> /\ outbox' = [outbox EXCEPT ![c] = Tail(@)]
      /\ \/ IsMode(m) /\ ModeReply(c, m)
         \/ ~IsMode(m) /\ CantReachMode
         \/ ~IsMode(m) /\ HealthInfo(m)
      /\ UNCHANGED <<mode, targetMode, isInTransition, currentTargetTable, currentSequenceIterator,
                     uptimeStartTable, inbox, forced, commanderVars, health, device, commands, troubles>>
  BY DEF checkCommandQueue, IsMode
<1>1. /\ outbox[c] \in Seq(Messages) /\ outbox \in [Children -> Seq(Messages)]
      /\ childMode \in [Children -> ChildModes \cup {"UNKNOWN"}]
      /\ childrenChangedMode \in BOOLEAN /\ childrenChangedHealth \in BOOLEAN
  BY DEF SubsystemInv, OtherType
<1>2. m \in Messages /\ Tail(outbox[c]) \in Seq(Messages)
  BY <1>0, <1>1, HeadTailProperties
<1>3. IsMode(m) => m.mode \in ChildModes
  BY <1>2 DEF Messages, IsMode
<1> HIDE DEF m
<1>4. /\ childMode' = IF IsMode(m) THEN [childMode EXCEPT ![c] = m.mode] ELSE childMode
      /\ childrenChangedMode' = IF IsMode(m) THEN TRUE ELSE childrenChangedMode
      /\ childrenChangedHealth' \in BOOLEAN
  BY <1>0, <1>1 DEF ModeReply, CantReachMode, HealthInfo
<1>5. commandsOutstanding' \in Int /\ commandsOutstanding' <= Cardinality(Children)
  <2>1. commandsOutstanding \in Int /\ commandsOutstanding <= Cardinality(Children) /\ Cardinality(Children) \in Nat
    BY SubsystemAssumption, FS_CardinalityType DEF SubsystemInv, TransitionType
  <2>2. commandsOutstanding' \in {commandsOutstanding, commandsOutstanding - 1}
    <3>1. commandsOutstanding - 0 = commandsOutstanding
      BY <2>1
    <3>2. QED
      BY <1>0, <3>1 DEF ModeReply, CantReachMode, HealthInfo
  <2>3. QED
    BY <2>1, <2>2
<1>6. TransitionType'
  BY <1>0, <1>5 DEF SubsystemInv, TransitionType
<1>7. OtherType'
  <2>1. outbox' \in [Children -> Seq(Messages)]
    BY <1>0, <1>1, <1>2
  <2>2. childMode' \in [Children -> ChildModes \cup {"UNKNOWN"}]
    BY <1>1, <1>3, <1>4
  <2>3. childrenChangedMode' \in BOOLEAN
    BY <1>1, <1>4
  <2>4. QED
    BY <1>0, <1>4, <2>1, <2>2, <2>3, CommanderStays DEF SubsystemInv, OtherType
<1>8. NewsOK'
  <2>1. SUFFICES ASSUME NEW d \in Children
                 PROVE  NewsOf(outbox'[d], childMode'[d], device'[d])
    BY DEF NewsOK
  <2>2. NewsOf(outbox[d], childMode[d], device[d]) /\ device'[d] = device[d]
    BY <1>0 DEF SubsystemInv, NewsOK
  <2>3. CASE d = c
    <3>1. childMode'[c] = IF IsMode(Head(outbox[c])) THEN Head(outbox[c]).mode ELSE childMode[c]
      BY <1>1, <1>4 DEF m
    <3>2. outbox'[c] = Tail(outbox[c])
      BY <1>0, <1>1
    <3>3. QED
      BY <1>0, <1>1, <2>2, <2>3, <3>1, <3>2, NewsHeard
  <2>4. CASE d # c
    <3>1. outbox'[d] = outbox[d] /\ childMode'[d] = childMode[d]
      BY <1>0, <1>1, <1>4, <2>4
    <3>2. QED
      BY <2>2, <3>1
  <2>5. QED
    BY <2>3, <2>4
<1>9. SettledOK'
  BY <1>0, <1>4 DEF SubsystemInv, SettledOK, commanderVars, checkStateAgainstTable
<1>10. QED
  BY <1>6, <1>7, <1>8, <1>9 DEF SubsystemInv

-----------------------------------------------------------------------------
(* Children *)

\* What a child tells is its mode, or not about its mode, and that has not changed.
LEMMA TellKeeps ==
  ASSUME SubsystemInv, NEW c \in Children, NEW m \in Messages, Tell(c, m),
         device' \in [Children -> ChildModes], \A d \in Children \ {c} : device'[d] = device[d],
         \/ IsMode(m) /\ m.mode = device'[c]
         \/ ~IsMode(m) /\ device[c] = device'[c],
         inbox' \in [Children -> Seq(ChildModes)], \A d \in Children : Len(inbox'[d]) <= InboxDepth,
         health' \in [Children -> HealthStates], troubles' \in 0..MaxTroubles,
         UNCHANGED <<mode, targetMode, isInTransition, currentTargetTable, currentSequenceIterator,
                     uptimeStartTable, commandsOutstanding, forced, childMode, childrenChangedMode,
                     childrenChangedHealth, commanderVars, commands>>
  PROVE  SubsystemInv'
<1>1. TransitionType'
  BY DEF SubsystemInv, TransitionType
<1>2. outbox \in [Children -> Seq(Messages)] /\ outbox' = [outbox EXCEPT ![c] = Append(@, m)]
  BY DEF SubsystemInv, OtherType, Tell
<1>3. outbox' \in [Children -> Seq(Messages)]
  BY <1>2, AppendProperties
<1>4. OtherType'
  BY <1>3, CommanderStays DEF SubsystemInv, OtherType
<1>5. NewsOK'
  <2>1. SUFFICES ASSUME NEW d \in Children
                 PROVE  NewsOf(outbox'[d], childMode'[d], device'[d])
    BY DEF NewsOK
  <2>2. NewsOf(outbox[d], childMode[d], device[d]) /\ childMode'[d] = childMode[d]
    BY DEF SubsystemInv, NewsOK
  <2>3. CASE d = c
    <3>1. outbox[c] \in Seq(Messages) /\ outbox'[c] = Append(outbox[c], m)
      BY <1>2
    <3>2. QED
      BY <2>2, <2>3, <3>1, NewsTold
  <2>4. CASE d # c
    <3>1. outbox'[d] = outbox[d] /\ device'[d] = device[d]
      BY <1>2, <2>4
    <3>2. QED
      BY <2>2, <3>1
  <2>5. QED
    BY <2>3, <2>4
<1>6. SettledOK'
  BY DEF SubsystemInv, SettledOK, commanderVars, checkStateAgainstTable
<1>7. QED
  BY <1>1, <1>4, <1>5, <1>6 DEF SubsystemInv

LEMMA ObeyKeeps ==
  ASSUME SubsystemInv, NEW c \in Children, Obey(c)
  PROVE  SubsystemInv'
<1>0. /\ inbox[c] # <<>> /\ inbox' = [inbox EXCEPT ![c] = Tail(@)]
      /\ UNCHANGED <<mode, targetMode, isInTransition, currentTargetTable, currentSequenceIterator,
                     uptimeStartTable, commandsOutstanding, forced, childMode, childrenChangedMode,
                     childrenChangedHealth, commanderVars, health, commands>>
  BY DEF Obey
<1>1. /\ inbox \in [Children -> Seq(ChildModes)] /\ \A d \in Children : Len(inbox[d]) <= InboxDepth
      /\ device \in [Children -> ChildModes] /\ health' \in [Children -> HealthStates]
      /\ "OFF" \in ChildModes /\ InboxDepth \in Nat /\ MaxTroubles \in Nat
  BY <1>0, SubsystemAssumption DEF SubsystemInv, TransitionType, OtherType
<1>2. /\ Head(inbox[c]) \in ChildModes /\ Tail(inbox[c]) \in Seq(ChildModes)
      /\ Len(Tail(inbox[c])) = Len(inbox[c]) - 1 /\ Len(inbox[c]) \in Nat
  BY <1>0, <1>1, HeadTailProperties
<1>3. inbox' \in [Children -> Seq(ChildModes)] /\ \A d \in Children : Len(inbox'[d]) <= InboxDepth
  <2>1. inbox' \in [Children -> Seq(ChildModes)]
    BY <1>0, <1>1, <1>2
  <2>2. ASSUME NEW d \in Children PROVE Len(inbox'[d]) <= InboxDepth
    <3>1. CASE d = c
      <4>1. inbox'[d] = Tail(inbox[c]) /\ Len(inbox[c]) <= InboxDepth
        BY <1>0, <1>1, <3>1
      <4>2. QED
        BY <1>1, <1>2, <4>1
    <3>2. CASE d # c
      BY <1>0, <1>1, <3>2
    <3>3. QED
      BY <3>1, <3>2
  <2>3. QED
    BY <2>1, <2>2
<1>4. troubles' \in 0..MaxTroubles
  <2>1. troubles \in 0..MaxTroubles
    BY DEF SubsystemInv, OtherType
  <2>2. troubles' = troubles \/ (troubles < MaxTroubles /\ troubles' = troubles + 1)
    BY DEF Obey
  <2>3. QED
    BY <1>1, <2>1, <2>2
<1>5. ASSUME NEW x \in ChildModes, device' = [device EXCEPT ![c] = x], Tell(c, [type |-> "MODE_REPLY", mode |-> x])
      PROVE  SubsystemInv'
  <2>1. PICK m \in Messages : m = [type |-> "MODE_REPLY", mode |-> x]
    BY <1>5 DEF Messages
  <2>2. IsMode(m) /\ m.mode = device'[c] /\ Tell(c, m)
    BY <1>1, <1>5, <2>1 DEF IsMode
  <2>3. device' \in [Children -> ChildModes] /\ \A d \in Children \ {c} : device'[d] = device[d]
    BY <1>1, <1>5
  <2>4. QED
    BY <1>0, <1>1, <1>3, <1>4, <2>2, <2>3, TellKeeps
<1>6. CASE Tell(c, [type |-> "CANT_REACH_MODE"]) /\ UNCHANGED device
  <2>1. PICK m \in Messages : m = [type |-> "CANT_REACH_MODE"]
    BY DEF Messages
  <2>2. ~IsMode(m) /\ Tell(c, m)
    BY <1>6, <2>1 DEF IsMode
  <2>3. device' \in [Children -> ChildModes] /\ \A d \in Children : device'[d] = device[d]
    BY <1>1, <1>6
  <2>4. QED
    BY <1>0, <1>1, <1>3, <1>4, <2>2, <2>3, TellKeeps
<1>7. QED
  BY <1>1, <1>2, <1>5, <1>6 DEF Obey

LEMMA ChildChangesKeep ==
  ASSUME SubsystemInv, NEW c \in Children,
         (\E x \in ChildModes : Move(c, x)) \/ (\E h \in HealthStates : ChangeHealth(c, h))
  PROVE  SubsystemInv'
<1>1. /\ device \in [Children -> ChildModes] /\ health \in [Children -> HealthStates]
      /\ troubles \in 0..MaxTroubles /\ MaxTroubles \in Nat
      /\ inbox \in [Children -> Seq(ChildModes)] /\ \A d \in Children : Len(inbox[d]) <= InboxDepth
  BY SubsystemAssumption DEF SubsystemInv, TransitionType, OtherType
<1>2. /\ troubles < MaxTroubles /\ troubles' = troubles + 1 /\ commands' = commands
      /\ UNCHANGED subsystemVars
  BY DEF Move, ChangeHealth
<1>3. troubles' \in 0..MaxTroubles
  BY <1>1, <1>2
<1>4. UNCHANGED <<mode, targetMode, isInTransition, currentTargetTable, currentSequenceIterator,
                  uptimeStartTable, commandsOutstanding, inbox, forced, childMode, childrenChangedMode,
                  childrenChangedHealth, commanderVars, commands>>
  BY <1>2 DEF subsystemVars, transitionVars
<1>5. CASE \E x \in ChildModes : Move(c, x)
  <2>1. PICK x \in ChildModes : Move(c, x)
    BY <1>5
  <2>2. PICK m \in Messages : m = [type |-> "MODE_INFO", mode |-> x]
    BY DEF Messages
  <2>3. device' = [device EXCEPT ![c] = x] /\ Tell(c, m) /\ health' = health
    BY <2>1, <2>2 DEF Move
  <2>4. IsMode(m) /\ m.mode = device'[c]
    BY <1>1, <2>2, <2>3 DEF IsMode
  <2>5. device' \in [Children -> ChildModes] /\ \A d \in Children \ {c} : device'[d] = device[d]
    BY <1>1, <2>3
  <2>6. QED
    BY <1>1, <1>3, <1>4, <2>3, <2>4, <2>5, TellKeeps
<1>6. CASE \E h \in HealthStates : ChangeHealth(c, h)
  <2>1. PICK h \in HealthStates : ChangeHealth(c, h)
    BY <1>6
  <2>2. PICK m \in Messages : m = [type |-> "HEALTH_INFO", health |-> h]
    BY DEF Messages
  <2>3. health' = [health EXCEPT ![c] = h] /\ Tell(c, m) /\ device' = device
    BY <2>1, <2>2 DEF ChangeHealth
  <2>4. ~IsMode(m)
    BY <2>2 DEF IsMode
  <2>5. health' \in [Children -> HealthStates]
    BY <1>1, <2>3
  <2>6. QED
    BY <1>1, <1>3, <1>4, <2>3, <2>4, <2>5, TellKeeps
<1>7. QED
  BY <1>5, <1>6

-----------------------------------------------------------------------------

LEMMA SubsystemStep ==
  ASSUME SubsystemInv, [Next]_vars
  PROVE  SubsystemInv'
<1>1. CASE UNCHANGED vars
  BY <1>1 DEF vars, subsystemVars, commanderVars, CommanderOK, transitionVars, SubsystemInv, TransitionType, OtherType, NewsOK,
              SettledOK, checkStateAgainstTable
<1>2. CASE Next
  BY <1>2, ModeCommandKeeps, PerformChildOperationKeeps, CheckCommandQueueKeeps, ObeyKeeps,
     ChildChangesKeep DEF Next
<1>3. QED
  BY <1>1, <1>2

LEMMA SubsystemInvariant == Spec => []SubsystemInv
<1>1. Init => SubsystemInv
  BY SubsystemInitial
<1>2. SubsystemInv /\ [Next]_vars => SubsystemInv'
  BY SubsystemStep
<1>3. QED
  BY <1>1, <1>2, PTL DEF Spec

\* However many children, tables, commands and messages there are, a subsystem
\* at rest is in the mode it aimed for and has answered its last commander; when
\* it has heard everything, every child is where the target table wants it.  Who
\* still waits was displaced by a command to the fallback that ModeHelper took
\* before it had answered him (performChildOperation, transitionFailed,
\* cantKeepMode).
THEOREM RestAlwaysBacked == Spec => []RestIsBacked
<1>1. SubsystemInv => RestIsBacked
  BY InvGivesRest
<1>2. QED
  BY <1>1, SubsystemInvariant, PTL

\* The subsystem's state is well-typed; no more commands are outstanding than
\* there are children, and no queue overflows (executeTable).
THEOREM SubsystemTypeCorrect == Spec => []TypeOK
<1>1. SubsystemInv => TypeOK
  BY InvGivesType
<1>2. QED
  BY <1>1, SubsystemInvariant, PTL

ChangesForAReason ==
    mode' # mode =>
       \/ ~isInTransition' /\ mode' = targetMode /\ checkStateAgainstTable(modeSequences[mode'].target)
       \/ isInTransition' /\ mode' = getFallbackSequence(mode) /\ targetMode' = mode' /\ forced'

LEMMA FallBackHasAReason ==
  ASSUME FallBack
  PROVE  ChangesForAReason
BY DEF FallBack, startTransition, ChangesForAReason

\* The mode of a subsystem only ever becomes the target it has found reached, or
\* the fallback of the mode it had, and that by force (setMode,
\* transitionFailed, cantKeepMode).
THEOREM ModeOnlyChangesForAReason == Spec => ModeChangesForAReason
<1>1. ASSUME SubsystemInv, [Next]_vars
      PROVE  ChangesForAReason
  <2>1. CASE mode' = mode
    BY <2>1 DEF ChangesForAReason
  <2>2. CASE mode' # mode
    <3>1. performChildOperation
      BY <1>1, <2>2 DEF Next, vars, subsystemVars, ModeCommand, checkCommandQueue, Obey, Move, ChangeHealth
    <3>2. FallBack \/ (isInTransition /\ checkStateAgainstTable(currentTargetTable) /\ setMode)
      BY <2>2, <3>1 DEF performChildOperation, Transition, SequenceDone, TableDone, transitionFailed,
                        ChangedHealth, ChangedMode
    <3>3. CASE isInTransition /\ checkStateAgainstTable(currentTargetTable) /\ setMode
      <4>1. currentTargetTable = modeSequences[targetMode].target
        BY <1>1, <3>3 DEF SubsystemInv, SettledOK
      <4>2. QED
        BY <3>3, <4>1 DEF setMode, ChangesForAReason
    <3>4. QED
      BY <3>2, <3>3, FallBackHasAReason
  <2>3. QED
    BY <2>1, <2>2
<1>2. QED
  BY <1>1, SubsystemInvariant, PTL DEF Spec, ModeChangesForAReason, ChangesForAReason

=============================================================================
