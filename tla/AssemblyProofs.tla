---------------------------- MODULE AssemblyProofs ----------------------------
(***************************************************************************)
(* Theorems about Assembly, for any number of devices.                     *)
(*                                                                         *)
(* As for a subsystem, the messages under way (NewsOK) are between what    *)
(* the devices do and what the assembly has noted (SettledOK); a device    *)
(* that comes back from external control is to be looked at as soon as its *)
(* news has been heard (Excused).                                          *)
(***************************************************************************)
EXTENDS Assembly, FiniteSetTheorems, SequenceTheorems, TLAPS

Messages ==
    [type : {"MODE_REPLY", "MODE_INFO"}, mode : Modes]
      \cup [type : {"CANT_REACH_MODE", "HEALTH_SET"}] \cup [type : {"HEALTH_INFO"}, health : HealthStates]

IsMode(m) == m.type \in {"MODE_REPLY", "MODE_INFO"}
IsHealth(m) == m.type = "HEALTH_INFO" /\ m.health # "EXTERNAL_CONTROL"

\* The assembly's transition, its queues to the devices, and the rest.
TransitionType ==
    /\ targetMode \in Modes /\ internalState \in InternalStates /\ forced \in BOOLEAN
    /\ commandsOutstanding \in Int

QueueType ==
    /\ inbox \in [Children -> Seq(Modes \cup HealthStates)]
    /\ \A c \in Children : Len(inbox[c]) <= InboxDepth

RecoveryType ==
    /\ recoveryState \in RecoveryStates /\ recoveringDevice \in Children \cup {None}
    /\ recoveryState # "IDLE" => recoveringDevice \in Children
    /\ healthChanged \subseteq Children /\ overlooked \subseteq Children

\* Who waits is in ModeHelper's mind, or has been displaced.
CommanderOK ==
    /\ theOneWhoCommandedAMode \in 0..commands /\ waiting \subseteq 1..commands /\ displaced \subseteq 1..commands
    /\ waiting \subseteq displaced \cup ({theOneWhoCommandedAMode} \ {0})

OtherType ==
    /\ mode \in Modes /\ problems \in BOOLEAN /\ CommanderOK
    /\ childMode \in [Children -> Modes \cup {"UNKNOWN"}] /\ childrenChangedMode \in BOOLEAN
    /\ health \in [Children -> HealthStates]
    /\ device \in [Children -> Modes] /\ going \in [Children -> Modes \cup {None}]
    /\ outbox \in [Children -> Seq(Messages)]
    /\ commands \in 0..MaxCommands /\ events \in 0..MaxEvents

\* What is outstanding, by the way it was sent: sendHealthCommand adds to what
\* was not yet answered, executeTable begins anew.
OutstandingOK ==
    commandsOutstanding <= CASE internalState = "NONE" -> 1
                             [] internalState = "OVERWRITE_HEALTH" -> 2
                             [] OTHER -> Cardinality(Children)

\* The last news of a device's mode that is under way is the mode it has; if
\* there is none the assembly knows the mode, or the device has been off
\* since the start.
NewsOf(box, noted, actual) ==
    \/ \E i \in 1..Len(box) : /\ IsMode(box[i]) /\ box[i].mode = actual
                              /\ \A j \in (i + 1)..Len(box) : ~IsMode(box[j])
    \/ /\ \A i \in 1..Len(box) : ~IsMode(box[i])
       /\ noted = actual \/ (noted = "UNKNOWN" /\ actual = "OFF")

NewsOK == \A c \in Children : NewsOf(outbox[c], childMode[c], device[c])

HealthNews(box) == \E i \in 1..Len(box) : IsHealth(box[i])

\* A device that need not be off, or about which something is to be seen to.
Excused(c) == ~isCommandable(c) \/ c \in healthChanged \/ HealthNews(outbox[c])

OnCount == Cardinality({ c \in Children : childMode[c] = "ON" })

Backed ==
    \/ mode = "ON" /\ OnCount >= Enough
    \/ mode = "OFF" /\ (problems \/ \A c \in Children : childMode[c] \in {"OFF", "UNKNOWN"} \/ Excused(c))

SettledOK ==
    ~isInTransition => mode = targetMode /\ theOneWhoCommandedAMode = 0 /\ (childrenChangedMode \/ Backed)

AssemblyInv ==
    /\ TransitionType /\ QueueType /\ RecoveryType /\ OtherType /\ OutstandingOK
    /\ NewsOK /\ SettledOK

-----------------------------------------------------------------------------

LEMMA ChildrenCounted ==
    /\ IsFiniteSet(Children) /\ Cardinality(Children) \in Nat /\ Cardinality(Children) >= 1
    /\ Enough \in Nat /\ Enough >= 1
BY AssemblyAssumption, FS_CardinalityType

LEMMA InvGivesType ==
  ASSUME AssemblyInv
  PROVE  TypeOK
<1>1. commandsOutstanding \in Int /\ commandsOutstanding <= MaxOutstanding
  BY ChildrenCounted DEF AssemblyInv, TransitionType, OutstandingOK, MaxOutstanding
<1>2. QED
  BY <1>1 DEF AssemblyInv, TransitionType, QueueType, RecoveryType, OtherType, CommanderOK, TypeOK

LEMMA InvGivesBacked ==
  ASSUME AssemblyInv
  PROVE  RestIsFinal /\ ModeIsBacked
<1>1. RestIsFinal
  BY DEF AssemblyInv, SettledOK, OtherType, CommanderOK, RestIsFinal
<1>2. ASSUME AtRest, NoNews
      PROVE  \/ mode = "ON" /\ Cardinality({ c \in Children : device[c] = "ON" }) >= Enough
             \/ mode = "OFF" /\ (problems \/ \A c \in Children : isCommandable(c) => device[c] = "OFF")
  <2>1. ASSUME NEW c \in Children
        PROVE  childMode[c] = device[c] \/ (childMode[c] = "UNKNOWN" /\ device[c] = "OFF")
    BY <1>2 DEF AssemblyInv, NewsOK, NewsOf, NoNews
  <2>2. ASSUME NEW c \in Children PROVE c \notin healthChanged /\ ~HealthNews(outbox[c])
    BY <1>2 DEF AtRest, NoNews, HealthNews
  <2>3. Backed
    BY <1>2 DEF AtRest, AssemblyInv, SettledOK
  <2>4. CASE mode = "ON" /\ OnCount >= Enough
    <3> DEFINE noted == { c \in Children : childMode[c] = "ON" }
               on == { c \in Children : device[c] = "ON" }
    <3>1. noted \subseteq on /\ on \subseteq Children
      BY <2>1
    <3>2. IsFiniteSet(on) /\ Cardinality(noted) = OnCount
      BY <3>1, ChildrenCounted, FS_Subset DEF OnCount
    <3> HIDE DEF noted, on
    <3>3. Cardinality(noted) <= Cardinality(on) /\ Cardinality(on) \in Nat /\ Cardinality(noted) \in Nat
      BY <3>1, <3>2, FS_Subset, FS_CardinalityType
    <3>4. Cardinality(on) >= Enough
      BY <2>4, <3>2, <3>3, ChildrenCounted
    <3>5. QED
      BY <2>4, <3>4 DEF on
  <2>5. CASE mode = "OFF" /\ (problems \/ \A c \in Children : childMode[c] \in {"OFF", "UNKNOWN"} \/ Excused(c))
    <3>1. ASSUME NEW c \in Children, isCommandable(c), ~problems PROVE device[c] = "OFF"
      <4>1. ~Excused(c)
        BY <2>2, <3>1 DEF Excused
      <4>2. childMode[c] \in {"OFF", "UNKNOWN"}
        BY <2>5, <3>1, <4>1
      <4>3. device[c] # "UNKNOWN"
        BY DEF AssemblyInv, OtherType, Modes
      <4>4. QED
        BY <2>1, <4>2, <4>3
    <3>2. QED
      BY <2>5, <3>1
  <2>6. QED
    BY <2>3, <2>4, <2>5 DEF Backed
<1>3. QED
  BY <1>1, <1>2 DEF ModeIsBacked

LEMMA AssemblyInitial ==
  ASSUME Init
  PROVE  AssemblyInv
<1>1. QueueType
  <2>1. inbox \in [Children -> Seq(Modes \cup HealthStates)] /\ \A c \in Children : Len(inbox[c]) = 0
    BY EmptySeq DEF Init
  <2>2. QED
    BY <2>1, AssemblyAssumption DEF QueueType
<1>2. OtherType
  <2>1. outbox \in [Children -> Seq(Messages)]
    BY EmptySeq DEF Init
  <2>2. childMode \in [Children -> Modes \cup {"UNKNOWN"}] /\ device \in [Children -> Modes]
        /\ going \in [Children -> Modes \cup {None}] /\ health \in [Children -> HealthStates]
    BY DEF Init, Modes, HealthStates
  <2>3. commands \in 0..MaxCommands /\ events \in 0..MaxEvents
    BY AssemblyAssumption DEF Init
  <2>4. mode \in Modes /\ problems \in BOOLEAN /\ CommanderOK /\ childrenChangedMode \in BOOLEAN
    <3>1. CommanderOK
      BY DEF Init, CommanderOK
    <3>2. QED
      BY <3>1 DEF Init, Modes
  <2>5. QED
    BY <2>1, <2>2, <2>3, <2>4 DEF OtherType
<1>3. TransitionType /\ RecoveryType /\ OutstandingOK
  <2>1. TransitionType
    <3>1. targetMode \in Modes /\ internalState \in InternalStates /\ commandsOutstanding \in Int
      BY DEF Init, Modes, InternalStates
    <3>2. forced \in BOOLEAN
      BY DEF Init
    <3>3. QED
      BY <3>1, <3>2 DEF TransitionType
  <2>2. RecoveryType
    BY DEF Init, RecoveryType, RecoveryStates
  <2>3. OutstandingOK
    BY DEF Init, OutstandingOK
  <2>4. QED
    BY <2>1, <2>2, <2>3
<1>4. NewsOK
  BY DEF Init, NewsOK, NewsOf
<1>5. SettledOK
  BY DEF Init, SettledOK, Backed
<1>6. QED
  BY <1>1, <1>2, <1>3, <1>4, <1>5 DEF AssemblyInv

-----------------------------------------------------------------------------
(* Commands to the devices *)

LEMMA ExecuteTableTyped ==
  ASSUME QueueType, NEW table \in [Children -> Modes], NEW isForced, executeTable(table, isForced)
  PROVE  /\ QueueType'
         /\ commandsOutstanding' \in Int /\ commandsOutstanding' <= Cardinality(Children)
<1> DEFINE command == [c \in Children |-> IF isFaulty(c) THEN "OFF" ELSE table[c]]
           sent == { c \in Children : /\ isFaulty(c) \/ isForced \/ isCommandable(c)
                                      /\ isForced \/ childMode[c] # command[c]
                                      /\ Len(inbox[c]) < InboxDepth }
<1>1. /\ inbox' = [c \in Children |-> IF c \in sent THEN Append(inbox[c], command[c]) ELSE inbox[c]]
      /\ commandsOutstanding' = Cardinality(sent)
  BY DEF executeTable, Outstanding
<1>2. sent \in SUBSET Children /\ \A c \in sent : Len(inbox[c]) < InboxDepth
  OBVIOUS
<1>3. \A c \in Children : command[c] \in Modes
  BY DEF Modes
<1> HIDE DEF sent, command
<1>4. Cardinality(sent) \in Nat /\ Cardinality(sent) <= Cardinality(Children)
  BY <1>2, ChildrenCounted, FS_Subset, FS_CardinalityType
<1>5. ASSUME NEW c \in Children
      PROVE  inbox'[c] \in Seq(Modes \cup HealthStates) /\ Len(inbox'[c]) <= InboxDepth
  <2>1. inbox[c] \in Seq(Modes \cup HealthStates) /\ Len(inbox[c]) <= InboxDepth /\ Len(inbox[c]) \in Nat
    BY DEF QueueType
  <2>2. CASE c \in sent
    <3>1. inbox'[c] = Append(inbox[c], command[c]) /\ command[c] \in Modes \cup HealthStates
      BY <1>1, <1>3, <2>2
    <3>2. Len(inbox'[c]) = Len(inbox[c]) + 1 /\ inbox'[c] \in Seq(Modes \cup HealthStates)
      BY <2>1, <3>1, AppendProperties
    <3>3. QED
      BY <1>2, <2>1, <2>2, <3>2, AssemblyAssumption
  <2>3. CASE c \notin sent
    BY <1>1, <2>1, <2>3
  <2>4. QED
    BY <2>2, <2>3
<1>6. inbox' \in [Children -> Seq(Modes \cup HealthStates)]
  BY <1>1, <1>5
<1>7. QED
  BY <1>1, <1>4, <1>5, <1>6 DEF QueueType

LEMMA SendHealthCommandTyped ==
  ASSUME QueueType, commandsOutstanding \in Int, NEW c \in Children, NEW h \in HealthStates,
         sendHealthCommand(c, h)
  PROVE  /\ QueueType'
         /\ commandsOutstanding' \in Int /\ commandsOutstanding' <= commandsOutstanding + 1
<1>1. CASE Len(inbox[c]) < InboxDepth
  <2>1. /\ inbox' = [inbox EXCEPT ![c] = Append(@, h)] /\ commandsOutstanding' = commandsOutstanding + 1
        /\ inbox \in [Children -> Seq(Modes \cup HealthStates)] /\ inbox[c] \in Seq(Modes \cup HealthStates)
        /\ InboxDepth \in Nat /\ h \in Modes \cup HealthStates
    BY <1>1, AssemblyAssumption DEF sendHealthCommand, QueueType
  <2>2. /\ Append(inbox[c], h) \in Seq(Modes \cup HealthStates) /\ Len(inbox[c]) \in Nat
        /\ Len(Append(inbox[c], h)) = Len(inbox[c]) + 1
    BY <2>1, AppendProperties
  <2>3. inbox' \in [Children -> Seq(Modes \cup HealthStates)]
    BY <2>1, <2>2
  <2>4. ASSUME NEW d \in Children PROVE Len(inbox'[d]) <= InboxDepth
    <3>1. CASE d = c
      <4>1. inbox'[d] = Append(inbox[c], h)
        BY <2>1, <3>1
      <4>2. QED
        BY <1>1, <2>1, <2>2, <4>1
    <3>2. CASE d # c
      BY <2>1, <3>2 DEF QueueType
    <3>3. QED
      BY <3>1, <3>2
  <2>5. QED
    BY <2>1, <2>3, <2>4 DEF QueueType
<1>2. CASE ~(Len(inbox[c]) < InboxDepth)
  BY <1>2 DEF sendHealthCommand, QueueType
<1>3. QED
  BY <1>1, <1>2

\* commandChildren leaves the assembly in a transition.
LEMMA CommandChildrenTyped ==
  ASSUME AssemblyInv, NEW m \in Modes, NEW isForced \in BOOLEAN, NEW step \in {"SINGLE_STEP", "SECOND_STEP"},
         commandChildren(m, isForced, step), m = "OFF" \/ commandsOutstanding <= 1
  PROVE  /\ internalState' \in InternalStates \ {"NONE"} /\ forced' \in BOOLEAN
         /\ commandsOutstanding' \in Int /\ QueueType' /\ OutstandingOK'
<1>0. QueueType /\ commandsOutstanding \in Int
  BY DEF AssemblyInv, TransitionType
<1>1. CASE /\ m = "OFF" /\ executeTable([c \in Children |-> "OFF"], isForced)
           /\ internalState' = step /\ forced' = isForced
  <2>1. PICK table \in [Children -> Modes] : executeTable(table, isForced)
    BY <1>1 DEF Modes
  <2>2. commandsOutstanding' \in Int /\ QueueType' /\ commandsOutstanding' <= Cardinality(Children)
    BY <1>0, <2>1, ExecuteTableTyped
  <2>3. QED
    BY <1>1, <2>2 DEF OutstandingOK, InternalStates
<1>2. CASE /\ \E s \in Choices : executeTable([c \in Children |-> IF c \in s THEN "ON" ELSE "OFF"], isForced)
           /\ internalState' \in {step, "NEED_SECOND_STEP"} /\ forced' = isForced
  <2>1. PICK s \in Choices : executeTable([c \in Children |-> IF c \in s THEN "ON" ELSE "OFF"], isForced)
    BY <1>2
  <2>2. PICK table \in [Children -> Modes] : executeTable(table, isForced)
    BY <2>1 DEF Modes
  <2>3. commandsOutstanding' \in Int /\ QueueType' /\ commandsOutstanding' <= Cardinality(Children)
    BY <1>0, <2>2, ExecuteTableTyped
  <2>4. QED
    BY <1>2, <2>3 DEF OutstandingOK, InternalStates
<1>3. CASE /\ m = "ON" /\ \E c \in Children : health[c] = "FAULTY" /\ sendHealthCommand(c, "EXTERNAL_CONTROL")
           /\ internalState' = "OVERWRITE_HEALTH" /\ forced' = TRUE
  <2>1. PICK c \in Children : sendHealthCommand(c, "EXTERNAL_CONTROL")
    BY <1>3
  <2>2. "EXTERNAL_CONTROL" \in HealthStates
    BY DEF HealthStates
  <2>3. commandsOutstanding' \in Int /\ QueueType' /\ commandsOutstanding' <= commandsOutstanding + 1
    BY <1>0, <2>1, <2>2, SendHealthCommandTyped
  <2>4. commandsOutstanding' <= 2
    BY <1>0, <1>3, <2>3
  <2>5. QED
    BY <1>3, <2>3, <2>4 DEF OutstandingOK, InternalStates
<1>4. QED
  BY <1>1, <1>2, <1>3 DEF commandChildren

-----------------------------------------------------------------------------
(* Steps of the assembly that leave the messages of the devices alone *)

LEMMA QuietKeeps ==
  ASSUME AssemblyInv, TransitionType', QueueType', RecoveryType', OutstandingOK', SettledOK',
         mode' \in Modes, problems' \in BOOLEAN, CommanderOK', childrenChangedMode' \in BOOLEAN,
         commands' \in 0..MaxCommands,
         UNCHANGED <<childMode, health, device, going, outbox, events>>
  PROVE  AssemblyInv'
<1>1. OtherType' /\ NewsOK'
  BY DEF AssemblyInv, OtherType, NewsOK
<1>2. QED
  BY <1>1 DEF AssemblyInv

\* Nobody commands, and nobody is answered.
LEMMA CommanderStays ==
  ASSUME CommanderOK, UNCHANGED <<commanderVars, commands>>
  PROVE  CommanderOK'
BY DEF CommanderOK, commanderVars

\* A transition is started or goes on.
LEMMA CommandKeeps ==
  ASSUME AssemblyInv, NEW m \in Modes, NEW isForced \in BOOLEAN, NEW step \in {"SINGLE_STEP", "SECOND_STEP"},
         commandChildren(m, isForced, step), m = "OFF" \/ commandsOutstanding <= 1,
         targetMode' \in Modes, RecoveryType', CommanderOK', childrenChangedMode' \in BOOLEAN,
         commands' \in 0..MaxCommands,
         UNCHANGED <<mode, problems, childMode, health, device, going, outbox, events>>
  PROVE  AssemblyInv'
<1>1. /\ internalState' \in InternalStates \ {"NONE"} /\ forced' \in BOOLEAN
      /\ commandsOutstanding' \in Int /\ QueueType' /\ OutstandingOK'
  BY CommandChildrenTyped
<1>2. TransitionType'
  BY <1>1 DEF TransitionType
<1>3. SettledOK'
  BY <1>1 DEF SettledOK, isInTransition
<1>4. mode' \in Modes /\ problems' \in BOOLEAN
  BY DEF AssemblyInv, OtherType
<1>5. QED
  BY <1>1, <1>2, <1>3, <1>4, QuietKeeps

LEMMA TransitionKeeps ==
  ASSUME AssemblyInv, NEW m \in Modes, Transition(m), m = "OFF" \/ commandsOutstanding <= 1,
         RecoveryType', childrenChangedMode' = FALSE,
         UNCHANGED <<childMode, health, device, going, outbox, commands, events>>
  PROVE  AssemblyInv'
<1>1. forced \in BOOLEAN /\ CommanderOK' /\ commands' \in 0..MaxCommands
  BY CommanderStays DEF AssemblyInv, TransitionType, OtherType, Transition
<1>2. commandChildren(m, forced, "SINGLE_STEP") /\ targetMode' \in Modes /\ UNCHANGED <<mode, problems>>
  BY DEF Transition, doStartTransition, modeVars
<1>3. QED
  BY <1>1, <1>2, CommandKeeps

\* Nothing is done, and the assembly is in a transition or at rest for a reason.
LEMMA IdleKeeps ==
  ASSUME AssemblyInv, NothingToDo, RecoveryType', childrenChangedMode' = FALSE,
         isInTransition' \/ (~isInTransition /\ Backed'),
         UNCHANGED <<childMode, health, device, going, outbox, commands, events>>
  PROVE  AssemblyInv'
<1>1. UNCHANGED <<mode, problems, targetMode, internalState, commandsOutstanding, inbox, forced, commanderVars>>
  BY DEF NothingToDo, modeVars
<1>2. TransitionType' /\ QueueType' /\ OutstandingOK'
  BY <1>1 DEF AssemblyInv, TransitionType, QueueType, OutstandingOK
<1>3. /\ mode' \in Modes /\ problems' \in BOOLEAN /\ CommanderOK' /\ childrenChangedMode' \in BOOLEAN
      /\ commands' \in 0..MaxCommands
  BY <1>1, CommanderStays DEF AssemblyInv, OtherType
<1>4. SettledOK'
  BY <1>1 DEF AssemblyInv, SettledOK, commanderVars
<1>5. QED
  BY <1>2, <1>3, <1>4, QuietKeeps

LEMMA StateBacks ==
  ASSUME AssemblyInv, mode' = targetMode, UNCHANGED <<childMode, health>>,
         checkChildrenState \/ (targetMode = "OFF" /\ problems')
  PROVE  Backed'
<1>1. targetMode \in Modes
  BY DEF AssemblyInv, TransitionType
<1>2. CASE targetMode = "ON"
  BY <1>2 DEF checkChildrenState, Backed, OnCount
<1>3. CASE targetMode = "OFF"
  <2>1. problems' \/ \A c \in Children : isCommandable(c) => childMode[c] = "OFF"
    BY <1>3 DEF checkChildrenState, checkChildOff
  <2>2. \A c \in Children : isCommandable(c)' = isCommandable(c) /\ childMode'[c] = childMode[c]
    BY DEF isCommandable
  <2>3. problems' \/ \A c \in Children : childMode'[c] \in {"OFF", "UNKNOWN"} \/ Excused(c)'
    BY <2>1, <2>2 DEF Excused
  <2>4. QED
    BY <1>3, <2>3 DEF Backed
<1>4. QED
  BY <1>1, <1>2, <1>3 DEF Modes

LEMMA HealthKeeps ==
  ASSUME AssemblyInv, NEW c \in Children, handleChildrenChangedHealth(c), commandsOutstanding <= 1,
         childrenChangedMode' = FALSE,
         UNCHANGED <<childMode, health, device, going, outbox, commands, events>>
  PROVE  AssemblyInv'
<1>1. /\ healthChanged \subseteq Children /\ overlooked \subseteq Children
      /\ healthChanged' = healthChanged \ {c} /\ overlooked' = overlooked
      /\ mode \in Modes /\ targetMode \in Modes
  BY DEF AssemblyInv, RecoveryType, TransitionType, OtherType, handleChildrenChangedHealth
<1>2. CASE recoveryState' = "STARTED" /\ recoveringDevice' = c /\ Transition(targetMode)
  <2>1. RecoveryType'
    BY <1>1, <1>2 DEF RecoveryType, RecoveryStates
  <2>2. QED
    BY <1>1, <1>2, <2>1, TransitionKeeps
<1>3. CASE Transition(mode) /\ RecoveryDone
  <2>1. RecoveryType'
    BY <1>1, <1>3 DEF RecoveryType, RecoveryStates, RecoveryDone
  <2>2. QED
    BY <1>1, <1>3, <2>1, TransitionKeeps
<1>4. QED
  BY <1>2, <1>3 DEF handleChildrenChangedHealth

LEMMA ChangedKeeps ==
  ASSUME AssemblyInv, ~isInTransition, handleChildrenChanged, childrenChangedMode' = FALSE,
         UNCHANGED <<childMode, health, device, going, outbox, commands, events>>
  PROVE  AssemblyInv'
<1>1. /\ mode = targetMode /\ (childrenChangedMode \/ Backed) /\ commandsOutstanding <= 1 /\ "OFF" \in Modes
      /\ healthChanged \subseteq Children
  BY DEF AssemblyInv, SettledOK, OutstandingOK, isInTransition, Modes, RecoveryType
<1>2. UNCHANGED recoveryVars => RecoveryType'
  BY DEF AssemblyInv, RecoveryType, recoveryVars
<1>3. CASE checkChildrenState /\ NothingToDo /\ UNCHANGED recoveryVars
  <2>1. mode' = targetMode
    BY <1>1, <1>3 DEF NothingToDo, modeVars
  <2>2. Backed'
    BY <1>3, <2>1, StateBacks
  <2>3. QED
    BY <1>2, <1>3, <2>2, IdleKeeps
<1>4. CASE Transition("OFF") /\ UNCHANGED recoveryVars
  BY <1>1, <1>2, <1>4, TransitionKeeps
<1>5. CASE \E c \in healthChanged : handleChildrenChangedHealth(c)
  BY <1>1, <1>5, HealthKeeps
<1>6. CASE ~childrenChangedMode /\ NothingToDo /\ UNCHANGED recoveryVars
  <2>1. UNCHANGED <<mode, problems, healthChanged>>
    BY <1>6 DEF NothingToDo, modeVars, recoveryVars
  <2>2. Backed'
    BY <1>1, <1>6, <2>1 DEF Backed, OnCount, Excused, isCommandable
  <2>3. QED
    BY <1>2, <1>6, <2>2, IdleKeeps
<1>7. QED
  BY <1>3, <1>4, <1>5, <1>6 DEF handleChildrenChanged

LEMMA RecoveryKeeps ==
  ASSUME AssemblyInv, commandsOutstanding <= 0, checkAndHandleRecovery, childrenChangedMode' = FALSE,
         UNCHANGED <<childMode, health, device, going, outbox, commands, events>>
  PROVE  AssemblyInv'
<1>1. /\ targetMode \in Modes /\ commandsOutstanding \in Int /\ recoveryState # "IDLE" /\ recoveringDevice \in Children
      /\ healthChanged \subseteq Children /\ overlooked \subseteq Children
  BY DEF AssemblyInv, RecoveryType, TransitionType, checkAndHandleRecovery, RecoveryWait, RecoveryOngoing
<1>2. commandsOutstanding <= 1 /\ commandsOutstanding + 1 <= 1
  BY <1>1
<1>3. CASE /\ recoveryState' = "WAIT" /\ NothingToDo
           /\ UNCHANGED <<recoveringDevice, healthChanged, overlooked>>
  <2>1. RecoveryType' /\ isInTransition'
    BY <1>1, <1>3 DEF RecoveryType, RecoveryStates, isInTransition
  <2>2. QED
    BY <1>3, <2>1, IdleKeeps
<1>4. CASE NothingToDo /\ UNCHANGED recoveryVars
  <2>1. RecoveryType' /\ isInTransition'
    BY <1>1, <1>4 DEF AssemblyInv, RecoveryType, isInTransition, recoveryVars
  <2>2. QED
    BY <1>4, <2>1, IdleKeeps
<1>5. CASE RecoveryWait
  <2>1. /\ recoveryState' = "ONGOING" /\ internalState' = "NONE"
        /\ sendHealthCommand(recoveringDevice, "HEALTHY")
        /\ overlooked' = overlooked \cup { c \in {recoveringDevice} : inbox' = inbox }
        /\ UNCHANGED <<mode, problems, targetMode, forced, commanderVars, recoveringDevice, healthChanged>>
    BY <1>5 DEF RecoveryWait, modeVars
  <2>2. "HEALTHY" \in HealthStates /\ QueueType
    BY DEF HealthStates, AssemblyInv
  <2>3. QueueType' /\ commandsOutstanding' \in Int /\ commandsOutstanding' <= commandsOutstanding + 1
    BY <1>1, <2>1, <2>2, SendHealthCommandTyped
  <2>4. TransitionType'
    BY <2>1, <2>3 DEF AssemblyInv, TransitionType, InternalStates
  <2>5. OutstandingOK'
    BY <1>1, <1>2, <2>1, <2>3 DEF OutstandingOK
  <2>6. RecoveryType' /\ SettledOK'
    BY <1>1, <2>1 DEF RecoveryType, RecoveryStates, SettledOK, isInTransition
  <2>7. /\ mode' \in Modes /\ problems' \in BOOLEAN /\ CommanderOK' /\ childrenChangedMode' \in BOOLEAN
        /\ commands' \in 0..MaxCommands
    BY <2>1, CommanderStays DEF AssemblyInv, OtherType
  <2>8. QED
    BY <2>3, <2>4, <2>5, <2>6, <2>7, QuietKeeps
<1>6. CASE RecoveryOngoing
  <2>1. RecoveryType'
    BY <1>1, <1>6 DEF RecoveryOngoing, RecoveryType, RecoveryStates
  <2>2. QED
    BY <1>1, <1>2, <1>6, <2>1, TransitionKeeps DEF RecoveryOngoing
<1>7. QED
  BY <1>3, <1>4, <1>5, <1>6 DEF checkAndHandleRecovery

LEMMA VerdictKeeps ==
  ASSUME AssemblyInv, commandsOutstanding <= 0, Verdict, childrenChangedMode' = FALSE,
         UNCHANGED <<childMode, health, device, going, outbox, commands, events>>
  PROVE  AssemblyInv'
<1>1. /\ commandsOutstanding \in Int /\ "OFF" \in Modes /\ targetMode \in Modes
      /\ healthChanged \subseteq Children /\ overlooked \subseteq Children
  BY DEF AssemblyInv, RecoveryType, TransitionType, Modes
<1>2. commandsOutstanding <= 1
  BY <1>1
<1>3. RecoveryDone /\ UNCHANGED <<healthChanged, overlooked>> => RecoveryType'
  BY <1>1 DEF RecoveryDone, RecoveryType, RecoveryStates
<1>4. CASE /\ checkChildrenState \/ targetMode = "OFF"
           /\ setMode /\ RecoveryDone /\ UNCHANGED <<healthChanged, overlooked>>
  <2>1. /\ internalState' = "NONE" /\ mode' = targetMode /\ problems' = ~checkChildrenState
        /\ forced' = FALSE /\ CommanderAnswered
        /\ UNCHANGED <<targetMode, commandsOutstanding, inbox>>
    BY <1>4 DEF setMode
  <2>2. Backed'
    <3>1. checkChildrenState \/ (targetMode = "OFF" /\ problems')
      BY <1>4, <2>1
    <3>2. QED
      BY <2>1, <3>1, StateBacks
  <2>3. SettledOK'
    BY <2>1, <2>2 DEF SettledOK, CommanderAnswered
  <2>4. QueueType' /\ OutstandingOK'
    BY <1>2, <2>1 DEF AssemblyInv, QueueType, OutstandingOK
  <2>5. forced' \in BOOLEAN /\ CommanderOK' /\ problems' \in BOOLEAN /\ childrenChangedMode' \in BOOLEAN
    <3>1. CommanderOK'
      BY <2>1 DEF AssemblyInv, OtherType, CommanderOK, CommanderAnswered
    <3>2. QED
      BY <2>1, <3>1
  <2>6. TransitionType'
    BY <1>1, <2>1, <2>5 DEF TransitionType, InternalStates
  <2>7. mode' \in Modes /\ commands' \in 0..MaxCommands
    BY <1>1, <2>1 DEF AssemblyInv, OtherType
  <2>8. QED
    BY <1>3, <1>4, <2>3, <2>4, <2>5, <2>6, <2>7, QuietKeeps
<1>5. CASE Transition("OFF") /\ RecoveryDone /\ UNCHANGED <<healthChanged, overlooked>>
  BY <1>1, <1>3, <1>5, TransitionKeeps
<1>6. CASE \E c \in healthChanged : handleChildrenChangedHealth(c)
  BY <1>1, <1>2, <1>6, HealthKeeps
<1>7. QED
  BY <1>4, <1>5, <1>6 DEF Verdict

LEMMA PerformChildOperationKeeps ==
  ASSUME AssemblyInv, performChildOperation
  PROVE  AssemblyInv'
<1>0. /\ childrenChangedMode' = FALSE
      /\ UNCHANGED <<childMode, health, device, going, outbox, commands, events>>
  BY DEF performChildOperation, deviceVars
<1>1. CASE ~isInTransition
  BY <1>0, <1>1, ChangedKeeps DEF performChildOperation
<1>2. CASE isInTransition
  <2>0. handleChildrenTransition
    BY <1>2 DEF performChildOperation
  <2>1. CASE NothingToDo /\ UNCHANGED recoveryVars
    <3>1. RecoveryType' /\ isInTransition'
      BY <1>2, <2>1 DEF AssemblyInv, RecoveryType, isInTransition, recoveryVars, NothingToDo
    <3>2. QED
      BY <1>0, <2>1, <3>1, IdleKeeps
  <2>2. CASE commandsOutstanding <= 0 /\ NextStep
    <3>1. /\ forced \in BOOLEAN /\ mode \in Modes /\ targetMode \in Modes /\ commandsOutstanding <= 1
          /\ commands' \in 0..MaxCommands
      BY <1>0, <2>2 DEF AssemblyInv, TransitionType, OtherType
    <3>2. UNCHANGED <<mode, problems, targetMode, commanderVars, recoveryVars>>
      BY <2>2 DEF NextStep, modeVars
    <3>3. RecoveryType' /\ targetMode' \in Modes /\ CommanderOK' /\ childrenChangedMode' \in BOOLEAN
      BY <1>0, <3>1, <3>2, CommanderStays DEF AssemblyInv, RecoveryType, recoveryVars, OtherType
    <3>4. \/ commandChildren(targetMode, forced, "SECOND_STEP")
          \/ commandChildren(mode, forced, "SINGLE_STEP")
      BY <2>2 DEF NextStep
    <3>5. QED
      BY <1>0, <3>1, <3>2, <3>3, <3>4, CommandKeeps
  <2>3. CASE commandsOutstanding <= 0 /\ (checkAndHandleRecovery \/ Verdict)
    BY <1>0, <2>3, RecoveryKeeps, VerdictKeeps
  <2>4. QED
    BY <2>0, <2>1, <2>2, <2>3 DEF handleChildrenTransition
<1>3. QED
  BY <1>1, <1>2

LEMMA ModeCommandKeeps ==
  ASSUME AssemblyInv, NEW m \in Modes, NEW isForced \in BOOLEAN, ModeCommand(m, isForced)
  PROVE  AssemblyInv'
<1>0. /\ UNCHANGED <<mode, problems, recoveryVars, childMode, childrenChangedMode, health, device, going, outbox, events>>
      /\ commands' \in 0..MaxCommands /\ forced \in BOOLEAN
      /\ commands \in Nat /\ commands' = commands + 1
  <2>1. commands \in 0..MaxCommands /\ commands < MaxCommands /\ commands' = commands + 1
    BY DEF ModeCommand, AssemblyInv, OtherType
  <2>2. commands' \in 0..MaxCommands
    BY <2>1, AssemblyAssumption
  <2>3. QED
    BY <2>1, <2>2 DEF ModeCommand, modeVars, deviceVars, AssemblyInv, TransitionType
<1>1. RecoveryType' /\ mode' \in Modes /\ problems' \in BOOLEAN /\ CommanderOK /\ childrenChangedMode' \in BOOLEAN
  BY <1>0 DEF AssemblyInv, RecoveryType, OtherType, recoveryVars
<1>2. (forced \/ isForced) \in BOOLEAN
  BY <1>0
<1>3. CASE /\ m = "OFF" \/ internalState = "NONE"
           /\ Commanded(commands') /\ doStartTransition(m, forced \/ isForced)
  <2>1. PICK b \in BOOLEAN : doStartTransition(m, b)
    BY <1>2, <1>3
  <2>2. commandChildren(m, b, "SINGLE_STEP") /\ targetMode' \in Modes
    BY <2>1 DEF doStartTransition
  <2>3. m = "OFF" \/ commandsOutstanding <= 1
    BY <1>3 DEF AssemblyInv, OutstandingOK
  <2>4. CommanderOK'
    BY <1>0, <1>1, <1>3 DEF CommanderOK, Commanded
  <2>5. QED
    BY <1>0, <1>1, <2>2, <2>3, <2>4, CommandKeeps
<1>4. CASE /\ internalState # "NONE" /\ forced' = (forced \/ isForced)
           /\ UNCHANGED <<targetMode, internalState, commandsOutstanding, inbox, commanderVars>>
  <2>1. forced' \in BOOLEAN /\ CommanderOK'
    <3>1. CommanderOK'
      BY <1>0, <1>1, <1>4 DEF CommanderOK, commanderVars
    <3>2. QED
      BY <1>2, <1>4, <3>1
  <2>2. TransitionType' /\ QueueType' /\ OutstandingOK'
    BY <1>4, <2>1 DEF AssemblyInv, TransitionType, QueueType, OutstandingOK
  <2>3. SettledOK'
    BY <1>4 DEF SettledOK, isInTransition
  <2>4. QED
    BY <1>0, <1>1, <2>1, <2>2, <2>3, QuietKeeps
<1>5. QED
  BY <1>3, <1>4 DEF ModeCommand

-----------------------------------------------------------------------------
(* Messages of the devices *)

LEMMA NewsHeard ==
  ASSUME NEW box \in Seq(Messages), box # <<>>, NEW noted, NEW heard, NEW actual,
         NewsOf(box, noted, actual),
         heard = IF IsMode(Head(box)) THEN Head(box).mode ELSE noted
  PROVE  NewsOf(Tail(box), heard, actual)
<1> DEFINE new == Tail(box)
<1>1. /\ Len(new) = Len(box) - 1 /\ Len(box) \in Nat /\ Len(box) > 0 /\ Head(box) = box[1]
      /\ \A i \in 1..Len(new) : new[i] = box[i + 1]
  BY HeadTailProperties, EmptySeq
<1> HIDE DEF new
<1>2. CASE \E i \in 1..Len(box) : /\ IsMode(box[i]) /\ box[i].mode = actual
                                  /\ \A j \in (i + 1)..Len(box) : ~IsMode(box[j])
  <2>1. PICK i \in 1..Len(box) : /\ IsMode(box[i]) /\ box[i].mode = actual
                                  /\ \A j \in (i + 1)..Len(box) : ~IsMode(box[j])
    BY <1>2
  <2>2. \A k \in i..Len(new) : ~IsMode(new[k])
    <3>1. TAKE k \in i..Len(new)
    <3>2. k + 1 \in (i + 1)..Len(box) /\ k \in 1..Len(new)
      BY <1>1
    <3>3. QED
      BY <1>1, <2>1, <3>2
  <2>3. CASE i = 1
    <3>1. heard = actual
      BY <1>1, <2>1, <2>3
    <3>2. QED
      BY <2>2, <2>3, <3>1 DEF NewsOf, new
  <2>4. CASE i # 1
    <3>1. i - 1 \in 1..Len(new) /\ new[i - 1] = box[i] /\ (i - 1) + 1 = i
      <4>1. i - 1 \in 1..Len(new) /\ (i - 1) + 1 = i
        BY <1>1, <2>4
      <4>2. QED
        BY <1>1, <4>1
    <3>2. PICK k \in 1..Len(new) : k = i - 1 /\ new[k] = box[i] /\ k + 1 = i
      BY <3>1
    <3>3. IsMode(new[k]) /\ new[k].mode = actual /\ \A j \in (k + 1)..Len(new) : ~IsMode(new[j])
      BY <2>1, <2>2, <3>2
    <3>4. QED
      BY <3>3 DEF NewsOf, new
  <2>5. QED
    BY <2>3, <2>4
<1>3. CASE (\A i \in 1..Len(box) : ~IsMode(box[i])) 
           /\ (noted = actual \/ (noted = "UNKNOWN" /\ actual = "OFF"))
  <2>1. 1 \in 1..Len(box)
    BY <1>1
  <2>2. heard = noted
    BY <1>1, <1>3, <2>1
  <2>3. \A k \in 1..Len(new) : ~IsMode(new[k])
    <3>1. TAKE k \in 1..Len(new)
    <3>2. k + 1 \in 1..Len(box)
      BY <1>1
    <3>3. QED
      BY <1>1, <1>3, <3>2
  <2>4. QED
    BY <1>3, <2>2, <2>3 DEF NewsOf, new
<1>4. QED
  BY <1>2, <1>3 DEF NewsOf

LEMMA NewsTold ==
  ASSUME NEW box \in Seq(Messages), NEW ms \in Seq(Messages), NEW noted, NEW was, NEW actual,
         NewsOf(box, noted, was),
         \/ Len(ms) > 0 /\ IsMode(ms[Len(ms)]) /\ ms[Len(ms)].mode = actual
         \/ was = actual /\ \A i \in 1..Len(ms) : ~IsMode(ms[i])
  PROVE  NewsOf(box \o ms, noted, actual)
<1> DEFINE new == box \o ms
<1>0. Len(box) \in Nat /\ Len(ms) \in Nat /\ Len(new) = Len(box) + Len(ms)
      /\ \A i \in 1..Len(box) + Len(ms) : new[i] = IF i <= Len(box) THEN box[i] ELSE ms[i - Len(box)]
  BY ConcatProperties
<1> HIDE DEF new
<1>1. /\ \A i \in 1..Len(box) : i \in 1..Len(new) /\ new[i] = box[i]
      /\ \A i \in 1..Len(new) : i > Len(box) => new[i] = ms[i - Len(box)] /\ i - Len(box) \in 1..Len(ms)
  BY <1>0
<1>2. CASE Len(ms) > 0 /\ IsMode(ms[Len(ms)]) /\ ms[Len(ms)].mode = actual
  <2>1. Len(new) \in 1..Len(new) /\ Len(new) > Len(box) /\ Len(new) - Len(box) = Len(ms)
        /\ \A j \in (Len(new) + 1)..Len(new) : FALSE
    BY <1>0, <1>2
  <2>2. new[Len(new)] = ms[Len(ms)]
    BY <1>1, <2>1
  <2>3. QED
    BY <1>2, <2>1, <2>2 DEF NewsOf, new
<1>3. CASE was = actual /\ \A i \in 1..Len(ms) : ~IsMode(ms[i])
  <2>1. \A i \in 1..Len(new) : i > Len(box) => ~IsMode(new[i])
    BY <1>1, <1>3
  <2>2. CASE \E i \in 1..Len(box) : /\ IsMode(box[i]) /\ box[i].mode = actual
                                    /\ \A j \in (i + 1)..Len(box) : ~IsMode(box[j])
    <3>1. PICK i \in 1..Len(box) : /\ IsMode(box[i]) /\ box[i].mode = actual
                                    /\ \A j \in (i + 1)..Len(box) : ~IsMode(box[j])
      BY <2>2
    <3>2. \A j \in (i + 1)..Len(new) : ~IsMode(new[j])
      <4>1. TAKE j \in (i + 1)..Len(new)
      <4>2. j \in 1..Len(new) /\ (j > Len(box) \/ (j \in (i + 1)..Len(box) /\ j \in 1..Len(box)))
        BY <1>0
      <4>3. QED
        BY <1>1, <2>1, <3>1, <4>2
    <3>3. QED
      BY <1>1, <3>1, <3>2 DEF NewsOf, new
  <2>3. CASE /\ \A i \in 1..Len(box) : ~IsMode(box[i])
             /\ noted = actual \/ (noted = "UNKNOWN" /\ actual = "OFF")
    <3>1. \A i \in 1..Len(new) : ~IsMode(new[i])
      <4>1. TAKE i \in 1..Len(new)
      <4>2. i > Len(box) \/ i \in 1..Len(box)
        BY <1>0
      <4>3. QED
        BY <1>1, <2>1, <2>3, <4>2
    <3>2. QED
      BY <2>3, <3>1 DEF NewsOf, new
  <2>4. QED
    BY <1>3, <2>2, <2>3 DEF NewsOf
<1>4. QED
  BY <1>2, <1>3

LEMMA HealthNewsTold ==
  ASSUME NEW box \in Seq(Messages), NEW ms \in Seq(Messages), HealthNews(box) \/ HealthNews(ms)
  PROVE  HealthNews(box \o ms)
<1> DEFINE new == box \o ms
<1>0. Len(box) \in Nat /\ Len(ms) \in Nat /\ Len(new) = Len(box) + Len(ms)
      /\ \A i \in 1..Len(box) + Len(ms) : new[i] = IF i <= Len(box) THEN box[i] ELSE ms[i - Len(box)]
  BY ConcatProperties
<1> HIDE DEF new
<1>1. CASE HealthNews(box)
  <2>1. \A i \in 1..Len(box) : i \in 1..Len(new) /\ new[i] = box[i]
    BY <1>0
  <2>2. QED
    BY <1>1, <2>1 DEF HealthNews, new
<1>2. CASE HealthNews(ms)
  <2>1. PICK i \in 1..Len(ms) : IsHealth(ms[i])
    BY <1>2 DEF HealthNews
  <2>2. i + Len(box) \in 1..Len(new) /\ ~(i + Len(box) <= Len(box)) /\ (i + Len(box)) - Len(box) = i
    BY <1>0
  <2>3. new[i + Len(box)] = ms[i]
    BY <1>0, <2>2
  <2>4. QED
    BY <2>1, <2>2, <2>3 DEF HealthNews, new
<1>3. QED
  BY <1>1, <1>2

LEMMA HealthNewsHeard ==
  ASSUME NEW box \in Seq(Messages), box # <<>>, HealthNews(box), ~IsHealth(Head(box))
  PROVE  HealthNews(Tail(box))
<1> DEFINE new == Tail(box)
<1>1. /\ Len(new) = Len(box) - 1 /\ Len(box) \in Nat /\ Len(box) > 0 /\ Head(box) = box[1]
      /\ \A i \in 1..Len(new) : new[i] = box[i + 1]
  BY HeadTailProperties, EmptySeq
<1> HIDE DEF new
<1>2. PICK i \in 1..Len(box) : IsHealth(box[i])
  BY DEF HealthNews
<1>3. i # 1
  BY <1>1, <1>2
<1>4. i - 1 \in 1..Len(new) /\ (i - 1) + 1 = i
  BY <1>1, <1>3
<1>5. new[i - 1] = box[i]
  BY <1>1, <1>4
<1>6. QED
  BY <1>2, <1>4, <1>5 DEF HealthNews, new

LEMMA CheckCommandQueueKeeps ==
  ASSUME AssemblyInv, NEW c \in Children, checkCommandQueue(c)
  PROVE  AssemblyInv'
<1> DEFINE m == Head(outbox[c])
<1>0. /\ outbox[c] # <<>> /\ outbox' = [outbox EXCEPT ![c] = Tail(@)]
      /\ \/ IsMode(m) /\ ~IsHealth(m) /\ ModeReply(c, m)
         \/ ~IsMode(m) /\ ~IsHealth(m) /\ (CantReachMode \/ HealthReply)
         \/ ~IsMode(m) /\ (IsHealth(m) <=> m.health # "EXTERNAL_CONTROL") /\ HealthInfo(c, m)
      /\ UNCHANGED <<mode, problems, targetMode, internalState, recoveryState, recoveringDevice, forced,
                     commanderVars, overlooked, health, device, going, inbox, commands, events>>
  BY DEF checkCommandQueue, IsMode, IsHealth, modeVars
<1>1. /\ outbox[c] \in Seq(Messages) /\ outbox \in [Children -> Seq(Messages)]
      /\ childMode \in [Children -> Modes \cup {"UNKNOWN"}] /\ childrenChangedMode \in BOOLEAN
      /\ healthChanged \subseteq Children
  BY DEF AssemblyInv, OtherType, RecoveryType
<1>2. m \in Messages /\ Tail(outbox[c]) \in Seq(Messages)
  BY <1>0, <1>1, HeadTailProperties
<1>3. IsMode(m) => m.mode \in Modes
  BY <1>2 DEF Messages, IsMode
<1> HIDE DEF m
<1>4. /\ childMode' = IF IsMode(m) THEN [childMode EXCEPT ![c] = m.mode] ELSE childMode
      /\ childrenChangedMode' = IF IsMode(m) THEN TRUE ELSE childrenChangedMode
      /\ healthChanged' = IF IsHealth(m) THEN healthChanged \cup {c} ELSE healthChanged
  BY <1>0, <1>1 DEF ModeReply, updateChildMode, CantReachMode, HealthReply, HealthInfo
<1>5. commandsOutstanding' \in Int /\ commandsOutstanding' <= commandsOutstanding
  <2>1. commandsOutstanding \in Int /\ commandsOutstanding - 0 = commandsOutstanding
    BY DEF AssemblyInv, TransitionType
  <2>2. commandsOutstanding' \in {commandsOutstanding, commandsOutstanding - 1}
    BY <1>0, <2>1 DEF ModeReply, CantReachMode, HealthReply, HealthInfo
  <2>3. QED
    BY <2>1, <2>2
<1>6. TransitionType' /\ QueueType' /\ RecoveryType'
  BY <1>0, <1>1, <1>4, <1>5 DEF AssemblyInv, TransitionType, QueueType, RecoveryType
<1>7. OutstandingOK'
  BY <1>0, <1>5, ChildrenCounted DEF AssemblyInv, TransitionType, OutstandingOK
<1>8. OtherType'
  <2>1. outbox' \in [Children -> Seq(Messages)]
    BY <1>0, <1>1, <1>2
  <2>2. childMode' \in [Children -> Modes \cup {"UNKNOWN"}]
    BY <1>1, <1>3, <1>4
  <2>3. childrenChangedMode' \in BOOLEAN
    BY <1>1, <1>4
  <2>4. QED
    BY <1>0, <2>1, <2>2, <2>3, CommanderStays DEF AssemblyInv, OtherType
<1>9. NewsOK'
  <2>1. SUFFICES ASSUME NEW d \in Children
                 PROVE  NewsOf(outbox'[d], childMode'[d], device'[d])
    BY DEF NewsOK
  <2>2. NewsOf(outbox[d], childMode[d], device[d]) /\ device'[d] = device[d]
    BY <1>0 DEF AssemblyInv, NewsOK
  <2>3. CASE d = c
    <3>1. childMode'[c] = IF IsMode(Head(outbox[c])) THEN Head(outbox[c]).mode ELSE childMode[c]
      BY <1>1, <1>4 DEF m
    <3>2. outbox'[c] = Tail(outbox[c])
      BY <1>0, <1>1
    <3>3. QED
      BY <1>0, <1>1, <2>2, <2>3, <3>1, <3>2, NewsHeard
  <2>4. CASE d # c
    <3>1. outbox'[d] = outbox[d] /\ childMode'[d] = childMode[d]
      BY <1>0, <1>1, <1>4, <2>4
    <3>2. QED
      BY <2>2, <3>1
  <2>5. QED
    BY <2>3, <2>4
<1>10. ASSUME NEW d \in Children, Excused(d) PROVE Excused(d)'
  <2>1. healthChanged \subseteq healthChanged' /\ isCommandable(d)' = isCommandable(d)
    BY <1>0, <1>4 DEF isCommandable
  <2>2. CASE HealthNews(outbox[d])
    <3>1. CASE d # c
      BY <1>0, <1>1, <2>2, <3>1 DEF Excused
    <3>2. CASE d = c /\ IsHealth(m)
      BY <1>4, <3>2 DEF Excused
    <3>3. CASE d = c /\ ~IsHealth(m)
      <4>1. outbox'[d] = Tail(outbox[c])
        BY <1>0, <1>1, <3>3
      <4>2. HealthNews(Tail(outbox[c]))
        BY <1>0, <1>1, <2>2, <3>3, HealthNewsHeard DEF m
      <4>3. QED
        BY <4>1, <4>2 DEF Excused
    <3>4. QED
      BY <3>1, <3>2, <3>3
  <2>3. QED
    BY <1>10, <2>1, <2>2 DEF Excused
<1>11. SettledOK'
  <2>1. CASE IsMode(m)
    BY <1>0, <1>4, <2>1 DEF AssemblyInv, SettledOK, isInTransition, commanderVars
  <2>2. CASE ~IsMode(m)
    <3>1. Backed => Backed'
      BY <1>0, <1>4, <1>10, <2>2 DEF Backed, OnCount
    <3>2. QED
      BY <1>0, <1>4, <2>2, <3>1 DEF AssemblyInv, SettledOK, isInTransition, commanderVars
  <2>3. QED
    BY <2>1, <2>2
<1>12. QED
  BY <1>6, <1>7, <1>8, <1>9, <1>11 DEF AssemblyInv

-----------------------------------------------------------------------------
(* Devices *)

\* A device tells its mode last, or nothing about a mode that has not changed;
\* and it tells when it is no longer under external control.
LEMMA TellKeeps ==
  ASSUME AssemblyInv, NEW c \in Children, NEW ms \in Seq(Messages), Tell(c, ms),
         device' \in [Children -> Modes], \A d \in Children \ {c} : device'[d] = device[d],
         \/ Len(ms) > 0 /\ IsMode(ms[Len(ms)]) /\ ms[Len(ms)].mode = device'[c]
         \/ device[c] = device'[c] /\ \A i \in 1..Len(ms) : ~IsMode(ms[i]),
         health' \in [Children -> HealthStates], \A d \in Children \ {c} : health'[d] = health[d],
         health'[c] = health[c] \/ health'[c] = "EXTERNAL_CONTROL" \/ HealthNews(ms),
         QueueType', going' \in [Children -> Modes \cup {None}], events' \in 0..MaxEvents,
         UNCHANGED <<asmVars, commands>>
  PROVE  AssemblyInv'
<1>0. UNCHANGED <<mode, problems, targetMode, internalState, recoveryState, recoveringDevice,
                  commandsOutstanding, childMode, healthChanged, childrenChangedMode, forced, commanderVars,
                  overlooked, commands>>
  BY DEF asmVars, modeVars
<1>1. TransitionType' /\ RecoveryType' /\ OutstandingOK'
  BY <1>0 DEF AssemblyInv, TransitionType, RecoveryType, OutstandingOK
<1>2. outbox \in [Children -> Seq(Messages)] /\ outbox' = [outbox EXCEPT ![c] = @ \o ms]
  BY DEF AssemblyInv, OtherType, Tell
<1>3. outbox' \in [Children -> Seq(Messages)]
  BY <1>2, ConcatProperties
<1>4. OtherType'
  BY <1>0, <1>3, CommanderStays DEF AssemblyInv, OtherType
<1>5. NewsOK'
  <2>1. SUFFICES ASSUME NEW d \in Children
                 PROVE  NewsOf(outbox'[d], childMode'[d], device'[d])
    BY DEF NewsOK
  <2>2. NewsOf(outbox[d], childMode[d], device[d]) /\ childMode'[d] = childMode[d]
    BY <1>0 DEF AssemblyInv, NewsOK
  <2>3. CASE d = c
    <3>1. outbox[c] \in Seq(Messages) /\ outbox'[c] = outbox[c] \o ms
      BY <1>2
    <3>2. QED
      BY <2>2, <2>3, <3>1, NewsTold
  <2>4. CASE d # c
    <3>1. outbox'[d] = outbox[d] /\ device'[d] = device[d]
      BY <1>2, <2>4
    <3>2. QED
      BY <2>2, <3>1
  <2>5. QED
    BY <2>3, <2>4
<1>6. ASSUME NEW d \in Children, Excused(d) PROVE Excused(d)'
  <2>1. CASE d # c
    <3>1. outbox'[d] = outbox[d] /\ health'[d] = health[d]
      BY <1>2, <2>1
    <3>2. QED
      BY <1>0, <1>6, <3>1 DEF Excused, isCommandable
  <2>2. CASE d = c
    <3>1. outbox[c] \in Seq(Messages) /\ outbox'[c] = outbox[c] \o ms
      BY <1>2
    <3>2. HealthNews(outbox[c]) \/ HealthNews(ms) => HealthNews(outbox'[c])
      BY <3>1, HealthNewsTold
    <3>3. QED
      BY <1>0, <1>6, <2>2, <3>2 DEF Excused, isCommandable
  <2>3. QED
    BY <2>1, <2>2
<1>7. SettledOK'
  <2>1. Backed => Backed'
    BY <1>0, <1>6 DEF Backed, OnCount
  <2>2. QED
    BY <1>0, <2>1 DEF AssemblyInv, SettledOK, isInTransition, commanderVars
<1>8. QED
  BY <1>1, <1>4, <1>5, <1>7 DEF AssemblyInv

\* What Told tells of a health that is new.
LEMMA ToldProperties ==
  ASSUME NEW c \in Children, NEW h \in HealthStates
  PROVE  /\ Told(c, h) \in Seq(Messages) /\ \A i \in 1..Len(Told(c, h)) : ~IsMode(Told(c, h)[i])
         /\ h = health[c] \/ h = "EXTERNAL_CONTROL" \/ HealthNews(Told(c, h))
<1>1. CASE h = health[c]
  <2>1. Told(c, h) = <<>>
    BY <1>1 DEF Told
  <2>2. QED
    BY <1>1, <2>1, EmptySeq
<1>2. CASE h # health[c]
  <2>1. PICK m \in Messages : m = [type |-> "HEALTH_INFO", health |-> h]
    BY DEF Messages
  <2>2. Told(c, h) = <<m>>
    BY <1>2, <2>1 DEF Told
  <2>3. ~IsMode(m) /\ (h = "EXTERNAL_CONTROL" \/ IsHealth(m))
    BY <2>1 DEF IsMode, IsHealth
  <2>4. <<m>> \in Seq(Messages) /\ Len(<<m>>) = 1 /\ <<m>>[1] = m
    OBVIOUS
  <2>5. IsHealth(m) => HealthNews(<<m>>)
    BY <2>4 DEF HealthNews
  <2>6. QED
    BY <2>2, <2>3, <2>4, <2>5
<1>3. QED
  BY <1>1, <1>2

LEMMA OneMessage ==
  ASSUME NEW m \in Messages
  PROVE  \E ms \in Seq(Messages) : ms = <<m>> /\ Len(ms) = 1 /\ ms[1] = m
<1>1. <<m>> \in Seq(Messages) /\ Len(<<m>>) = 1 /\ <<m>>[1] = m
  OBVIOUS
<1>2. QED
  BY <1>1

LEMMA ToldAndSet ==
  ASSUME NEW ms \in Seq(Messages), NEW m \in Messages, ~IsMode(m), \A i \in 1..Len(ms) : ~IsMode(ms[i])
  PROVE  /\ Append(ms, m) \in Seq(Messages) /\ \A i \in 1..Len(Append(ms, m)) : ~IsMode(Append(ms, m)[i])
         /\ HealthNews(ms) => HealthNews(Append(ms, m))
<1> DEFINE new == Append(ms, m)
<1>1. /\ new \in Seq(Messages) /\ Len(new) = Len(ms) + 1 /\ new[Len(ms) + 1] = m /\ Len(ms) \in Nat
      /\ \A i \in 1..Len(ms) : new[i] = ms[i]
  BY AppendProperties
<1> HIDE DEF new
<1>2. \A i \in 1..Len(new) : i = Len(ms) + 1 \/ i \in 1..Len(ms)
  BY <1>1
<1>3. \A i \in 1..Len(ms) : i \in 1..Len(new)
  BY <1>1
<1>4. \A i \in 1..Len(new) : ~IsMode(new[i])
  BY <1>1, <1>2
<1>5. HealthNews(ms) => HealthNews(new)
  BY <1>1, <1>3 DEF HealthNews
<1>6. QED
  BY <1>1, <1>4, <1>5 DEF new

LEMMA DeviceObeysKeeps ==
  ASSUME AssemblyInv, NEW c \in Children, DeviceObeys(c)
  PROVE  AssemblyInv'
<1> DEFINE m == Head(inbox[c])
<1>0. /\ inbox[c] # <<>> /\ inbox' = [inbox EXCEPT ![c] = Tail(@)]
      /\ UNCHANGED <<asmVars, commands, events, device>>
  BY DEF DeviceObeys
<1>1. /\ inbox \in [Children -> Seq(Modes \cup HealthStates)] /\ \A d \in Children : Len(inbox[d]) <= InboxDepth
      /\ device' \in [Children -> Modes] /\ health \in [Children -> HealthStates]
      /\ going \in [Children -> Modes \cup {None}] /\ outbox \in [Children -> Seq(Messages)]
      /\ InboxDepth \in Nat /\ events' \in 0..MaxEvents
      /\ \A d \in Children : device'[d] = device[d]
  BY <1>0, AssemblyAssumption DEF AssemblyInv, QueueType, OtherType
<1>2. Tail(inbox[c]) \in Seq(Modes \cup HealthStates) /\ Len(Tail(inbox[c])) = Len(inbox[c]) - 1 /\ Len(inbox[c]) \in Nat
  BY <1>0, <1>1, HeadTailProperties
<1>3. QueueType'
  <2>1. inbox' \in [Children -> Seq(Modes \cup HealthStates)]
    BY <1>0, <1>1, <1>2
  <2>2. ASSUME NEW d \in Children PROVE Len(inbox'[d]) <= InboxDepth
    <3>1. CASE d = c
      <4>1. inbox'[d] = Tail(inbox[c]) /\ Len(inbox[c]) <= InboxDepth
        BY <1>0, <1>1, <3>1
      <4>2. QED
        BY <1>1, <1>2, <4>1
    <3>2. CASE d # c
      BY <1>0, <1>1, <3>2
    <3>3. QED
      BY <3>1, <3>2
  <2>3. QED
    BY <2>1, <2>2 DEF QueueType
<1>4. CASE m \in Modes /\ going' = [going EXCEPT ![c] = m] /\ UNCHANGED <<health, outbox>>
  <2>1. PICK ms \in Seq(Messages) : ms = <<>> /\ Len(ms) = 0
    BY EmptySeq
  <2>2. outbox[c] \o ms = outbox[c]
    BY <1>1, <2>1, ConcatEmptySeq
  <2>3. Tell(c, ms)
    BY <1>1, <1>4, <2>2 DEF Tell
  <2>4. going' \in [Children -> Modes \cup {None}] /\ health' \in [Children -> HealthStates]
        /\ \A d \in Children : health'[d] = health[d]
    BY <1>1, <1>4
  <2>5. \A i \in 1..Len(ms) : ~IsMode(ms[i])
    BY <2>1
  <2>6. QED
    BY <1>0, <1>1, <1>3, <2>3, <2>4, <2>5, TellKeeps
<1>5. CASE Tell(c, <<[type |-> "CANT_REACH_MODE"]>>) /\ UNCHANGED <<health, going>>
  <2>1. PICK x \in Messages : x = [type |-> "CANT_REACH_MODE"]
    BY DEF Messages
  <2>2. ~IsMode(x)
    BY <2>1 DEF IsMode
  <2>3. PICK ms \in Seq(Messages) : ms = <<x>> /\ Len(ms) = 1 /\ ms[1] = x
    BY OneMessage
  <2>4. Tell(c, ms) /\ \A i \in 1..Len(ms) : ~IsMode(ms[i])
    BY <1>5, <2>1, <2>2, <2>3
  <2>5. going' \in [Children -> Modes \cup {None}] /\ health' \in [Children -> HealthStates]
        /\ \A d \in Children : health'[d] = health[d]
    BY <1>1, <1>5
  <2>6. QED
    BY <1>0, <1>1, <1>3, <2>4, <2>5, TellKeeps
<1>6. CASE /\ m \in HealthStates /\ health' = [health EXCEPT ![c] = m]
           /\ Tell(c, Append(Told(c, m), [type |-> "HEALTH_SET"])) /\ UNCHANGED going
  <2>1. PICK x \in Messages : x = [type |-> "HEALTH_SET"]
    BY DEF Messages
  <2>2. ~IsMode(x)
    BY <2>1 DEF IsMode
  <2> DEFINE ms == Append(Told(c, m), x)
  <2>3. /\ ms \in Seq(Messages) /\ \A i \in 1..Len(ms) : ~IsMode(ms[i])
        /\ m = health[c] \/ m = "EXTERNAL_CONTROL" \/ HealthNews(ms)
    <3>1. /\ Told(c, m) \in Seq(Messages) /\ \A i \in 1..Len(Told(c, m)) : ~IsMode(Told(c, m)[i])
          /\ m = health[c] \/ m = "EXTERNAL_CONTROL" \/ HealthNews(Told(c, m))
      BY <1>6, ToldProperties
    <3> HIDE DEF m
    <3>2. QED
      BY <2>2, <3>1, ToldAndSet
  <2>4. Tell(c, ms)
    BY <1>6, <2>1
  <2> HIDE DEF ms, m
  <2>5. /\ health' \in [Children -> HealthStates] /\ health'[c] = m /\ \A d \in Children \ {c} : health'[d] = health[d]
        /\ going' \in [Children -> Modes \cup {None}]
    BY <1>1, <1>6
  <2>6. QED
    BY <1>0, <1>1, <1>3, <2>3, <2>4, <2>5, TellKeeps
<1>7. QED
  BY <1>4, <1>5, <1>6 DEF DeviceObeys

\* A device has come to a mode and tells so.
LEMMA ModeToldKeeps ==
  ASSUME AssemblyInv, NEW c \in Children, NEW x \in Modes, device' = [device EXCEPT ![c] = x],
         \/ Tell(c, <<[type |-> "MODE_REPLY", mode |-> x]>>)
         \/ Tell(c, <<[type |-> "MODE_INFO", mode |-> x]>>),
         going' \in [Children -> Modes \cup {None}], events' \in 0..MaxEvents,
         UNCHANGED <<asmVars, health, inbox, commands>>
  PROVE  AssemblyInv'
<1>1. PICK m \in Messages : IsMode(m) /\ m.mode = x /\ Tell(c, <<m>>)
  <2>1. /\ [type |-> "MODE_REPLY", mode |-> x] \in Messages /\ IsMode([type |-> "MODE_REPLY", mode |-> x])
        /\ [type |-> "MODE_INFO", mode |-> x] \in Messages /\ IsMode([type |-> "MODE_INFO", mode |-> x])
        /\ [type |-> "MODE_REPLY", mode |-> x].mode = x /\ [type |-> "MODE_INFO", mode |-> x].mode = x
    BY DEF Messages, IsMode
  <2>2. QED
    BY <2>1
<1>2. PICK ms \in Seq(Messages) : ms = <<m>> /\ Len(ms) = 1 /\ ms[1] = m
  BY OneMessage
<1>3. device \in [Children -> Modes] /\ QueueType'
  BY DEF AssemblyInv, OtherType, QueueType
<1>4. device' \in [Children -> Modes] /\ device'[c] = x /\ \A d \in Children \ {c} : device'[d] = device[d]
  BY <1>3
<1>5. health' \in [Children -> HealthStates] /\ \A d \in Children : health'[d] = health[d]
  BY DEF AssemblyInv, OtherType
<1>6. Len(ms) > 0 /\ IsMode(ms[Len(ms)]) /\ ms[Len(ms)].mode = device'[c] /\ Tell(c, ms)
  BY <1>1, <1>2, <1>4
<1>7. QED
  BY <1>3, <1>4, <1>5, <1>6, TellKeeps

LEMMA DeviceMovesKeeps ==
  ASSUME AssemblyInv, NEW c \in Children, DeviceArrives(c) \/ DeviceMoves(c)
  PROVE  AssemblyInv'
<1>1. /\ going \in [Children -> Modes \cup {None}] /\ events \in 0..MaxEvents /\ MaxEvents \in Nat /\ "OFF" \in Modes
  BY AssemblyAssumption DEF AssemblyInv, OtherType, Modes
<1>2. CASE DeviceArrives(c)
  <2>1. PICK x \in {going[c], "OFF"} : /\ device' = [device EXCEPT ![c] = x]
                                       /\ Tell(c, <<[type |-> "MODE_REPLY", mode |-> x]>>)
    BY <1>2 DEF DeviceArrives
  <2>2. x \in Modes
    BY <1>1, <1>2, <2>1 DEF DeviceArrives
  <2>3. /\ going' \in [Children -> Modes \cup {None}] /\ events' \in 0..MaxEvents
        /\ UNCHANGED <<asmVars, health, inbox, commands>>
    BY <1>1, <1>2 DEF DeviceArrives
  <2>4. QED
    BY <2>1, <2>2, <2>3, ModeToldKeeps
<1>3. CASE DeviceMoves(c)
  <2>1. PICK x \in Modes : /\ device' = [device EXCEPT ![c] = x]
                           /\ Tell(c, <<[type |-> "MODE_INFO", mode |-> x]>>)
    BY <1>1, <1>3 DEF DeviceMoves
  <2>2. events < MaxEvents /\ events' = events + 1
    BY <1>3 DEF DeviceMoves
  <2>3. events' \in 0..MaxEvents
    BY <1>1, <2>2
  <2>4. going' \in [Children -> Modes \cup {None}] /\ UNCHANGED <<asmVars, health, inbox, commands>>
    BY <1>1, <1>3 DEF DeviceMoves
  <2>5. QED
    BY <2>1, <2>3, <2>4, ModeToldKeeps
<1>4. QED
  BY <1>2, <1>3

LEMMA HealthChangesKeeps ==
  ASSUME AssemblyInv, NEW c \in Children, NEW h \in HealthStates, HealthChanges(c, h)
  PROVE  AssemblyInv'
<1>1. /\ health \in [Children -> HealthStates] /\ events \in 0..MaxEvents /\ MaxEvents \in Nat
      /\ events < MaxEvents /\ events' = events + 1
      /\ health' = [health EXCEPT ![c] = h] /\ Tell(c, Told(c, h))
      /\ UNCHANGED <<asmVars, device, going, inbox, commands>>
  BY AssemblyAssumption DEF AssemblyInv, OtherType, HealthChanges
<1>2. events' \in 0..MaxEvents
  BY <1>1
<1>3. device' \in [Children -> Modes] /\ going' \in [Children -> Modes \cup {None}] /\ QueueType'
      /\ \A d \in Children : device'[d] = device[d]
  BY <1>1 DEF AssemblyInv, OtherType, QueueType
<1>4. health' \in [Children -> HealthStates] /\ health'[c] = h /\ \A d \in Children \ {c} : health'[d] = health[d]
  BY <1>1
<1>5. PICK ms \in Seq(Messages) : /\ Tell(c, ms) /\ \A i \in 1..Len(ms) : ~IsMode(ms[i])
                                  /\ h = health[c] \/ h = "EXTERNAL_CONTROL" \/ HealthNews(ms)
  BY <1>1, ToldProperties
<1>6. QED
  BY <1>1, <1>2, <1>3, <1>4, <1>5, TellKeeps

-----------------------------------------------------------------------------

LEMMA AssemblyStep ==
  ASSUME AssemblyInv, [Next]_vars
  PROVE  AssemblyInv'
<1>1. CASE UNCHANGED vars
  BY <1>1 DEF vars, asmVars, modeVars, commanderVars, CommanderOK, deviceVars, AssemblyInv, TransitionType, QueueType, RecoveryType,
              OtherType, OutstandingOK, NewsOK, SettledOK, isInTransition, Backed, OnCount, Excused, isCommandable
<1>2. ASSUME NEW cmd \in Commands, ModeCommand(cmd[1], cmd[2]) PROVE AssemblyInv'
  <2>1. cmd[1] \in Modes /\ cmd[2] \in BOOLEAN
    BY AssemblyAssumption DEF Modes
  <2>2. QED
    BY <1>2, <2>1, ModeCommandKeeps
<1>3. QED
  BY <1>1, <1>2, PerformChildOperationKeeps, CheckCommandQueueKeeps, DeviceObeysKeeps, DeviceMovesKeeps,
     HealthChangesKeeps DEF Next

LEMMA AssemblyInvariant == Spec => []AssemblyInv
<1>1. Init => AssemblyInv
  BY AssemblyInitial
<1>2. AssemblyInv /\ [Next]_vars => AssemblyInv'
  BY AssemblyStep
<1>3. QED
  BY <1>1, <1>2, PTL DEF Spec

\* The assembly's state is well-typed, and never more than one command per
\* device and one health command are outstanding, although overwriteDeviceHealth
\* adds to what an earlier transition has left (executeTable, sendHealthCommand).
THEOREM AssemblyTypeCorrect == Spec => []TypeOK
<1>1. AssemblyInv => TypeOK
  BY InvGivesType
<1>2. QED
  BY <1>1, AssemblyInvariant, PTL

\* For any number of devices and commands, an assembly at rest has reached the
\* mode it was last told to reach and has answered the last commander; who
\* still waits was displaced by a command that ModeHelper took before it had
\* answered him (handleModeReached).
THEOREM RestAlwaysFinal == Spec => []RestIsFinal
<1>1. AssemblyInv => RestIsFinal
  BY InvGivesBacked
<1>2. QED
  BY <1>1, AssemblyInvariant, PTL

\* For any number of devices, an assembly that is at rest and has heard all
\* news is in a mode its devices really have, or has said that it is not so;
\* whatever devices do by themselves, are recovered from or come back from
\* external control (handleChildrenChanged, checkChildrenState).
THEOREM ModeAlwaysBacked == Spec => []ModeIsBacked
<1>1. AssemblyInv => ModeIsBacked
  BY InvGivesBacked
<1>2. QED
  BY <1>1, AssemblyInvariant, PTL

=============================================================================
