------------------------ MODULE DeviceCommandsProofs ------------------------
(***************************************************************************)
(* Theorems about DeviceCommands, for all maps of commands and replies.    *)
(*                                                                         *)
(* Neither property is inductive.  CommandsInv adds where in the cycle a   *)
(* write can be under way, which command a reply entry stands for, and     *)
(* that a reply that is awaited, and does not come periodically, belongs   *)
(* to a command in execution whose write is over.                          *)
(***************************************************************************)
EXTENDS DeviceCommands, TLAPS

UnderWay == cookieState \in {"WRITE_READY", "WRITE_SENT"}

CycleOK ==
    /\ cookieState = "WRITE_READY" => step \in {"DECREMENT", "SEND_WRITE"}
    /\ cookieState = "WRITE_SENT" => step = "GET_WRITE"
    /\ UnderWay => mode # "OFF" /\ pendingCommand \in Commands
    /\ UnderWay => pendingCommand \in isExecuting \/ ReplyOf[pendingCommand] \in Periodic

ReplyOK ==
    /\ \A r \in Replies : command[r] # None => ReplyOf[command[r]] = r
    /\ \A r \in expired : Awaited(r)
    /\ \A r \in Replies \ Periodic :
          Awaited(r) => command[r] \in isExecuting /\ ~Writing(command[r])

ExecOK ==
    \A c \in isExecuting :
        Writing(c) \/ (ReplyOf[c] \in Replies /\ command[ReplyOf[c]] # None)

AskOK ==
    /\ AnsweredOnce
    /\ \A c \in isExecuting \cap external : c \in asked \cup SeveralAnswers
    /\ RawCommand \in isExecuting \ asked => ChildRaw

CommandsInv == TypeOK /\ CycleOK /\ ReplyOK /\ ExecOK /\ AskOK /\ ExecutingIsAwaited

-----------------------------------------------------------------------------

\* Who answers for an awaited reply has not had his answer, or may have several.
LEMMA AwaitedIsOpen ==
  ASSUME CommandsInv, NEW r \in Replies, Awaited(r), command[r] \in Commands, command[r] \in external
  PROVE  command[r] \in asked \cup SeveralAnswers
<1>1. CASE r \in Periodic
  BY <1>1, DeviceAssumption DEF CommandsInv, ReplyOK, SeveralAnswers
<1>2. CASE r \notin Periodic
  BY <1>2 DEF CommandsInv, ReplyOK, AskOK
<1>3. QED
  BY <1>1, <1>2

\* So is the command whose write is under way.
LEMMA PendingIsOpen ==
  ASSUME CommandsInv, UnderWay, pendingCommand \in external
  PROVE  pendingCommand \in asked \cup SeveralAnswers
BY DEF CommandsInv, CycleOK, AskOK, SeveralAnswers

\* A raw command under way that nobody has sent is the child's.
LEMMA RawAsked ==
  ASSUME CommandsInv, UnderWay, pendingCommand = RawCommand, RawCommand \notin asked
  PROVE  ChildRaw
BY DeviceAssumption DEF CommandsInv, CycleOK, AskOK

\* No write is under way when a cycle begins.
LEMMA BeginsIdle ==
  ASSUME CommandsInv, step = "PERFORM_OPERATION"
  PROVE  \A c \in Commands : ~Writing(c)
BY DEF CommandsInv, CycleOK, Writing

LEMMA CommandsInitial ==
  ASSUME Init
  PROVE  CommandsInv
<1>1. TypeOK
  BY DeviceAssumption DEF Init, TypeOK, Steps, ModeKinds
<1>2. QED
  BY <1>1, DeviceAssumption
     DEF Init, CommandsInv, CycleOK, UnderWay, ReplyOK, ExecOK, AskOK, AnsweredOnce, ExecutingIsAwaited, Awaited

-----------------------------------------------------------------------------
(* One lemma for each action *)

\* The command of the cycle is taken: what executeAction and
\* buildRawDeviceCommand have in common.
LEMMA ReadyKeeps ==
  ASSUME CommandsInv, step = "PERFORM_OPERATION", step' = "DECREMENT",
         NEW c \in Commands, Ready(c), mode # "OFF",
         c \notin isExecuting \/ ReplyOf[c] = None,
         external' \subseteq external \cup {c}, asked' = asked \cup {c},
         UNCHANGED <<mode, stray, unasked, replyVars>>
  PROVE  CommandsInv'
<1>0. \A d \in Commands : ~Writing(d)
  BY BeginsIdle
<1>1. TypeOK'
  BY DEF CommandsInv, TypeOK, Ready, replyVars, Steps
<1>2. CycleOK'
  BY DEF Ready, CycleOK, UnderWay
<1>3. ReplyOK'
  <2>1. \A r \in Replies \ Periodic : Awaited(r) => command[r] # c
    BY DeviceAssumption DEF CommandsInv, TypeOK, ReplyOK
  <2>2. QED
    BY <2>1 DEF CommandsInv, ReplyOK, Ready, replyVars, Awaited, Writing
<1>4. ExecOK'
  BY <1>0 DEF CommandsInv, TypeOK, ExecOK, Ready, replyVars, Writing
<1>5. AskOK'
  BY DEF CommandsInv, AskOK, AnsweredOnce, SeveralAnswers, Ready
<1>6. ExecutingIsAwaited'
  BY <1>0 DEF CommandsInv, TypeOK, ExecutingIsAwaited, Abandoned, Ready, replyVars, Writing, Awaited
<1>7. QED
  BY <1>1, <1>2, <1>3, <1>4, <1>5, <1>6 DEF CommandsInv

\* Nothing is taken: the cookie is cleared.
LEMMA ClearedKeeps ==
  ASSUME CommandsInv, step = "PERFORM_OPERATION", step' = "DECREMENT",
         cookieState' = "UNUSED", mode' \in ModeKinds,
         external' \subseteq Commands, \A c \in external' : c \in external \/ c \notin isExecuting,
         stray' \subseteq stray \cup Immediate,
         UNCHANGED <<pendingCommand, isExecuting, asked, unasked, replyVars>>
  PROVE  CommandsInv'
<1>0. \A d \in Commands : ~Writing(d)
  BY BeginsIdle
<1>1. TypeOK'
  BY DeviceAssumption DEF CommandsInv, TypeOK, replyVars, Steps
<1>2. CycleOK'
  BY DEF CycleOK, UnderWay
<1>3. ReplyOK'
  BY DEF CommandsInv, ReplyOK, replyVars, Awaited, Writing
<1>4. ExecOK'
  BY <1>0 DEF CommandsInv, TypeOK, ExecOK, replyVars, Writing
<1>5. AskOK'
  BY DEF CommandsInv, AskOK, AnsweredOnce, SeveralAnswers
<1>6. ExecutingIsAwaited'
  BY <1>0 DEF CommandsInv, TypeOK, ExecutingIsAwaited, Abandoned, replyVars, Writing, Awaited
<1>7. QED
  BY <1>1, <1>2, <1>3, <1>4, <1>5, <1>6 DEF CommandsInv

LEMMA PerformOperationKeeps ==
  ASSUME CommandsInv, PerformOperation
  PROVE  CommandsInv'
<1>1. CASE \E c \in Commands : executeAction(c)
  BY <1>1, ReadyKeeps DEF PerformOperation, executeAction
<1>2. CASE \E c \in Commands : ExecutedAtOnce(c)
  BY <1>2, ClearedKeeps DEF PerformOperation, ExecutedAtOnce, CommandsInv, TypeOK
<1>3. CASE buildRawDeviceCommand
  BY <1>3, ReadyKeeps, DeviceAssumption DEF PerformOperation, buildRawDeviceCommand
<1>4. CASE ModeMayChange
  BY <1>4, ClearedKeeps DEF PerformOperation, ModeMayChange, askVars, CommandsInv, TypeOK
<1>5. QED
  BY <1>1, <1>2, <1>3, <1>4 DEF PerformOperation

LEMMA UpdatePeriodicKeeps ==
  ASSUME CommandsInv, NEW r \in Replies, updatePeriodicReply(r)
  PROVE  CommandsInv'
<1>0. Full(r) \in 1..MaxDelayCycles
  BY DeviceAssumption DEF Full
<1>1. TypeOK'
  <2>1. delay' \in [Replies -> 0..MaxDelayCycles]
    <3>1. (IF Awaited(r) THEN 0 ELSE Full(r)) \in 0..MaxDelayCycles
      BY <1>0, DeviceAssumption
    <3>2. QED
      BY <3>1 DEF CommandsInv, TypeOK, updatePeriodicReply
  <2>2. QED
    BY <2>1 DEF CommandsInv, TypeOK, updatePeriodicReply, cookieVars, askVars
<1>2. CycleOK'
  BY DEF CommandsInv, CycleOK, UnderWay, updatePeriodicReply, cookieVars
<1>3. \A s \in Replies : s # r => delay'[s] = delay[s]
  BY DEF CommandsInv, TypeOK, updatePeriodicReply
<1>4. delay'[r] = 0 <=> delay[r] # 0
  BY <1>0 DEF CommandsInv, TypeOK, updatePeriodicReply, Awaited
<1>5. ReplyOK'
  BY <1>3 DEF CommandsInv, TypeOK, ReplyOK, updatePeriodicReply, cookieVars, Awaited, Writing
<1>6. ExecOK'
  BY DEF CommandsInv, ExecOK, updatePeriodicReply, cookieVars, Writing
<1>7. AskOK'
  BY DEF CommandsInv, AskOK, AnsweredOnce, SeveralAnswers, updatePeriodicReply, askVars
<1>8. ExecutingIsAwaited'
  BY <1>3, <1>4, DeviceAssumption
     DEF CommandsInv, TypeOK, ExecOK, ExecutingIsAwaited, Abandoned, updatePeriodicReply, cookieVars, Awaited, Writing
<1>9. QED
  BY <1>1, <1>2, <1>5, <1>6, <1>7, <1>8 DEF CommandsInv

\* Replies that are awaited are answered for, by the device or by their
\* timeout: what decrementDeviceReplyMap and handleReply have in common.
LEMMA RepliedKeeps ==
  ASSUME CommandsInv, NEW rs \in SUBSET Replies, \A r \in rs : Awaited(r),
         replyToReply(rs),
         delay' \in [Replies -> 0..MaxDelayCycles],
         \A r \in Replies \ rs : delay'[r] # 0 <=> delay[r] # 0,
         \A r \in rs : delay'[r] # 0 <=> r \in Periodic,
         expired' \subseteq expired \ rs,
         UNCHANGED <<mode, cookieVars, command>>,
         step' = step \/ (step = "DECREMENT" /\ step' = "SEND_WRITE")
  PROVE  CommandsInv'
<1> DEFINE cs == { command[r] : r \in rs } \cap Commands
<1>0. /\ isExecuting' = isExecuting \ cs /\ external' = external
      /\ asked' = asked \ cs /\ stray' = stray \cup ((cs \cap external) \ asked) /\ unasked' = unasked
  BY DEF replyToReply, Answer
<1>1. \A c \in cs : ReplyOf[c] \in rs /\ command[ReplyOf[c]] = c
  BY DeviceAssumption DEF CommandsInv, TypeOK, ReplyOK
<1>2. \A c \in cs : c \in external => c \in asked \cup SeveralAnswers
  BY <1>1, AwaitedIsOpen
<1>3. \A c \in cs : Writing(c) => ReplyOf[c] \in Periodic
  BY <1>1 DEF CommandsInv, ReplyOK
<1> HIDE DEF cs
<1>4. cs \subseteq Commands
  BY DEF cs
<1>5. TypeOK'
  BY <1>0, <1>4 DEF CommandsInv, TypeOK, cookieVars, Steps
<1>6. CycleOK'
  BY <1>0, <1>3 DEF CommandsInv, CycleOK, UnderWay, Writing, cookieVars
<1>7. ReplyOK'
  <2>1. \A r \in expired' : Awaited(r)'
    BY DeviceAssumption DEF CommandsInv, TypeOK, ReplyOK, Awaited
  <2>2. ASSUME NEW r \in Replies \ Periodic, Awaited(r)'
        PROVE  command[r] \in isExecuting' /\ ~Writing(command[r])'
    <3>1. r \notin rs /\ Awaited(r)
      BY <2>2 DEF Awaited
    <3>2. command[r] \in isExecuting /\ ~Writing(command[r])
      BY <3>1 DEF CommandsInv, ReplyOK
    <3>3. ReplyOf[command[r]] = r
      BY <3>2, DeviceAssumption DEF CommandsInv, TypeOK, ReplyOK
    <3>4. QED
      BY <3>1, <3>2, <3>3, <1>0, <1>1 DEF Writing, cookieVars
  <2>3. QED
    BY <2>1, <2>2 DEF CommandsInv, ReplyOK
<1>8. ExecOK'
  BY <1>0 DEF CommandsInv, ExecOK, Writing, cookieVars
<1>9. AskOK'
  BY <1>0, <1>2 DEF CommandsInv, AskOK, AnsweredOnce, SeveralAnswers
<1>10. ExecutingIsAwaited'
  <2> SUFFICES ASSUME NEW c \in isExecuting', ~Writing(c)', ~Abandoned(c)'
               PROVE  ReplyOf[c] # None /\ Awaited(ReplyOf[c])' /\ command'[ReplyOf[c]] = c
    BY DEF ExecutingIsAwaited
  <2>1. c \in isExecuting /\ c \notin cs /\ ~Writing(c) /\ c \in Commands
    BY <1>0 DEF Writing, cookieVars, CommandsInv, TypeOK
  <2>2. ReplyOf[c] \in Replies /\ command[ReplyOf[c]] = c
    BY <2>1, DeviceAssumption DEF CommandsInv, ExecOK, Abandoned
  <2>3. ReplyOf[c] \notin rs
    BY <2>1, <2>2 DEF cs
  <2>4. Awaited(ReplyOf[c])
    BY <2>1, <2>2, <2>3, DeviceAssumption
       DEF CommandsInv, ExecutingIsAwaited, Abandoned, Awaited
  <2>5. QED
    BY <2>2, <2>3, <2>4, DeviceAssumption DEF Awaited
<1>11. QED
  BY <1>5, <1>6, <1>7, <1>8, <1>9, <1>10 DEF CommandsInv

LEMMA DecrementKeeps ==
  ASSUME CommandsInv, decrementDeviceReplyMap
  PROVE  CommandsInv'
<1>0. /\ TimedOut \subseteq Replies /\ MaxDelayCycles \in Nat \ {0}
      /\ delay \in [Replies -> 0..MaxDelayCycles]
  BY DeviceAssumption DEF TimedOut, CommandsInv, TypeOK
<1>1. \A r \in TimedOut : Awaited(r)
  BY DEF CommandsInv, ReplyOK, TimedOut, Awaited
<1>2. \A r \in Replies : Reset(r) \in 0..MaxDelayCycles /\ (Reset(r) # 0 <=> r \in Periodic)
  BY <1>0 DEF Reset, Full
<1>3. \A r \in Replies \ TimedOut :
         Decremented(r) \in 0..MaxDelayCycles /\ (Decremented(r) # 0 <=> delay[r] # 0)
  <2> SUFFICES ASSUME NEW r \in Replies \ TimedOut
               PROVE  Decremented(r) \in 0..MaxDelayCycles /\ (Decremented(r) # 0 <=> delay[r] # 0)
    OBVIOUS
  <2>1. delay[r] \in 0..MaxDelayCycles
    BY <1>0
  <2>2. CASE r \in Timed \/ delay[r] = 0
    BY <2>1, <2>2 DEF Decremented, Awaited
  <2>3. CASE r \notin Timed /\ delay[r] # 0
    <3>1. delay[r] # 1
      BY <2>3 DEF TimedOut
    <3>2. QED
      BY <1>0, <2>1, <2>3, <3>1 DEF Decremented, Awaited
  <2>4. QED
    BY <2>2, <2>3
<1>4. delay' \in [Replies -> 0..MaxDelayCycles]
  BY <1>2, <1>3 DEF decrementDeviceReplyMap
<1>5. /\ \A r \in Replies \ TimedOut : delay'[r] # 0 <=> delay[r] # 0
      /\ \A r \in TimedOut : delay'[r] # 0 <=> r \in Periodic
  BY <1>0, <1>2, <1>3 DEF decrementDeviceReplyMap
<1>6. QED
  BY <1>0, <1>1, <1>4, <1>5, RepliedKeeps DEF decrementDeviceReplyMap

LEMMA HandleReplyKeeps ==
  ASSUME CommandsInv, NEW r \in Replies, handleReply(r)
  PROVE  CommandsInv'
<1>0. /\ MaxDelayCycles \in Nat \ {0} /\ delay \in [Replies -> 0..MaxDelayCycles]
  BY DeviceAssumption DEF CommandsInv, TypeOK
<1>1. Reset(r) \in 0..MaxDelayCycles /\ (Reset(r) # 0 <=> r \in Periodic)
  BY <1>0 DEF Reset, Full
<1>2. delay' = [delay EXCEPT ![r] = Reset(r)]
  BY DEF handleReply
<1>3. delay' \in [Replies -> 0..MaxDelayCycles]
  BY <1>0, <1>1, <1>2
<1>4. /\ \A s \in Replies \ {r} : delay'[s] # 0 <=> delay[s] # 0
      /\ \A s \in {r} : delay'[s] # 0 <=> s \in Periodic
  BY <1>0, <1>1, <1>2
<1>5. {r} \in SUBSET Replies /\ (\A s \in {r} : Awaited(s)) /\ replyToReply({r}) /\ step' = step
      /\ expired' \subseteq expired \ {r} /\ UNCHANGED <<mode, cookieVars, command>>
  BY DEF handleReply
<1>6. QED
  BY <1>3, <1>4, <1>5, RepliedKeeps

\* Steps in which only the step, the mode and the state of a cookie without
\* a write change.
LEMMA IdleKeeps ==
  ASSUME CommandsInv, ~UnderWay, step' \in Steps, mode' \in ModeKinds,
         cookieState' \in {"UNUSED", "READ_SENT"} \/ cookieState' = cookieState,
         UNCHANGED <<pendingCommand, isExecuting, replyVars, askVars>>
  PROVE  CommandsInv'
<1>1. ~UnderWay'
  BY DEF UnderWay
<1>2. TypeOK'
  BY DEF CommandsInv, TypeOK, replyVars, askVars
<1>3. CycleOK'
  BY <1>1 DEF CycleOK, UnderWay
<1>4. \A c : Writing(c)' <=> Writing(c)
  BY <1>1 DEF Writing, UnderWay
<1>5. ReplyOK'
  BY <1>4 DEF CommandsInv, TypeOK, ReplyOK, replyVars, Awaited
<1>6. ExecOK'
  BY <1>4 DEF CommandsInv, ExecOK, replyVars
<1>7. AskOK'
  BY DEF CommandsInv, AskOK, AnsweredOnce, SeveralAnswers, askVars
<1>8. ExecutingIsAwaited'
  BY <1>4 DEF CommandsInv, ExecutingIsAwaited, Abandoned, Awaited, replyVars
<1>9. QED
  BY <1>2, <1>3, <1>5, <1>6, <1>7, <1>8 DEF CommandsInv

\* The write succeeds, of the command of the cycle or of the handler's own.
LEMMA SendWorksKeeps ==
  ASSUME CommandsInv, step = "SEND_WRITE", mode # "OFF", step' = "GET_WRITE",
         NEW c \in Commands, sendMessageWorks(c), UNCHANGED <<mode, replyVars>>
  PROVE  CommandsInv'
<1>0. \A r \in Replies \ Periodic : Awaited(r) => command[r] # c
  BY DEF CommandsInv, ReplyOK, Writing, sendMessageWorks, ToSend
<1>1. TypeOK'
  BY DEF CommandsInv, TypeOK, replyVars, Steps, sendMessageWorks, CommandersOf
<1>2. CycleOK'
  BY DEF CycleOK, UnderWay, sendMessageWorks
<1>3. ReplyOK'
  BY <1>0 DEF CommandsInv, ReplyOK, replyVars, Awaited, Writing, sendMessageWorks
<1>4. \A d \in isExecuting' : d # c => d \in isExecuting /\ ~Writing(d)
  BY DEF Writing, sendMessageWorks, ToSend
<1>5. Writing(c)'
  BY DEF Writing, sendMessageWorks
<1>6. ExecOK'
  BY <1>4, <1>5 DEF CommandsInv, ExecOK, replyVars
<1>7. AskOK'
  <2>1. CASE cookieState = "UNUSED"
    BY <2>1 DEF CommandsInv, AskOK, AnsweredOnce, SeveralAnswers, sendMessageWorks, CommandersOf, ToSend
  <2>2. CASE cookieState # "UNUSED"
    BY <2>2, PendingIsOpen, RawAsked
       DEF CommandsInv, AskOK, AnsweredOnce, SeveralAnswers, sendMessageWorks, CommandersOf, ToSend, UnderWay
  <2>3. QED
    BY <2>1, <2>2
<1>8. ExecutingIsAwaited'
  BY <1>4, <1>5 DEF CommandsInv, ExecutingIsAwaited, Abandoned, Awaited, replyVars
<1>9. QED
  BY <1>1, <1>2, <1>3, <1>6, <1>7, <1>8 DEF CommandsInv

\* A write that is under way, or was not begun, is over without a reply to
\* wait for.
LEMMA WriteOverKeeps ==
  ASSUME CommandsInv, NEW c \in Commands, NEW who \in SUBSET external, mode # "OFF",
         (UnderWay /\ c = pendingCommand /\ who = external) \/ (~UnderWay /\ c \notin isExecuting /\ who = external \ {c}),
         external' = who, asked' = asked \ {c}, stray' = stray \cup (({c} \cap who) \ asked), RawAnswered(c),
         c = RawCommand /\ ~UnderWay => ChildRaw,
         isExecuting' = isExecuting \ {c}, cookieState' = "UNUSED", pendingCommand' = None,
         step' \in Steps, UNCHANGED <<mode, replyVars>>
  PROVE  CommandsInv'
<1>0. \A r \in Replies \ Periodic : Awaited(r) => command[r] # c
  BY DEF CommandsInv, ReplyOK, Writing, UnderWay
<1>1. TypeOK'
  BY DEF CommandsInv, TypeOK, replyVars, RawAnswered
<1>2. CycleOK'
  BY DEF CycleOK, UnderWay
<1>3. ReplyOK'
  BY <1>0 DEF CommandsInv, ReplyOK, replyVars, Awaited, Writing
<1>4. \A d \in isExecuting' : d \in isExecuting /\ ~Writing(d)
  BY DEF Writing, UnderWay
<1>5. ExecOK'
  BY <1>4 DEF CommandsInv, ExecOK, replyVars
<1>6. AskOK'
  <2>1. ({c} \cap who) \ asked \subseteq SeveralAnswers
    BY PendingIsOpen
  <2>2. unasked' # {} => ChildRaw
    BY RawAsked DEF CommandsInv, AskOK, AnsweredOnce, RawAnswered
  <2>3. QED
    BY <2>1, <2>2 DEF CommandsInv, AskOK, AnsweredOnce, SeveralAnswers
<1>7. ExecutingIsAwaited'
  BY <1>4 DEF CommandsInv, ExecutingIsAwaited, Abandoned, Awaited, replyVars
<1>8. QED
  BY <1>1, <1>2, <1>3, <1>5, <1>6, <1>7 DEF CommandsInv

LEMMA SendWriteKeeps ==
  ASSUME CommandsInv, doSendWrite
  PROVE  CommandsInv'
<1>1. CASE NothingToSend
  BY <1>1, IdleKeeps DEF doSendWrite, NothingToSend, cookieVars, UnderWay, CommandsInv, TypeOK, Steps
<1>2. CASE \E c \in Commands : sendMessageWorks(c)
  BY <1>2, SendWorksKeeps DEF doSendWrite
<1>3. CASE \E c \in Commands : sendMessageFails(c)
  <2>1. PICK c \in Commands : sendMessageFails(c)
    BY <1>3
  <2>2. /\ CommandersOf(c) \in SUBSET external
        /\ \/ UnderWay /\ c = pendingCommand /\ CommandersOf(c) = external
           \/ ~UnderWay /\ c \notin isExecuting /\ CommandersOf(c) = external \ {c}
        /\ c = RawCommand /\ ~UnderWay => ChildRaw
    BY <2>1 DEF sendMessageFails, ToSend, CommandersOf, UnderWay
  <2>3. QED
    BY <2>1, <2>2, WriteOverKeeps DEF sendMessageFails, doSendWrite, Steps
<1>4. QED
  BY <1>1, <1>2, <1>3 DEF doSendWrite

\* The command has been sent and its reply is awaited from now on.
LEMMA WriteDoneKeeps ==
  ASSUME CommandsInv, doGetWrite, cookieState = "WRITE_SENT",
         cookieState' = "UNUSED", pendingCommand' = None, WriteDone(pendingCommand)
  PROVE  CommandsInv'
<1> DEFINE c == pendingCommand
           r == ReplyOf[c]
<1>0. /\ c \in Commands /\ r \in Replies
      /\ c \in isExecuting \/ r \in Periodic
  BY DeviceAssumption DEF CommandsInv, CycleOK, UnderWay, WriteDone
<1>1. Full(r) \in 1..MaxDelayCycles /\ 1..MaxDelayCycles \subseteq 0..MaxDelayCycles
  BY DeviceAssumption DEF Full
<1>2. /\ delay' = [delay EXCEPT ![r] = Full(r)]
      /\ command' = [command EXCEPT ![r] = c]
      /\ expired' = expired \ {r}
      /\ UNCHANGED <<mode, isExecuting, askVars>>
      /\ step' = "SEND_READ"
  BY DeviceAssumption DEF WriteDone, enableReplyInReplyMap, replyToCommand, RawAnswered, doGetWrite, askVars
<1> HIDE DEF c, r
<1>3. TypeOK'
  BY <1>0, <1>1, <1>2 DEF CommandsInv, TypeOK, askVars, Steps
<1>4. CycleOK'
  BY DEF CycleOK, UnderWay
<1>5. /\ \A s \in Replies : s # r => delay'[s] = delay[s] /\ command'[s] = command[s]
      /\ delay'[r] # 0 /\ command'[r] = c
  BY <1>0, <1>1, <1>2 DEF CommandsInv, TypeOK
<1>6. \A d : ~Writing(d)'
  BY DEF Writing
<1>7. c # None
  BY <1>0, DeviceAssumption
<1>8. ReplyOK'
  <2>1. \A s \in Replies : command'[s] # None => ReplyOf[command'[s]] = s
    BY <1>5 DEF CommandsInv, ReplyOK, r
  <2>2. \A s \in expired' : Awaited(s)'
    BY <1>2, <1>5, DeviceAssumption DEF CommandsInv, TypeOK, ReplyOK, Awaited
  <2>3. \A s \in Replies \ Periodic : Awaited(s)' => command'[s] \in isExecuting'
    BY <1>0, <1>2, <1>5 DEF CommandsInv, ReplyOK, Awaited
  <2>4. QED
    BY <2>1, <2>2, <2>3, <1>6 DEF ReplyOK
<1>9. \A d \in isExecuting : d # c => ~Writing(d)
  BY DEF Writing, c
<1>10. ExecOK'
  <2>1. ASSUME NEW d \in isExecuting'
        PROVE  ReplyOf[d] \in Replies /\ command'[ReplyOf[d]] # None
    <3>1. CASE d = c
      BY <3>1, <1>0, <1>5, <1>7 DEF r
    <3>2. CASE d # c
      BY <3>2, <1>2, <1>5, <1>7, <1>9 DEF CommandsInv, ExecOK
    <3>3. QED
      BY <3>1, <3>2
  <2>2. QED
    BY <2>1 DEF ExecOK
<1>11. AskOK'
  BY <1>2 DEF CommandsInv, AskOK, AnsweredOnce, SeveralAnswers, askVars
<1>12. ExecutingIsAwaited'
  <2> SUFFICES ASSUME NEW d \in isExecuting', ~Abandoned(d)'
               PROVE  ReplyOf[d] # None /\ Awaited(ReplyOf[d])' /\ command'[ReplyOf[d]] = d
    BY DEF ExecutingIsAwaited
  <2>1. ReplyOf[d] \in Replies /\ ReplyOf[d] # None /\ command'[ReplyOf[d]] = d
    BY <1>6, <1>10, DeviceAssumption DEF ExecOK, Abandoned
  <2>2. CASE ReplyOf[d] = r
    BY <2>1, <2>2, <1>5 DEF Awaited
  <2>3. CASE ReplyOf[d] # r
    <3>1. d # c /\ d \in isExecuting /\ ~Writing(d)
      BY <2>3, <1>2, <1>9 DEF r
    <3>2. QED
      BY <2>1, <2>3, <3>1, <1>5 DEF CommandsInv, ExecutingIsAwaited, Abandoned, Awaited
  <2>4. QED
    BY <2>2, <2>3
<1>13. QED
  BY <1>3, <1>4, <1>8, <1>10, <1>11, <1>12 DEF CommandsInv

LEMMA GetWriteKeeps ==
  ASSUME CommandsInv, doGetWrite
  PROVE  CommandsInv'
<1>1. CASE cookieState = "WRITE_SENT" /\ WriteDone(pendingCommand)
  BY <1>1, WriteDoneKeeps DEF doGetWrite, cookieVars
<1>2. CASE cookieState = "WRITE_SENT" /\ WriteEnds(pendingCommand)
  <2>1. pendingCommand \in Commands /\ UnderWay /\ external \in SUBSET external
    BY <1>2 DEF CommandsInv, CycleOK, UnderWay
  <2>2. QED
    BY <1>2, <2>1, WriteOverKeeps DEF doGetWrite, WriteEnds, replyToCommand, Answer, Steps, cookieVars
<1>3. CASE cookieState # "WRITE_SENT"
  <2>1. ~UnderWay
    BY <1>3 DEF CommandsInv, CycleOK, UnderWay, doGetWrite
  <2>2. QED
    BY <1>3, <2>1, IdleKeeps DEF doGetWrite, cookieVars, CommandsInv, TypeOK, Steps
<1>4. QED
  BY <1>1, <1>2, <1>3 DEF doGetWrite

\* The steps that send nothing and receive nothing.
LEMMA PassiveKeeps ==
  ASSUME CommandsInv, OffStep \/ doSendRead \/ doGetRead \/ ParseEnds
  PROVE  CommandsInv'
<1>1. ~UnderWay
  BY DEF CommandsInv, CycleOK, UnderWay, OffStep, doSendRead, doGetRead, ParseEnds
<1>2. step' \in Steps /\ mode' \in ModeKinds
  BY DEF CommandsInv, TypeOK, Steps, ModeKinds, OffStep, doSendRead, doGetRead, ParseEnds
<1>3. /\ cookieState' \in {"UNUSED", "READ_SENT"} \/ cookieState' = cookieState
      /\ UNCHANGED <<pendingCommand, isExecuting, replyVars, askVars>>
  BY DEF OffStep, doSendRead, doGetRead, ParseEnds, cookieVars
<1>4. QED
  BY <1>1, <1>2, <1>3, IdleKeeps

LEMMA CountdownKeeps ==
  ASSUME CommandsInv, NEW r \in Replies, CountdownExpires(r)
  PROVE  CommandsInv'
<1>1. TypeOK' /\ CycleOK'
  BY DEF CommandsInv, TypeOK, CycleOK, UnderWay, CountdownExpires, cookieVars, askVars
<1>2. ReplyOK' /\ ExecOK'
  BY DEF CommandsInv, ReplyOK, ExecOK, Awaited, Writing, CountdownExpires, cookieVars
<1>3. AskOK' /\ ExecutingIsAwaited'
  BY DEF CommandsInv, AskOK, AnsweredOnce, SeveralAnswers, ExecutingIsAwaited, Abandoned, Awaited, Writing,
         CountdownExpires, cookieVars, askVars
<1>4. QED
  BY <1>1, <1>2, <1>3 DEF CommandsInv

LEMMA StutterKeeps ==
  ASSUME CommandsInv, UNCHANGED vars
  PROVE  CommandsInv'
BY DEF vars, cookieVars, replyVars, askVars, CommandsInv, TypeOK, CycleOK, UnderWay, ReplyOK, ExecOK, AskOK,
       AnsweredOnce, SeveralAnswers, ExecutingIsAwaited, Abandoned, Awaited, Writing

LEMMA CommandsStep ==
  ASSUME CommandsInv, [Next]_vars
  PROVE  CommandsInv'
<1>1. CASE Cycle
  BY <1>1, PerformOperationKeeps, DecrementKeeps, SendWriteKeeps, GetWriteKeeps, PassiveKeeps DEF Cycle
<1>2. CASE \E r \in Replies : updatePeriodicReply(r) \/ handleReply(r) \/ CountdownExpires(r)
  BY <1>2, UpdatePeriodicKeeps, HandleReplyKeeps, CountdownKeeps
<1>3. CASE UNCHANGED vars
  BY <1>3, StutterKeeps
<1>4. QED
  BY <1>1, <1>2, <1>3 DEF Next

LEMMA CommandsInvariant == Spec => []CommandsInv
BY CommandsInitial, CommandsStep, PTL DEF Spec

-----------------------------------------------------------------------------

\* The cookie, the maps of DeviceHandlerBase and what the commanders have been
\* told keep their types: no delay counter leaves 0..MaxDelayCycles.
THEOREM CommandsTypeCorrect == Spec => []TypeOK
BY CommandsInvariant, PTL DEF CommandsInv

\* Whatever the device, the communication interface and the child do, a
\* command that isExecuting has a write or a reply, in its name, to end it.
THEOREM AlwaysAwaited == Spec => []ExecutingIsAwaited
BY CommandsInvariant, PTL DEF CommandsInv

\* No commander gets a further answer after the last one (replyToCommand,
\* replyToReply), and none without an answer has lost its command.
THEOREM AnsweredOnlyOnce == Spec => []AnsweredOnce
<1>1. CommandsInv => AnsweredOnce
  BY DEF CommandsInv, AskOK
<1>2. QED
  BY <1>1, CommandsInvariant, PTL

=============================================================================
