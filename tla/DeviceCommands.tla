---------------------------- MODULE DeviceCommands ----------------------------
(***************************************************************************)
(* The communication cycle of DeviceHandlerBase: commands from outside     *)
(* (ActionHelper, raw commands) and from the handler itself are sent to    *)
(* the device one per cycle, and the replies it may send in later cycles   *)
(* are matched with them or time out.                                      *)
(*                                                                         *)
(* `step' is the step of the polling sequence; PERFORM_OPERATION is split  *)
(* at readCommandQueue and decrementDeviceReplyMap, and GET_READ goes      *)
(* through the replies found in the data one by one.  Modes matter here as *)
(* far as the cycle tells them apart; DeviceModes has them in full.  The   *)
(* communication interface, the child class and the device choose freely.  *)
(***************************************************************************)
EXTENDS Naturals, FiniteSets

CONSTANTS
    Commands,           \* deviceCommandMap
    RawCommand,         \* RAW_COMMAND_ID
    Replies,            \* deviceReplyMap
    None,               \* no reply, no command
    ReplyOf,            \* the reply a command enables, its own or the alternative one
    Periodic,           \* replies the device sends by itself
    Timed,              \* replies with a countdown
    Immediate,          \* commands the child carries out itself (EXECUTION_FINISHED)
    MaxDelayCycles,     \* of the replies without countdown
    ChildRaw            \* the child has a buildChildRawCommand of its own

\* A reply without countdown that may be delayed by 0 cycles is never awaited.
ASSUME DeviceAssumption ==
    /\ RawCommand \in Commands /\ None \notin Commands \cup Replies
    /\ ReplyOf \in [Commands -> Replies \cup {None}] /\ ReplyOf[RawCommand] = None
    /\ Periodic \subseteq Replies /\ Timed \subseteq Replies
    /\ Immediate \subseteq Commands \ {RawCommand}
    /\ MaxDelayCycles \in Nat \ {0} /\ ChildRaw \in BOOLEAN

VARIABLES
    step,
    mode,
    cookieState, pendingCommand,    \* cookieInfo; None once the write is over
    isExecuting,                    \* the commands under way
    external,                       \* commands with a commander in sendReplyTo: no raw ones
    delay,                          \* delayCycles; with a countdown, 1 for active
    command,                        \* DeviceReplyInfo::command
    expired,                        \* active replies whose countdown has run out
    asked,                          \* commands whose commander has no final answer yet
    stray,                          \* commands with an answer after the final one
    unasked                         \* commands answered that nobody had sent

cookieVars == <<cookieState, pendingCommand>>
replyVars == <<delay, command, expired>>
askVars == <<external, asked, stray, unasked>>
vars == <<step, mode, cookieVars, isExecuting, replyVars, askVars>>

\* CHILD: the child's transition modes; BASE: the other transition modes
\* and ERROR_ON.
ModeKinds == {"OFF", "ON", "NORMAL", "RAW", "CHILD", "BASE"}
Steps == {"PERFORM_OPERATION", "DECREMENT", "SEND_WRITE", "GET_WRITE", "SEND_READ", "GET_READ",
          "PARSE"}

Init ==
    /\ step = "PERFORM_OPERATION" /\ mode = "OFF"
    /\ cookieState = "UNUSED" /\ pendingCommand = None
    /\ isExecuting = {} /\ external = {}
    /\ delay = [r \in Replies |-> 0] /\ command = [r \in Replies |-> None] /\ expired = {}
    /\ asked = {} /\ stray = {} /\ unasked = {}

Awaited(r) == delay[r] # 0
Full(r) == IF r \in Timed THEN 1 ELSE MaxDelayCycles

-----------------------------------------------------------------------------
(* Answers to commanders *)

\* The commanders of the commands in cs get their last answer.
Answer(cs) ==
    /\ asked' = asked \ cs
    /\ stray' = stray \cup ((cs \cap external) \ asked)

\* replyToCommand answers a raw command without a look at sendReplyTo: the
\* last partner of the queue is told of one that the child has built.
RawAnswered(c) == unasked' = unasked \cup (({c} \cap {RawCommand}) \ asked)

\* replyToCommand: the first step, unless that is all there is to tell.
replyToCommand(c, last) ==
    /\ IF last THEN Answer({c}) ELSE UNCHANGED <<asked, stray>>
    /\ RawAnswered(c)
    /\ UNCHANGED external

\* Slip: the command is left in execution.
SlipReplyToReply(rs) ==
    /\ Answer({ command[r] : r \in rs } \cap Commands)
    /\ UNCHANGED <<isExecuting, external, unasked>>

replyToReply(rs) ==
    LET cs == { command[r] : r \in rs } \cap Commands IN
    /\ Answer(cs)
    /\ isExecuting' = isExecuting \ cs
    /\ UNCHANGED <<external, unasked>>

-----------------------------------------------------------------------------
(* readCommandQueue and doStateMachine *)

Ready(c) ==
    /\ isExecuting' = isExecuting \cup {c}
    /\ cookieState' = "WRITE_READY" /\ pendingCommand' = c

executeAction(c) ==
    /\ mode \in {"ON", "NORMAL"} /\ c \in Commands \ (Immediate \cup {RawCommand})
    /\ c \notin isExecuting
    /\ Ready(c)
    /\ external' = external \cup {c} /\ asked' = asked \cup {c}
    /\ UNCHANGED <<mode, stray, unasked>>

\* The child refuses the command (a failed step is the answer), or has carried
\* it out.  In the second case prepareExecution sends the completion, and the
\* failed step as well.  The commander is noted all the same.
ExecutedAtOnce(c) ==
    /\ mode \in {"ON", "NORMAL"} /\ c \in Commands \ {RawCommand}
    /\ c \notin isExecuting
    /\ external' = external \cup {c}
    /\ stray' = stray \cup ({c} \cap Immediate)
    /\ cookieState' = "UNUSED"
    /\ UNCHANGED <<mode, pendingCommand, isExecuting, asked, unasked>>

buildRawDeviceCommand ==
    /\ mode = "RAW"
    /\ Ready(RawCommand)
    /\ asked' = asked \cup {RawCommand}
    /\ UNCHANGED <<mode, external, stray, unasked>>

\* No message, one that is refused, or one about modes; doStateMachine.
ModeMayChange ==
    /\ mode' \in ModeKinds
    /\ cookieState' = "UNUSED"
    /\ UNCHANGED <<pendingCommand, isExecuting, askVars>>

PerformOperation ==
    /\ step = "PERFORM_OPERATION" /\ step' = "DECREMENT"
    /\ \/ \E c \in Commands : executeAction(c)
       \/ \E c \in Commands : ExecutedAtOnce(c)
       \/ buildRawDeviceCommand
       \/ ModeMayChange
    /\ UNCHANGED replyVars

\* Child classes turn periodic replies on and off in their transitions; one
\* that turned a reply on in every cycle would never see it time out.
updatePeriodicReply(r) ==
    /\ step = "DECREMENT" /\ mode = "CHILD" /\ r \in Periodic
    /\ delay' = [delay EXCEPT ![r] = IF Awaited(r) THEN 0 ELSE Full(r)]
    /\ expired' = expired \ {r}
    /\ UNCHANGED <<step, mode, cookieVars, isExecuting, command, askVars>>

-----------------------------------------------------------------------------
(* decrementDeviceReplyMap *)

\* resetTimeoutControlledReply and resetDelayCyclesControlledReply
Reset(r) == IF r \in Periodic THEN Full(r) ELSE 0

TimedOut == expired \cup { r \in Replies \ Timed : delay[r] = 1 }

Decremented(r) == IF r \in Timed \/ ~Awaited(r) THEN delay[r] ELSE delay[r] - 1

decrementDeviceReplyMap ==
    /\ step = "DECREMENT" /\ step' = "SEND_WRITE"
    /\ delay' = [r \in Replies |-> IF r \in TimedOut THEN Reset(r) ELSE Decremented(r)]
    /\ expired' = {}
    /\ replyToReply(TimedOut)
    /\ UNCHANGED <<mode, cookieVars, command>>

-----------------------------------------------------------------------------
(* Writing *)

\* The steps after PERFORM_OPERATION do nothing in MODE_OFF.
OffStep ==
    /\ mode = "OFF" /\ step \in {"SEND_WRITE", "GET_WRITE", "SEND_READ", "GET_READ"}
    /\ step' = "PERFORM_OPERATION"
    /\ UNCHANGED <<mode, cookieVars, isExecuting, replyVars, askVars>>

\* buildInternalCommand finds nothing to send.
NothingToSend ==
    /\ cookieState = "UNUSED"
    /\ UNCHANGED <<cookieVars, isExecuting, askVars>>

\* What is to be sent: the command of this cycle, or one of the handler's own.
ToSend(c) ==
    \/ cookieState = "WRITE_READY" /\ c = pendingCommand
    \/ /\ cookieState = "UNUSED" /\ mode \in {"NORMAL", "CHILD"}
       /\ c \in Commands \ (isExecuting \cup {RawCommand})
    \/ /\ cookieState = "UNUSED" /\ mode = "RAW" /\ ChildRaw
       /\ c \in {RawCommand} \ isExecuting

\* Slip: the internal command keeps the commander of an earlier time.
SlipCommandersOf(c) == external

CommandersOf(c) == IF cookieState = "UNUSED" THEN external \ {c} ELSE external

sendMessageWorks(c) ==
    /\ ToSend(c)
    /\ isExecuting' = isExecuting \cup {c}
    /\ cookieState' = "WRITE_SENT" /\ pendingCommand' = c
    /\ external' = CommandersOf(c)
    /\ UNCHANGED <<asked, stray, unasked>>

sendMessageFails(c) ==
    /\ ToSend(c)
    /\ external' = CommandersOf(c)
    /\ asked' = asked \ {c}
    /\ stray' = stray \cup (({c} \cap CommandersOf(c)) \ asked)
    /\ RawAnswered(c)
    /\ isExecuting' = isExecuting \ {c}
    /\ cookieState' = "UNUSED" /\ pendingCommand' = None

doSendWrite ==
    /\ step = "SEND_WRITE" /\ mode # "OFF" /\ step' = "GET_WRITE"
    /\ \/ NothingToSend
       \/ \E c \in Commands : sendMessageWorks(c) \/ sendMessageFails(c)
    /\ UNCHANGED <<mode, replyVars>>

\* Slip: the reply is awaited in the name of the command sent before.
SlipEnableReply(c) ==
    /\ delay' = [delay EXCEPT ![ReplyOf[c]] = Full(ReplyOf[c])]
    /\ expired' = expired \ {ReplyOf[c]}
    /\ UNCHANGED command

enableReplyInReplyMap(c) ==
    /\ delay' = [delay EXCEPT ![ReplyOf[c]] = Full(ReplyOf[c])]
    /\ command' = [command EXCEPT ![ReplyOf[c]] = c]
    /\ expired' = expired \ {ReplyOf[c]}

WriteDone(c) ==
    /\ ReplyOf[c] # None
    /\ enableReplyInReplyMap(c)
    /\ replyToCommand(c, FALSE)
    /\ UNCHANGED isExecuting

\* The send failed, or no reply is expected.
WriteEnds(c) ==
    /\ isExecuting' = isExecuting \ {c}
    /\ replyToCommand(c, TRUE)
    /\ UNCHANGED replyVars

doGetWrite ==
    /\ step = "GET_WRITE" /\ mode # "OFF" /\ step' = "SEND_READ"
    /\ \/ /\ cookieState = "WRITE_SENT"
          /\ cookieState' = "UNUSED" /\ pendingCommand' = None
          /\ WriteDone(pendingCommand) \/ WriteEnds(pendingCommand)
       \/ /\ cookieState # "WRITE_SENT"
          /\ UNCHANGED <<cookieVars, isExecuting, replyVars, askVars>>
    /\ UNCHANGED mode

-----------------------------------------------------------------------------
(* Reading *)

doSendRead ==
    /\ step = "SEND_READ" /\ mode # "OFF" /\ step' = "GET_READ"
    /\ cookieState' \in {"READ_SENT", "UNUSED"}
    /\ UNCHANGED <<mode, pendingCommand, isExecuting, replyVars, askVars>>

\* With data received outside RAW, the replies in it are looked at next.
doGetRead ==
    /\ step = "GET_READ" /\ mode # "OFF"
    /\ step' \in IF cookieState = "READ_SENT" /\ mode # "RAW"
                 THEN {"PERFORM_OPERATION", "PARSE"} ELSE {"PERFORM_OPERATION"}
    /\ cookieState' = "UNUSED"
    /\ UNCHANGED <<mode, pendingCommand, isExecuting, replyVars, askVars>>

\* A reply that is not awaited changes nothing, and neither does one whose
\* data the child wants ignored.
handleReply(r) ==
    /\ step = "PARSE" /\ Awaited(r)
    /\ delay' = [delay EXCEPT ![r] = Reset(r)]
    /\ expired' = expired \ {r}
    /\ replyToReply({r})
    /\ UNCHANGED <<step, mode, cookieVars, command>>

\* The child may finish a transition when it has seen the replies.
ParseEnds ==
    /\ step = "PARSE" /\ step' = "PERFORM_OPERATION"
    /\ mode' \in IF mode = "CHILD" THEN ModeKinds \ {"OFF"} ELSE {mode}
    /\ UNCHANGED <<cookieVars, isExecuting, replyVars, askVars>>

-----------------------------------------------------------------------------

CountdownExpires(r) ==
    /\ r \in Timed \ expired /\ Awaited(r)
    /\ expired' = expired \cup {r}
    /\ UNCHANGED <<step, mode, cookieVars, isExecuting, delay, command, askVars>>

Cycle ==
    \/ PerformOperation \/ decrementDeviceReplyMap \/ OffStep
    \/ doSendWrite \/ doGetWrite \/ doSendRead \/ doGetRead \/ ParseEnds

Next ==
    \/ Cycle
    \/ \E r \in Replies : updatePeriodicReply(r) \/ handleReply(r) \/ CountdownExpires(r)

Spec == Init /\ [][Next]_vars

\* The task takes its steps, the data it goes through ends, and time goes on.
FairSpec == Spec /\ WF_vars(Cycle) /\ \A r \in Timed : WF_vars(CountdownExpires(r))

-----------------------------------------------------------------------------
(* Properties *)

TypeOK ==
    /\ step \in Steps /\ mode \in ModeKinds
    /\ cookieState \in {"UNUSED", "WRITE_READY", "WRITE_SENT", "READ_SENT"}
    /\ pendingCommand \in Commands \cup {None}
    /\ isExecuting \subseteq Commands /\ external \subseteq Commands
    /\ delay \in [Replies -> 0..MaxDelayCycles]
    /\ command \in [Replies -> Commands \cup {None}]
    /\ expired \subseteq Timed
    /\ asked \subseteq Commands /\ stray \subseteq Commands
    /\ unasked \subseteq {RawCommand}

Writing(c) == pendingCommand = c /\ cookieState \in {"WRITE_READY", "WRITE_SENT"}

\* Another command that enables the same reply has been sent since, or the
\* child has disabled the periodic reply.
Abandoned(c) ==
    \/ ReplyOf[c] # None /\ command[ReplyOf[c]] \notin {c, None}
    \/ ReplyOf[c] \in Periodic /\ ~Awaited(ReplyOf[c])

\* A command marked as executing, and so refused to others, is on its way to
\* the device or its reply is still awaited, in its name: something is left
\* that will end it.  A second command that enables the same reply
\* (enableReplyInReplyMap) and updatePeriodicReply leave it without.
ExecutingIsAwaited ==
    \A c \in isExecuting : \/ Writing(c)
                           \/ ReplyOf[c] # None /\ Awaited(ReplyOf[c]) /\ command[ReplyOf[c]] = c
                           \/ Abandoned(c)

\* Commands whose answers the code does not keep apart: with a periodic reply,
\* every further reply completes them again; those the child carries out at
\* once get a completion and a failed step.
SeveralAnswers == Immediate \cup { c \in Commands : ReplyOf[c] \in Periodic }

\* A commander without a final answer has its command in execution, and no
\* answer follows the final one (replyToCommand, replyToReply), for every
\* order of failing writes, timeouts, internal commands and late replies.
\* Nobody is answered a raw command he has not sent, unless the child builds
\* raw commands itself (buildChildRawCommand): those are answered, too.
AnsweredOnce ==
    /\ asked \subseteq isExecuting /\ stray \subseteq SeveralAnswers
    /\ unasked # {} => ChildRaw

\* Every command ends, with the reply, the timeout or the failed write,
\* whatever the device does and wherever the mode machine goes.
CommandsEnd ==
    \A c \in Commands : (c \in isExecuting) ~> (c \notin isExecuting \/ Abandoned(c))

=============================================================================
