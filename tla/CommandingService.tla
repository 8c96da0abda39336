-------------------------- MODULE CommandingService --------------------------
(***************************************************************************)
(* CommandingServiceBase: a PUS service that relays telecommands to the    *)
(* message queues of other objects and reports on them to the ground.      *)
(*                                                                         *)
(* The service is one periodic task.  performOperation empties the queue   *)
(* of replies, then the queue of telecommands, then looks for commands     *)
(* that have run too long; `phase' and `slot' are its program counter.     *)
(* Telecommands come in from the distributor and replies from the target   *)
(* objects while it runs, from other tasks.                                *)
(*                                                                         *)
(* What a child class decides (isValidSubservice, prepareCommand,          *)
(* handleReply) and whether a send succeeds are free choices.              *)
(***************************************************************************)
EXTENDS Naturals, Sequences, FiniteSets, SequencesExt

CONSTANTS
    TCs,                    \* the telecommands, numbered in the order they come in
    NoTC,                   \* what a new entry holds before its first start
    Objects,                \* target objects
    Queues,                 \* their message queues
    Targets,                \* which objects the telecommands may be for
    QueueOf,                \* the queue of each object
    NumberOfParallelCommands,
    FifoDepth,              \* COMMAND_INFO_FIFO_DEPTH
    QueueDepth,             \* depth of requestQueue and of commandQueue
    Unreadable,             \* telecommands the store may lose while they are queued
    MaxSteps                \* bound: replies before the last, in all

ASSUME ServiceAssumption ==
    /\ TCs \subseteq Nat /\ NoTC \notin TCs
    /\ Targets \subseteq [TCs -> Objects] /\ QueueOf \in [Objects -> Queues]
    /\ NumberOfParallelCommands \in Nat /\ FifoDepth \in Nat /\ QueueDepth \in Nat
    /\ Unreadable \subseteq TCs /\ MaxSteps \in Nat

VARIABLES
    commandMap,     \* a FixedMap: the array of entries, in array order
    requestQueue,   \* telecommands from the distributor
    commandQueue,   \* replies from the objects
    tcStore,        \* telecommands whose data is in the TC store
    reports,        \* verification reports sent for each telecommand
    tcReader,       \* the telecommand read last, NoTC if its packet has been deleted
    blamed,         \* who was reported on in place of a lost one, after which reports
    working,        \* commands the objects have received and not answered for good
    replies,        \* replies before the last that they may still send
    phase, slot,    \* where performOperation is
    objectOf,       \* the object each telecommand is for
    unreadable,     \* the telecommands the store does lose: none, or Unreadable
    mixedUp         \* who was ended by the reply to whom, when they differ

readerVars == <<tcReader, blamed>>
serviceVars == <<commandMap, reports, readerVars, mixedUp>>
taskVars == <<phase, slot>>
inputs == <<objectOf, unreadable>>
vars == <<serviceVars, taskVars, requestQueue, commandQueue, tcStore, working, replies, inputs>>

ReportIds == {"INVALID_TC", "MISLABELLED", "START_SUCCESS", "START_FAILURE",
              "PROGRESS_SUCCESS", "PROGRESS_FAILURE", "COMPLETION_SUCCESS", "COMPLETION_FAILURE"}
Phases == {"handleCommandQueue", "handleRequestQueue", "checkTimeout"}

Init ==
    /\ commandMap = <<>>
    /\ requestQueue = <<>> /\ commandQueue = <<>>
    /\ tcStore = {}
    /\ reports = [t \in TCs |-> <<>>]
    /\ tcReader = NoTC /\ blamed = {}
    /\ working = [q \in Queues |-> {}]
    /\ replies = MaxSteps
    /\ phase = "handleCommandQueue" /\ slot = 1
    /\ mixedUp = {}
    /\ objectOf \in Targets /\ unreadable \in {{}, Unreadable}

-----------------------------------------------------------------------------
(* FixedMap *)

Slots == DOMAIN commandMap

find(queue) == { k \in Slots : commandMap[k].queue = queue }

\* Slip: the last entry goes, whichever is to be erased.
SlipErase(map, k) == SubSeq(map, 1, Len(map) - 1)

\* The last entry takes the place of the erased one.
erase(map, k) == [j \in 1..(Len(map) - 1) |-> IF j = k THEN map[Len(map)] ELSE map[j]]

-----------------------------------------------------------------------------
(* startExecution and checkAndExecuteFifo call each other until a            *)
(* telecommand stays active, one cannot be read any more, or none waits.     *)
(* `waiting' holds the telecommands to be tried for the entry in slot k of   *)
(* map, `lost' those the store does not hold any more.  The ones in `ended'  *)
(* end while they are started: rejected, or fire and forget.  Whoever is     *)
(* rejected or accepted has been read by tcReader, and is deleted.           *)

StartReports(how) ==
    IF how = "rejected" THEN <<"START_FAILURE">> ELSE <<"START_SUCCESS", "COMPLETION_SUCCESS">>

EndAtStart(ended, lost, reported, final) ==
    /\ Range(ended) \cap lost = {}
    /\ \E how \in [Range(ended) -> {"rejected", "forgotten"}] :
          reports' = [t \in TCs |->
              IF t \in Range(ended) THEN reported[t] \o StartReports(how[t])
              ELSE reported[t] \o final[t]]

NoReport == [t \in TCs |-> <<>>]

\* Slip: the entry is left in the map.
SlipRunOut(map, k, waiting, lost, reported) ==
    /\ EndAtStart(waiting, lost, reported, NoReport)
    /\ commandMap' = [map EXCEPT ![k].fifo = <<>>]
    /\ tcStore' = tcStore \ Range(waiting)
    /\ UNCHANGED <<readerVars, working>>

\* Nothing is left to start: the entry is erased.
RunOut(map, k, waiting, lost, reported) ==
    /\ EndAtStart(waiting, lost, reported, NoReport)
    /\ commandMap' = erase(map, k)
    /\ tcStore' = tcStore \ Range(waiting)
    /\ tcReader' = IF waiting = <<>> THEN tcReader ELSE NoTC
    /\ UNCHANGED <<blamed, working>>

\* waiting[n] becomes the active command of the entry.  Its command is sent,
\* unless prepareCommand set none.
StartActive(map, k, waiting, n, lost, reported) ==
    /\ waiting[n] \notin lost
    /\ EndAtStart(SubSeq(waiting, 1, n - 1), lost, reported,
                  [NoReport EXCEPT ![waiting[n]] = <<"START_SUCCESS">>])
    /\ commandMap' = [map EXCEPT ![k].tc = waiting[n], ![k].overdue = FALSE,
                                 ![k].fifo = SubSeq(waiting, n + 1, Len(waiting))]
    /\ tcStore' = tcStore \ Range(SubSeq(waiting, 1, n))
    /\ \/ working' = [working EXCEPT ![map[k].queue] = @ \cup {waiting[n]}]
       \/ UNCHANGED working
    /\ tcReader' = NoTC
    /\ UNCHANGED blamed

\* The report on a lost telecommand carries the fields tcReader finds: of the
\* one read last, if that still waits; otherwise its place in the store holds
\* zeros or another telecommand by now.
Blame ==
    \E t \in IF tcReader' # NoTC THEN {tcReader'} ELSE tcStore' \cup {NoTC} :
        blamed' = IF t = NoTC THEN blamed ELSE blamed \cup {<<t, reports'[t]>>}

\* waiting[n] cannot be read back.  It leaves the fifo, and the entry stays as
\* it was, though no command is under way for it.  The start failure carries its
\* own fields if it is found and cannot be parsed, and those of somebody else if
\* it is not found (MISLABELLED).
SkipLost(map, k, waiting, n, lost, reported) ==
    /\ waiting[n] \in lost
    /\ commandMap' = [map EXCEPT ![k].fifo = SubSeq(waiting, n + 1, Len(waiting))]
    /\ tcStore' = tcStore \ Range(SubSeq(waiting, 1, n))
    /\ \E id \in {"START_FAILURE", "MISLABELLED"} :
          /\ EndAtStart(SubSeq(waiting, 1, n - 1), lost, reported, [NoReport EXCEPT ![waiting[n]] = <<id>>])
          /\ tcReader' = IF id = "MISLABELLED" /\ n = 1 /\ tcReader \in tcStore' THEN tcReader ELSE NoTC
          /\ IF id = "MISLABELLED" THEN Blame ELSE UNCHANGED blamed
    /\ UNCHANGED working

Execute(map, k, waiting, lost, reported) ==
    \/ RunOut(map, k, waiting, lost, reported)
    \/ \E n \in DOMAIN waiting :
          \/ StartActive(map, k, waiting, n, lost, reported)
          \/ SkipLost(map, k, waiting, n, lost, reported)

startExecution(map, k, t) == Execute(map, k, <<t>>, {}, reports)

\* Slip: the entry is erased though telecommands wait in its fifo.
SlipCheckAndExecuteFifo(k, reported) ==
    /\ commandMap' = erase(commandMap, k)
    /\ reports' = reported
    /\ UNCHANGED <<readerVars, tcStore, working>>

checkAndExecuteFifo(k, reported) ==
    Execute(commandMap, k, commandMap[k].fifo, unreadable, reported)

Reported(t, id) == [reports EXCEPT ![t] = Append(@, id)]

-----------------------------------------------------------------------------
(* handleCommandQueue: one reply.  The command it belongs to is found by the *)
(* queue it comes from.                                                      *)

ReceiveReply(kinds) ==
    /\ phase = "handleCommandQueue"
    /\ commandQueue # <<>> /\ Head(commandQueue).kind \in kinds
    /\ commandQueue' = Tail(commandQueue)
    /\ UNCHANGED <<taskVars, requestQueue>>

\* No entry for the sender, or handleReply finds the reply invalid, as it may
\* any reply.
UnrequestedReply ==
    /\ ReceiveReply({"step", "last"})
    /\ UNCHANGED <<serviceVars, tcStore, working>>

\* A step, and the next command if there is one could be sent.
StepReply ==
    /\ ReceiveReply({"step"})
    /\ \E k \in find(Head(commandQueue).queue) :
          reports' = Reported(commandMap[k].tc, "PROGRESS_SUCCESS")
    /\ UNCHANGED <<commandMap, readerVars, mixedUp, tcStore, working>>

\* A reply that ends the command: execution complete or failed, a failed step,
\* or a next command that could not be sent.  The object may not be done yet.
EndReply(id) ==
    /\ ReceiveReply({"step", "last"})
    /\ \E k \in find(Head(commandQueue).queue) :
          /\ mixedUp' = mixedUp \cup
                ({<<commandMap[k].tc, Head(commandQueue).about>>} \ { <<t, t>> : t \in TCs })
          /\ checkAndExecuteFifo(k, Reported(commandMap[k].tc, id))

EndReports == {"COMPLETION_SUCCESS", "COMPLETION_FAILURE", "PROGRESS_FAILURE"}

handleCommandMessage ==
    \/ UnrequestedReply
    \/ StepReply
    \/ \E id \in EndReports : EndReply(id)

CommandQueueEmpty ==
    /\ phase = "handleCommandQueue" /\ commandQueue = <<>>
    /\ phase' = "handleRequestQueue"
    /\ UNCHANGED <<slot, serviceVars, requestQueue, commandQueue, tcStore, working>>

-----------------------------------------------------------------------------
(* handleRequestQueue: one telecommand. *)

ReceiveRequest ==
    /\ phase = "handleRequestQueue" /\ requestQueue # <<>>
    /\ requestQueue' = Tail(requestQueue)
    /\ UNCHANGED <<taskVars, commandQueue, mixedUp>>

\* Slip: the packet is left in the store.
SlipRejectRequest(id) ==
    /\ ReceiveRequest
    /\ reports' = Reported(Head(requestQueue), id)
    /\ UNCHANGED <<commandMap, readerVars, tcStore, working>>

\* rejectPacketInvalidTc reports without saying which telecommand; rejectPacket
\* is for an invalid subservice or target.  A telecommand that is not found in
\* the store leaves tcReader where it was.
RejectRequest(id) ==
    /\ ReceiveRequest
    /\ reports' = Reported(Head(requestQueue), id)
    /\ tcStore' = tcStore \ {Head(requestQueue)}
    /\ \/ tcReader' = NoTC
       \/ id = "INVALID_TC" /\ UNCHANGED tcReader
    /\ UNCHANGED <<commandMap, blamed, working>>

Target == QueueOf[objectOf[Head(requestQueue)]]

QueueRequest ==
    /\ ReceiveRequest
    /\ \E k \in find(Target) :
          /\ Len(commandMap[k].fifo) < FifoDepth
          /\ commandMap' = [commandMap EXCEPT ![k].fifo = Append(@, Head(requestQueue))]
    /\ tcReader' = Head(requestQueue)
    /\ UNCHANGED <<reports, blamed, tcStore, working>>

BusyRequest ==
    /\ \/ \E k \in find(Target) : Len(commandMap[k].fifo) = FifoDepth
       \/ find(Target) = {} /\ Len(commandMap) = NumberOfParallelCommands
    /\ RejectRequest("START_FAILURE")

NewEntry == [queue |-> Target, object |-> objectOf[Head(requestQueue)],
             tc |-> NoTC, overdue |-> FALSE, fifo |-> <<>>]

StartRequest ==
    /\ ReceiveRequest
    /\ find(Target) = {} /\ Len(commandMap) < NumberOfParallelCommands
    /\ startExecution(Append(commandMap, NewEntry), Len(commandMap) + 1, Head(requestQueue))

handleRequest ==
    \/ RejectRequest("INVALID_TC")
    \/ RejectRequest("START_FAILURE")
    \/ QueueRequest
    \/ requestQueue # <<>> /\ BusyRequest
    \/ requestQueue # <<>> /\ StartRequest

RequestQueueEmpty ==
    /\ phase = "handleRequestQueue" /\ requestQueue = <<>>
    /\ phase' = "checkTimeout" /\ slot' = 1
    /\ UNCHANGED <<serviceVars, requestQueue, commandQueue, tcStore, working>>

-----------------------------------------------------------------------------
(* checkTimeout: the clock is read once and the entries are visited in array *)
(* order.  erase steps the iterator back, so that the entry moved into the   *)
(* erased slot is visited too.                                               *)

\* Slip: the iterator goes on from an erased entry.
SlipNextSlot == slot' = slot + 1

NextSlot == slot' = IF Len(commandMap') < Len(commandMap) THEN slot ELSE slot + 1

InTime ==
    /\ phase = "checkTimeout" /\ slot \in Slots /\ ~commandMap[slot].overdue
    /\ slot' = slot + 1
    /\ UNCHANGED <<phase, serviceVars, requestQueue, commandQueue, tcStore, working>>

TimedOut ==
    /\ phase = "checkTimeout" /\ slot \in Slots /\ commandMap[slot].overdue
    /\ checkAndExecuteFifo(slot, Reported(commandMap[slot].tc, "COMPLETION_FAILURE"))
    /\ NextSlot
    /\ UNCHANGED <<phase, requestQueue, commandQueue, mixedUp>>

AllVisited ==
    /\ phase = "checkTimeout" /\ slot \notin Slots
    /\ phase' = "handleCommandQueue" /\ slot' = 1
    /\ UNCHANGED <<serviceVars, requestQueue, commandQueue, tcStore, working>>

performOperation ==
    \/ handleCommandMessage \/ CommandQueueEmpty
    \/ handleRequest \/ RequestQueueEmpty
    \/ InTime \/ TimedOut \/ AllVisited

-----------------------------------------------------------------------------
(* The other tasks: the distributor, the objects, and time. *)

SubmitTC(t) ==
    /\ reports[t] = <<>> /\ t \notin tcStore
    /\ \A u \in TCs : u < t => reports[u] # <<>> \/ u \in tcStore
    /\ Len(requestQueue) < QueueDepth
    /\ tcStore' = tcStore \cup {t}
    /\ requestQueue' = Append(requestQueue, t)
    /\ UNCHANGED <<serviceVars, taskVars, commandQueue, working, replies>>

\* A reply to a full queue is lost.
SendReply(q, t, kind) ==
    /\ t \in working[q]
    /\ \/ /\ Len(commandQueue) < QueueDepth
          /\ commandQueue' = Append(commandQueue, [queue |-> q, about |-> t, kind |-> kind])
       \/ /\ Len(commandQueue) = QueueDepth
          /\ UNCHANGED commandQueue
    /\ UNCHANGED <<serviceVars, taskVars, requestQueue, tcStore>>

IntermediateReply(q, t) ==
    /\ replies > 0
    /\ replies' = replies - 1
    /\ SendReply(q, t, "step")
    /\ UNCHANGED working

LastReply(q, t) ==
    /\ SendReply(q, t, "last")
    /\ working' = [working EXCEPT ![q] = @ \ {t}]
    /\ UNCHANGED replies

\* The time limit of a command passes.  checkTimeout itself takes no time.
TimePasses(k) ==
    /\ phase # "checkTimeout" /\ ~commandMap[k].overdue
    /\ commandMap' = [commandMap EXCEPT ![k].overdue = TRUE]
    /\ UNCHANGED <<reports, readerVars, mixedUp, taskVars, requestQueue, commandQueue, tcStore, working, replies>>

Operation ==
    \/ performOperation /\ UNCHANGED replies
    \/ \E t \in TCs : SubmitTC(t)
    \/ \E q \in Queues : \E t \in working[q] :
          \/ IntermediateReply(q, t)
          \/ LastReply(q, t)
    \/ \E k \in Slots : TimePasses(k)

Next == Operation /\ UNCHANGED inputs

Spec == Init /\ [][Next]_vars

(* The task is called again and again, and time passes between its calls.     *)
(* The distributor and the objects need do nothing.                           *)
LiveSpec ==
    /\ Spec
    /\ WF_vars(performOperation /\ UNCHANGED <<replies, inputs>>)
    /\ \A k \in 1..NumberOfParallelCommands :
          SF_vars(k \in Slots /\ TimePasses(k) /\ UNCHANGED inputs)

-----------------------------------------------------------------------------
Entries == [queue : Queues, object : Objects, tc : TCs, overdue : BOOLEAN, fifo : Seq(TCs)]

TypeOK ==
    /\ commandMap \in Seq(Entries)
    /\ Len(commandMap) <= NumberOfParallelCommands
    /\ \A k \in Slots : Len(commandMap[k].fifo) <= FifoDepth
    /\ requestQueue \in Seq(TCs)
    /\ tcStore \subseteq TCs /\ tcReader \in TCs \cup {NoTC}
    /\ reports \in [TCs -> Seq(ReportIds)]
    /\ phase \in Phases /\ slot \in 1..(NumberOfParallelCommands + 1)

Terminal == {"INVALID_TC", "START_FAILURE", "PROGRESS_FAILURE",
             "COMPLETION_SUCCESS", "COMPLETION_FAILURE"}
Finished(t) == reports[t] # <<>> /\ Last(reports[t]) \in Terminal
Active(t) == \E k \in Slots : commandMap[k].tc = t

\* No telecommand that is lost goes to the same queue.
Undisturbed(t) == \A u \in unreadable : QueueOf[objectOf[u]] # QueueOf[objectOf[t]]

(* The reports on a telecommand tell one story: a refusal, or a start, any    *)
(* number of steps and one end.  None follows the end, whatever replies come  *)
(* late or twice and whatever times out meanwhile.  A telecommand the store   *)
(* has lost upsets this for its own object; and the ground may hear of its    *)
(* start failure under the ids of any telecommand, but only of one that still *)
(* waits, before the first report of its own.                                 *)
ReportsTellOneStory ==
    /\ \A t \in { u \in TCs : Undisturbed(u) } : LET r == reports[t] IN
           \A j \in DOMAIN r :
               /\ j = 1 <=> r[j] \in {"INVALID_TC", "START_FAILURE", "START_SUCCESS"}
               /\ r[j] \in Terminal => j = Len(r)
    /\ \A pair \in blamed : unreadable # {} /\ pair[2] = <<>>

Waiting(k) == Range(commandMap[k].fifo)

(* The TC store holds a telecommand exactly while it waits, in one place, to  *)
(* be started: nothing leaks, and nothing is freed while an address of it is  *)
(* still queued.                                                              *)
StoreMatchesQueues ==
    /\ tcStore = Range(requestQueue) \cup UNION { Waiting(k) : k \in Slots }
    /\ IsInjective(requestQueue)
    /\ \A k \in Slots : /\ IsInjective(commandMap[k].fifo)
                         /\ Waiting(k) \cap Range(requestQueue) = {}
                         /\ \A j \in Slots \ {k} : Waiting(j) \cap Waiting(k) = {}

(* One pass of checkTimeout deals with every overdue entry, although entries  *)
(* are erased and moved under the iterator.  (An entry whose next telecommand *)
(* is lost stays, and stays overdue.)                                         *)
TimeoutPassStep ==
    phase = "checkTimeout" /\ phase' # "checkTimeout" =>
        \A k \in Slots : Undisturbed(commandMap[k].tc) => ~commandMap[k].overdue
TimeoutPassComplete == [][TimeoutPassStep]_vars

(* A reply is matched by its sender only.  It ends another command than the    *)
(* one it is about only when that one has been ended before its object was     *)
(* done with it: while a command is active no other takes its replies.         *)
OnlyLateRepliesMixUp == \A pair \in mixedUp : Finished(pair[2])

(* Every telecommand that reaches the service is reported on to the end, even *)
(* if its object never answers, and even behind one that the store has lost.  *)
EveryTCEnds == \A t \in TCs : t \notin unreadable /\ t \in tcStore ~> Finished(t)
=============================================================================
