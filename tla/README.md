# TLA+ models of the FSFW flight software framework

FSFW is a C++ framework for on-board software of spacecraft. A mission links it
with its own device handlers and controllers; the framework supplies the
telecommand chain, the stores and queues through which tasks talk to each
other, the mode and health trees, failure isolation, housekeeping and the
operating system abstraction. Everything is built at start-up, tables have fixed
sizes, tasks are periodic and share little besides message queues and stores.

This directory holds specifications of the parts whose correctness depends on
sequences of events rather than on the bytes of one packet: what is modelled is
the control of the code in `src/src/fsfw`, statement order included, with data
reduced to what the properties distinguish. Paths below are relative to
`src/src/fsfw`.

## 1. Inventory

### The telecommand chain

| component | state | operations | interaction | what makes it correct |
|---|---|---|---|---|
| Transfer frame validation (`datalinklayer/DataLinkLayer`) | reception flags in the CLCW | `processFrame`, `startOfFrame` checks | hands validated frames to a virtual channel | only frames with right length, CRC and ids pass |
| FARM-1 virtual channel (`VirtualChannelReception`, `Farm1State*`, `Clcw`) | current state, V(R), FARM-B counter, CLCW and its copy | reaction to AD, BD, BC frames; `setToWaitState` | forwards accepted frames to a MAP channel; the TTC reads the CLCW copy | frames forwarded once and in order; no lockout of a ground that follows the rules; the report tells the truth |
| MAP packet extraction (`MapPacketExtraction`) | packet buffer, length, last segmentation flag | `extractPackets` | writes to the TC store, sends to the distributor | only whole packets, nothing outside the buffer |
| Distributors and bridges (`tcdistribution`, `TmTcBridge`, TCP/UDP) | routing table, telemetry fifo | route, poll, send | queues and sockets | a packet goes to one place; telemetry is kept while the link is down |
| Commanding services (`tmtcservices/CommandingServiceBase`) | map of active commands with a fifo each | `performOperation` | queues to target objects, verification reports to the ground | every telecommand gets one consistent set of reports; no store leak |
| Telecommand scheduling (`pus/Service11TelecommandScheduling`) | time-ordered multimap of stored telecommands | insert, release, delete, shift, filter | TC store, distributor | each released once, at its time; shift keeps the order |
| PUS services (`pus`) | per service, little | packet to message and back | as above | formats |

### Data between tasks

| component | state | operations | interaction | what makes it correct |
|---|---|---|---|---|
| Stores (`storagemanager/LocalPool`, `PoolManager`) | sub-pools of fixed elements, a size list, a mutex | add, get, modify, delete, clear | every task; ids travel in messages | one owner per element, data intact, no leak |
| Storage accessors | id, pointer, ownership flag | move, release, destructor | a store | deleted once |
| Containers (ring buffers, `FixedMap`, fifos) | array and indices | insert, erase, iterate | inside other components | behave as the sequence or map they stand for |
| Message queues, mutexes, tasks (`osal`) | operating system objects | send, receive, lock | everything | bounded fifo; mutual exclusion with a time limit |
| Local data pool (`datapoollocal`) | pool variables, HK receivers, update flags | `performHkOperation`, notifications, snapshots | queues, HK service | a subscriber hears of each change, HK at its period |

### Control of the spacecraft

| component | state | operations | interaction | what makes it correct |
|---|---|---|---|---|
| Device handlers (`devicehandlers/DeviceHandlerBase`) | mode, transition modes, reply map with delay cycles, command in progress, raw/cookie state | polling phases, mode transitions, replies | communication interface, power, FDIR, assembly | every transition ends; a reply belongs to its command; missed replies are noticed once |
| Assemblies, subsystems, modes (`AssemblyBase`, `SubsystemBase`, `Subsystem`, `ModeHelper`) | mode, target mode, children table, commands outstanding | command children, collect replies, recover a child | message trees | a commanded mode is reached or reported as failed; recovery of one child at a time |
| Health (`HealthTable`, `HealthHelper`) | health per object, mutex | set, read, notify | assemblies, FDIR | a parent learns of each change |
| FDIR (`FailureIsolationBase`, `FaultCounter`, `EventCorrelation`) | counters with decrement timers, power confirmation | event in, counter over threshold, recovery | event manager, health | isolated failures never trigger recovery, repeated ones do |
| Event manager (`events/EventManager`) | listeners and their matching trees | subscribe, unsubscribe, distribute | every component | each matching listener gets each event once |
| Power, thermal (`power`, `thermal`) | switch states, heater states and countdowns | commands and periodic checks | device handlers, power switcher | no heater left on; redundancy used |
| Monitoring, parameters, memory, actions, object manager, error counters | small tables | single messages | everything | |

Formats and mathematics (`cfdp`, `rmap`, `serialize`, `coordinates`,
`globalfunctions`, packet classes, `fsfw_hal`) keep no state from call to call
that a property of control could be about; `PROJECT.json` lists them with the
reason.

### The behaviours that are hard

* numbers that wrap: frame sequence numbers, a 16-bit position in the pool,
  32-bit milliseconds;
* a link that loses and repeats frames and reports that are old when read;
* several tasks in one store, with part of the work outside the lock and a lock
  that may time out;
* replies that are late, lost or for a command that is already closed;
* arrays whose entries are erased and moved while they are iterated;
* several commanders of one object, and a mode tree whose nodes act on copies of
  each other's modes and healths and count replies that carry no number;
* failures and their confirmations, recoveries and commands that overtake one
  another between tasks;
* a schedule that is changed while it is being worked off;
* fixed tables that are full, and one step of several failing.

`PROJECT.json` has each of these as a hazard, at its line.

## 2. Modules

| module | models | kind |
|---|---|---|
| `Farm1` | `VirtualChannelReception`, the three FARM-1 states, `Clcw`, `BCFrame` | component |
| `ReliableUplink` | what the sequence-controlled service promises | abstract specification |
| `Cop1` | `Farm1` with a lossy link and a ground that keeps its window | composition, implements `ReliableUplink` |
| `MapExtraction` | `MapPacketExtraction` | component |
| `CommandingService` | `CommandingServiceBase` with `FixedMap` and the fifos | component |
| `PoolManager` | `LocalPool`, `PoolManager`, `MutexGuard` | component |
| `HasModes` | what an object with modes promises its commanders | abstract specification |
| `DeviceModes` | the mode machine of `DeviceHandlerBase`, `ModeHelper`, the power switch | component, implements `HasModes` |
| `DeviceCommands` | the communication cycle of `DeviceHandlerBase` with its command and reply maps, `ActionHelper` | component |
| `DeviceFdir` | `DeviceHandlerFailureIsolation`, `FailureIsolationBase`, `FaultCounter` | component |
| `Assembly` | `AssemblyBase` on `SubsystemBase`, with its devices | composition |
| `Subsystem` | `Subsystem` on `SubsystemBase`, with its children | composition |
| `Scheduling` | `Service11TelecommandScheduling` with the recipient's queue | component |
| `TelecommandProofs` | theorems about the way of a telecommand: `Farm1`, `Cop1`, `MapExtraction` and `Scheduling` | proofs |
| `PoolManagerProofs`, `CommandingServiceProofs`, `DeviceModesProofs`, `DeviceCommandsProofs`, `DeviceFdirProofs`, `AssemblyProofs`, `SubsystemProofs` | theorems about the module they are named after | proofs |
| `MC*` | the constants of the runs | model checking |

In each component module the operators named `Slip...` are deliberate mistakes
(a dropped guard, a forgotten reset, a wrong comparison) that no action uses.
`PROJECT.json` names for every property one slip which, put in place of the
definition that follows it, makes the property fail.

### Farm1

One action is one call of `frameAcceptanceAndReportingMechanism` for a
validated frame. `currentState`, `vR`, `farmBCounter`, `internalClcw` and `clcw`
are the members of the same names; of the CLCW the fields that the machine
changes are kept (three flags, V(R), the two bits of the FARM-B counter). The
nine handlers are nine groups of actions. `Diff` is the `int8_t` difference of
`Farm1StateOpen.cpp:10` for a number width `SeqModulus`, and the two window
tests keep their different comparisons (`<` and `>=`). `Report` is the tail of
the call which refreshes the register and copies it out. `setToWaitState` writes
only the internal register, as in the code. Nothing in the repository calls it
("currently, it is not in use", `Farm1StateWait.h`), so the states it may be
called in are the constant `WaitCallers`.

### Cop1 and ReliableUplink

`Cop1` puts the virtual channel at the end of a link. The ground and the link are
external: they are given no more than what the code relies on. The ground numbers
its frames, leaves at most `SendWindow` unacknowledged, may repeat any of these
at any time, may send bypass and unlock frames, and reads V(R) from a CLCW that
may be old. The link keeps the order of frames and loses any of them.
`ReliableUplink` is the service: frames come out once each and in order, and (in
`UplinkSpec`) every frame comes out. `Cop1` implements it with
`sent <- nextSend, got <- accepted`.

### MapExtraction

A packet is a number, a portion is a pair of numbers, and sizes are kept because
the buffer has an end. Each branch of the switch in `extractPackets` is one
operator. `clearBuffers` is a part of the branches that call it, and since
`lastSegmentationFlag` is assigned again at `MapPacketExtraction.cpp:82`, its
reset there has no effect: the model has only the final assignment. Sending a
completed packet may fail at the store or at the queue; both lose the packet and
`extractPackets` returns OK. Blocked frames carry zero or more packets; each may
be refused on its own. The class uses `SpacePacketBase`, which is no longer in
the repository, and `FSFW_ADD_DATALINKLAYER` is off by default; what the code
needs of it is the length of a packet.

### CommandingService

`phase` and `slot` are the program counter of `performOperation`: one action
handles one reply, one telecommand, or one entry of `checkTimeout`, and other
tasks (the distributor, the target objects, the clock) act in between.
`commandMap` is the array behind `FixedMap`, in its order, because `erase` moves
the last entry and steps the iterator back, which `checkTimeout` depends on.
`startExecution` and `checkAndExecuteFifo` call each other until a telecommand
stays active, cannot be read, or none is left; `Execute` describes the outcome of
the whole chain: a number of telecommands which end while they are started, and
then one that stays (`StartActive`), one that cannot be read (`SkipLost`), or
none (`RunOut`, which erases the entry). What a child class answers, and whether
a send succeeds, are free choices. Telecommands are numbered in the order of their
arrival; the initial state chooses the object of each (`objectOf`, out of
`Targets`) and which of them can no longer be read when they come out of a fifo
(`unreadable`). Behind an unreadable telecommand the entry of its object
stays with a finished command, and some properties are stated for the
other objects only (`Undisturbed`). Its start failure is reported with the fields
`tcReader` finds in the packet it read last, which may have been deleted, and its place
in the store given to another telecommand: `Blame` chooses among those, and `blamed` has
each telecommand that was named so, with the reports on it at the time.
After a timeout or a failed step the object may go on working on a command the
service has ended, and reply later. `mixedUp` records which command was ended by the
reply about which other one; the code has no such variable, and nothing depends on it.

### PoolManager

Each call is split where it touches shared state: taking the lock, searching,
marking, releasing the lock, writing the data, and for deletion zeroing and
freeing. Reads of the size list by `getData` and `modifyData` take no lock, as
in the code. A `token` records who holds an id and what he may expect to find; the
interface demands that ids be "passed token-like between tasks" and
the tasks do so (`PassOn`). The deletion by pointer (`DeleteByPointer`) locks, looks the
id up and calls the virtual deletion by id, which locks the same mutex: this inner lock
waits for the caller itself and always fails by timeout, `MutexGuard` ignores that, and
the mutex is released twice, in the middle and at the end. In between, and at the
end, another task may hold it. Two constants say what else can happen: `Overstays` has the
places in a call at which a task may hold the mutex longer than another one waits for it,
so that the other goes on without it, and `OwnerChecked` says whether the operating system
refuses to release a mutex that another task holds. `Wiped` computes which elements
the `memset` of `deleteData` reaches from its 16-bit position
(`PositionModulus`). `clearStore` and `clearSubPool` ("Use with care!") are
called while no task is inside the store, and take the ids out of use.

### DeviceModes and HasModes

`phase` is the place in `performOperation` (PERFORM_OPERATION step) and at the end
`parseReply`, where a child class may change the mode too. Each case of
`doStateMachine` is an action. The child class is free: in each transitional mode
it may do nothing or move to one of the modes its documentation allows
(`ChildMoves`); one that gives up a transition for another one moves towards
ON. Time is one bit: the limit of the present mode has passed or not
(`overdue`; `setMode` restarts the timer). `powerSwitcher` says whether the handler has
a power switcher, and `hasSwitches` whether `getSwitches` names switches of it too (else
the state is NO_SWITCH, but the time limits of the switcher apply); several switches act
as one. The commanders are the parent and the ground; `owed` has those whose
command was taken and who have no answer, and `told` what each was last told. An
invalid mode is refused and submodes are left out. `switchSkipped` marks the two ways
in which the code changes modes without the switch: MODE_RAW commanded in OFF, and
OFF commanded in ERROR_ON. `HasModes` is the promise to a commander;
`DeviceModes` implements it with every transitional mode seen as `"moving"`.

### DeviceCommands

`step` is the step of the polling sequence; PERFORM_OPERATION is cut at
`decrementDeviceReplyMap`, and GET_READ handles the replies found in the data one at
a time. A command has the reply it enables in `ReplyOf` (its own or the
alternative one) and expects one; a reply has `delay` cycles left, or a countdown
(`Timed`). The communication interface may fail at each call, the child may build
any command or none, raw ones in MODE_RAW too (`ChildRaw`), and the device may answer
anything at any time. Of the mode
only what the cycle asks for is kept, and it may change whenever the mode machine
runs. `asked` and `stray` record which commanders still wait for an answer and which
got one after their final answer, and `unasked` whether a raw command was answered that
nobody had sent; nothing in the code depends on them.

### DeviceFdir

The events are the classes that `eventReceived` distinguishes: to be confirmed,
counted, acted on at once, and information. The three fault counters have their
thresholds and their decrement (any subset may be due when `checkForFailures` ends).
The event queue is bounded and drops what does not fit. Confirmation requests are
answered late or never, with YOUR_FAULT or MY_FAULT. The owner's health is changed
by FDIR, by the assembly that ends a recovery, and by others; `meddled` records that
somebody else has set the health during an action of FDIR, or that an old announcement
was read in it, and `overlooked` that the assembly has forgotten the request
(`RequestForgotten`, the case of `overlooked` in `Assembly`).

### Assembly and Subsystem

Both are composed with their children. A child has a mode, a health, an inbox of
commands and an outbox of messages to its parent; it obeys, rejects, or fails to
obey; and it may move or change its health by itself. In `Assembly` it takes time to arrive
and rejects commands meanwhile, as `DeviceModes` does. Messages of one child stay
in order, those of several are mixed. `performChildOperation` is enabled when the
queue is empty, because `performOperation` empties it first. The child class of an
assembly is external: it commands `Enough` healthy devices on and the others off,
in one or two steps, and overwrites healths when it cannot do with those that
are healthy (`commandChildren`). `commandsOutstanding` is an integer that may
become negative, as in the code: replies are counted whatever they answer.
Commands to the parent are numbered, and each counts as a commander of its own:
`theOneWhoCommandedAMode` is the number of the one `ModeHelper` keeps, 0 for none,
`waiting` has those without an answer, and `displaced` those that were overwritten before
their answer by a later command that was taken in mid-transition (OFF at an assembly, the
fallback at a subsystem).
`MODE_NORMAL` behaves as `MODE_ON`; PERMANENT_FAULTY behaves as FAULTY here and is
left out. In `Subsystem` the tables and sequences are constants that
`checkSequence` accepts, so FALLBACK_FAILED does not occur; `waits` of a step makes
`performChildOperation` stay for a while; `uptimeStartTable` keeps the step at
which the wait began, since a transition that begins during a wait inherits it.
`targetMode` is 0 in the code until the first transition begins, here `None`.

### Scheduling

The multimap is the sequence `telecommandMap`, ordered by time and among equal
times by insertion; its iterators are positions. Times wrap at `TimeRange`. `fate` and
`due` are what the ground believes of a telecommand: scheduled for which time,
deleted, released. `strayed` has those a filter has mistreated: the one behind the
window of a filter deletion, and the ones a filter shift has moved more than once
because they were inserted again in front of the end of the window (`ShiftAll`, a
recursive function over the turns of the loop). The function has `MAX_NUM_TCS * TimeRange`
turns, and the theorem `TimeshiftLoopEnds` says that the loop has ended by then.

## 3. Runs

Number widths, capacities and sets are small; the number of states and the time
are for two workers.

| run | specification and bounds | what it shows |
|---|---|---|
| `farm1` | numbers modulo 16, window 8, FARM-B modulo 8, `setToWaitState` in Open and Wait | for every sequence of frames the copy of the CLCW tells the state of the machine, and only an unlock command leaves Lockout |
| `cop1` | numbers modulo 8, window 6 (positive and negative 3), send window 3, 10 frames, 3 under way, with fairness | the ground is never locked out, never takes a frame for accepted that was not, frames are forwarded once each in order, and every frame in the end |
| `map` | three packets of shapes that fit or exceed the buffer, blocked frames of 0 to 2 packets, with and without frames missing | the buffer is never exceeded, no portion is forwarded twice or late, and where no frame is missing a packet that fits is forwarded whole or was refused |
| `service` | three telecommands for up to three objects in five ways of sharing them, map of 2, fifos of 1, queues of 2, one step reply, the second telecommand perhaps unreadable, with fairness | reports tell one story, the start failure of a lost telecommand falls only on one that has had no report of its own, the store holds what waits, a timeout pass misses no entry, a reply is taken for another command's only if its own command was given up, and every telecommand is reported on to the end |
| `pool` | two tasks, sub-pools of 1 and 2 elements, data of sizes 1, 2, 4, with and without spilling, positions modulo 4, `Overstays = {}`, `OwnerChecked = TRUE` | one holder per element, data intact, no leak, failure only when full |
| `device_modes` | finite as it stands, with and without switcher and switches; with fairness | every commander taken is answered, the parent knows the mode, the power fits the mode, every transition ends (one exception), and the handler implements `HasModes` |
| `device_commands` | five commands (two share a reply, one with a countdown, one periodic, the raw command, which the child may build too), two delay cycles, with fairness | a command in execution has something left that ends it, commanders are answered once, every command ends |
| `device_fdir` | thresholds 1, queue of 2, one request of each kind under way, with fairness | FDIR knows of its recoveries, does not undo the decisions of others, ends recoveries that the assembly does not forget, and gives up a device that needs one after the other |
| `assembly` | two devices of which one is enough, up to two mode commands and two mishaps, three of them together, with fairness | at rest the assembly is where it was told to be, has answered all but displaced commanders and its mode is backed by the devices, transitions end, recoveries are served |
| `subsystem` | two children, three modes in a chain of fallbacks with waits and checks, two commands, two troubles, with fairness | at rest the mode is backed by the children and all but displaced commanders have been answered, the mode changes for one of two reasons, transitions end |
| `scheduling` | three telecommands, two with one request id, map of 2, store of 3, queue of 1, times modulo 5, with fairness | the map and the store agree with what the ground asked for, releases are in time and in order, what is due is released |
| `scheduling_delete` | the same | **violated**, see findings |

Why the bounds are enough to be of interest: in `cop1` more frames are sent than
there are numbers, so that old copies of a frame meet the number in its next
round, and the send window equals the positive window, the largest one allowed.
In `farm1` nothing is bounded but the width of the numbers, and the width is
larger than the window, so that there are illegal frames; the
theorems below remove the widths. `MapExtraction` needs a packet that fills the
buffer exactly, ones that exceed it in the first, a middle and the last portion,
and packets after them. Whether frames may be missing (`bypass`) is chosen in the
initial state. In `service` three telecommands to one object fill
its entry and its fifo and leave one to be rejected, three to three objects exceed
the map, and with two entries `erase` moves one while `checkTimeout` visits the map
(with fifos of 2 the run passes as well).
In `pool` two elements of one size are needed to
find the wrong one, two sub-pools to choose between, and data of size 4 fits
none; the larger sub-pool ends at the last position that `PositionModulus` allows, and
with one value less `DataIntact` fails. The tasks of `PoolManager` are interchangeable, hence the symmetry.
In `device_commands` the commands are one of each kind the reply map distinguishes,
and a pair that gets in each other's way. With thresholds of 1 two faults reach every
branch of FDIR, and a queue of 2 holds an answer from before a recovery together with
an event after it. Two mishaps in `assembly` and `subsystem` are a failure and
a second one while the first is being handled; two mode commands, besides
those an assembly gives itself, let replies of one transition fall into the next, and the
second displace the commander of the first. In `scheduling` two shifts (one forward, one that wraps backward) and
two time tags give windows with nothing, one or both of the entries in them.

Deadlock checking is off only for `MapExtraction`, where the ground stops after
`MaxPackets`, and for `Assembly`, which comes to rest when its commands and mishaps
are used up. The other systems can always go on.

### Fairness

`CopLiveSpec`: an ARQ protocol is live only if the link is. Frames do not stay
under way (`WF(Lose)`: each is lost or delivered), the frame V(R) waits for
is not lost every time it is sent (`SF(DeliverAccept)`), the ground repeats
its oldest unacknowledged frame (`SF(Resend(acked))`) and CLCWs come down and are
read. On board nothing is assumed beyond the processing of a frame that has
arrived.

`LiveSpec` of `CommandingService`: the task is periodic, so `performOperation`
is called again and again (`WF`), and time passes, so that an entry which stays in
the map is overdue some time (`SF(TimePasses(k))`; strong, because the clock does
not move while `checkTimeout` runs). The objects need not answer at all.

`FairSpec` of the other modules: tasks are periodic, so each step of the polling
sequence, `performService`, `performChildOperation` and the reading of a message
that is in the queue happen in the end (`WF`), and clocks run out. Beyond that
`DeviceFdir` assumes that others do not keep its queue filled for ever, since
`checkForFailures` loops until it is empty (`SF` of reading the last message), and
that the assembly ends the recovery it is asked for unless it forgets the request
(`SF(~overlooked /\ Recovered)`), which is what `RecoveryServed` of `Assembly` promises;
`Assembly` and `Subsystem`
assume that their children read their commands and arrive or give up, which
`DeviceModes` promises with `TransitionsEnd` (but for `FailedStartUp`), and that mishaps are
finitely many. In `Subsystem` every child answers; an assembly below it that the
ground sends OFF in mid-transition does not answer the subsystem (see below), and
the transition then stands still like one whose reply was lost; `Scheduling` that the recipient reads its queue. In `DeviceModes`
neither the switch nor the child class is fair.

## 4. Findings and known weaknesses

`scheduling_delete` is a run in which TLC finds a behaviour of the code that
contradicts a sentence of the repository: a filter-based deletion erases one entry
behind its window, because the end of a half-open range is incremented once more. The
telecommand is never released, and its packet stays in the store.

The following are in the models too. The properties except them by name, or are
checked for the configurations in which they cannot happen; changing the
constant or dropping the exception shows each of them.

* `MapPacketExtraction.cpp:82`: after a portion that exceeds the buffer,
  `clearBuffers` resets `lastSegmentationFlag`, and the end of `extractPackets` sets it
  again. The next portions of the packet are accepted, and with the last one a
  packet without its beginning is forwarded. (`MapPacketExtraction.h:15` speaks of
  whole packets.)
* `CommandingServiceBase.cpp:168`: replies are matched by their sender. The late reply
  to a command that timed out ends the command started after it
  (`OnlyLateRepliesMixUp` says that nothing else is mixed up).
* `CommandingServiceBase.cpp:423`: when a queued telecommand cannot be read, its entry
  stays in the map with the command before it, which is reported a second time; and its
  start failure is reported with the ids of the packet that `tcReader` read last, which
  may be for another object (`:401`). `ReportsTellOneStory` limits the damage: the ids are of
  a telecommand that has had no report of its own.
* `CommandingServiceBase.cpp:293`: a queued telecommand is kept by its store address
  only and is prepared with the object id of its entry, which is wrong when two
  objects share a queue.
* `PoolManager.cpp:30`: the deletion by pointer locks, and so does the deletion by id
  that it calls through `LocalPool.cpp:119`. The inner lock waits for its own task until
  its limit, the same that all others have, and its guard releases the mutex the outer one
  is to protect. Tasks that came before it time out first and go on without
  the mutex, since `MutexGuard.h:22` ignores the result: with
  `Overstays = {"lockDelete"}` two tasks may reserve the same element. The outer guard's
  release is the second, of a mutex that may have been taken meanwhile: with
  `OwnerChecked = FALSE` (a binary semaphore) it opens another task's critical section, with
  the same result. In the repository only `PlacementFactory.h:65` deletes by pointer.
* `LocalPool.cpp:92`: `deleteData` cuts the position of the element to 16 bits; with
  `PositionModulus` smaller than the last position of a sub-pool another element is zeroed.
* `LocalPool.cpp:170`: a reservation that fails has changed the pool index of the
  caller's id (`SubPoolFull`), although `StorageManagerIF.h` says that it "is unchanged
  then".
* `DeviceHandlerBase.cpp:363`: a start-up that times out goes to SHUT_DOWN with SHUT_DOWN
  as its own fallback. `DeviceHandlerBase.h:260-262` says that a shut down
  which the child does not finish ends in POWER_DOWN; here it begins again
  (`FailedStartUp`).
* `DeviceHandlerBase.cpp:1012` and `:528`: a command whose reply another command has
  enabled meanwhile, or whose periodic reply has been disabled, stays in execution
  (`Abandoned`).
* `ActionHelper.cpp:73`: a command that is finished at once is answered with a completion
  and a failed step; with a periodic reply a command is completed by
  every reply (`SeveralAnswers`).
* `DeviceHandlerBase.cpp:611`: a raw command is answered to the last partner of the queue,
  whoever sent it. If the child builds one in MODE_RAW (`:1354`), somebody is told of a
  command he has not sent (`unasked`), and the packet of the last raw command from outside,
  `storedRawData`, is deleted once more, when its place may belong to another.
* `DeviceHandlerFailureIsolation.cpp:114`: the answer to an old confirmation request
  changes the health of a device under external control (`LateConfirmation`).
* `AssemblyBase.cpp:247`: a second request for recovery during a recovery is forgotten
  (`overlooked`). The assembly does not serve it, and FDIR stays in RECOVERY_ONGOING until
  somebody sets the health.
* `ModeHelper.cpp:34`: there is room for one commander. An assembly takes OFF in
  mid-transition (`AssemblyBase.cpp:190`), a subsystem the fallback of its mode
  (`Subsystem.cpp:488`): the commander of the transition so ended is overwritten and never
  answered (`displaced`).
* `Service11TelecommandScheduling.tpp:445`: a filter shift may visit entries again which
  it has inserted; `:204`: a telecommand that finds the map full leaves its packet in the
  store. The header says that disabling has no effect (`.h:33`), and it has.

Seen in the code and outside of the models:

* `CommandingServiceBase.cpp:441`: the time of a timeout is computed in 32 bits of
  milliseconds, which wrap after 49 days.
* `LocalPool.cpp:161`: `clearStore` frees elements whose ids are held or which a task in
  `addData` has reserved.
* `DeviceHandlerBase.cpp:729`: every failed read request lets one more missed reply be
  ignored.
* `DeviceHandlerFailureIsolation.cpp:148`: after the parent took the blame, FDIR ignores all
  faults until a mode or health message comes.
* `HealthTable.cpp:38`: the mutex guard is a temporary and is destroyed at once.
* `SubsystemBase.cpp:124`: a reply lost in a full queue leaves a transition unfinished;
  nothing limits its time.
* `Subsystem.cpp:442`: `deleteTable` erases the id from the sequences.
* `Service11TelecommandScheduling.tpp:543`: an iterator is read before it is compared with
  `end()`.

## 5. Proofs

The theorems hold for every value of the constants that the named assumptions of
the modules allow.

**TelecommandProofs, the channel.** Of the channel alone, `FarmTypeCorrect` is type correctness,
`FarmRegistersCorrect` proves `FlagsMirrorState` and `ReportIsCurrent`, and
`LockoutHolds` the action property `LockoutNeedsUnlock`, the last two under the assumption
that nobody calls `setToWaitState` in Lockout (`"lockout" \notin WaitCallers`). The
assumption is needed: such a call would leave the state with the lockout flag still up.
Type correctness and the two invariants together are inductive; the lockout property
follows from each action under them.

Of the channel with its link and ground, `WindowSuffices` proves that with any number
width, any even window and any number of frames under way the ground is never locked out
(`NoSpuriousLockout`), and `AcknowledgementsTrue` that it is never misled
(`AcknowledgedIsAccepted`), provided its send window is at most half the window of the
channel. `UplinkIsReliable` proves that the system implements `ReliableUplink`. None of
the properties is inductive: a frame under way could carry any number as far as they are
concerned. The invariant `CopInv` adds `CountsInWindow` (V(R) is the number of forwarded
frames modulo the width, and `acked <= accepted <= nextSend <= acked + SendWindow`, with
a report in between) and `LinkInWindow` (an AD frame under way has been sent and is
at most `SendWindow` older than V(R), and of two frames under way the earlier is
less than `SendWindow` ahead of the later). From these the difference which
`handleADFrame` computes modulo the width is the true difference, and
falls into one of the two windows. The step is arithmetic with a modulus that is
a constant, and is done once, in lemmas.

**TelecommandProofs, packet extraction.** For every size of the buffer, every shape and
number of packets and every loss: `MapTypeCorrect`, `BufferAlwaysInBounds`
(`BufferInBounds`), `PortionsAlwaysInOrder` (`PortionsOnceInOrder`) and
`FittingAlwaysAccounted` (`FittingPacketsAccounted`). The inductive invariant `MapInv` adds
`ArrivedOK` (only what has been sent so far is in the buffer or forwarded), `BufferOrder`
(the buffer is in order and, while `extractPackets` expects more, later than all that has
been forwarded; once a packet has been forwarded or broken off its portions may be left in
the buffer, but then nothing is appended to them), and `WholeOK` (on a channel without losses the packet under way, if it
fits, is in the buffer as far as it has been sent). That such a packet is never taken for
one too long needs that the size of a beginning is at most the size of the whole.
`Total` adds up sizes by a recursive function. The provers cannot instantiate the library's
induction theorems, so that it is defined, has one value and grows with its argument is
shown by the least number for which it would not be so (`LeastNumber`, `SumsExist`,
`TotalIsSum`).

**TelecommandProofs, the schedule.** For every size of the map, the store and the queue and
every range of times: `ScheduleTypeCorrect`, `ScheduleAlwaysAsAsked` (`ScheduleIsAsAsked`),
`StoreAlwaysMatchesSchedule` (`StoreMatchesSchedule`) and the action property
`AlwaysReleasedInTime` (`ReleasedInTime`). The inductive invariant `ScheduleInv` says that
the map is in the order of its times (`InTimeOrder`) with each telecommand once
(`EachOnce`), that an entry is of a telecommand the ground believes scheduled, at
that time unless a filter has mistreated it, and no other is missing
(`ScheduleFates`), and that the queue has released telecommands, once each (`QueueFates`).
The order is needed for the release: `performService` goes through the whole map, and what
it finds due are the first entries only because of it; and for the windows, whose ends
are found by stepping on. The single occurrence is needed because only with it
the removal of an entry is the end of its telecommand.

The hard step is `doFilterTimeshiftActivity`, which puts entries back into the part of the
map it has yet to walk through. `TimeshiftLoopEnds` proves that within
`MAX_NUM_TCS * TimeRange` turns the loop has nothing left of its window, with the same
entries in the map and in order. The loop always takes the first entry, one with the
earliest time of the window, out of it or puts it back later (`Advances`), so the earliest
time never goes back and in each turn one entry less has it; there are at most
`MAX_NUM_TCS` such turns for each of the `TimeRange` times (`TurnsBounded`).
That the entries are in order throughout holds because the window stays between what is in
front of it and what is behind (`LoopInOrder`).

**PoolManagerProofs.** All under the assumption `NobodyOverstays`: no task holds the mutex
for longer than another waits for it, the task that waits for itself in the deletion
by pointer included, and a mutex is released by its owner only. The inner lock of that
deletion times out, and both of its unlocks are taken, all the same. For any number of
tasks and any configuration. `ElementsExclusive`: the types are kept and an element is in
one pair of hands at a time (`OneHolder`). `ElementsNeverLost`: an element that is marked
used is in somebody's hands (`NothingLeaks`). The invariant `PoolInv` adds
`MutualExclusion` (who is between lock and unlock holds the mutex; behind the inner unlock
of the deletion by pointer nothing is left to be protected), `HeldIsUsed`
(an element in somebody's hands is not marked free) and `FoundIsFree` (between
finding and marking, the element stays free). `RefusedOnlyWhenFull` is the action property
`FailsOnlyWhenFull`: a reservation fails only when every element it may take is used. A
search that spills goes over the sub-pools in several steps, and `SearchInv` adds that the
ones it has left behind are still full (`SearchedAreFull`). `DataSurvives`: if moreover
all positions fit (`PositionsFit`), the data under an id is what was written for it. Its
invariant `DataInv` adds the size an element is marked with before the data is written.

**CommandingServiceProofs.** For any number of telecommands, objects, entries and replies
and any depth of the queues: `ServiceTypeCorrect` (among others, the map and the fifos keep
to their fixed sizes), `ReportsAlwaysTellOneStory` (`ReportsTellOneStory`),
`StoreAlwaysMatches` (`StoreMatchesQueues`), `MixUpsOnlyByLateReplies`
(`OnlyLateRepliesMixUp`) and the action property `TimeoutPassesComplete`
(`TimeoutPassComplete`). One inductive invariant, `ServiceInv`, serves all of them. It says
that the entries of the map are for different queues and hold telecommands for their own
queue (`MapOK`); that a stored telecommand waits in exactly one place (`StoreOK`);
that one which waits has not been reported on and one which is active has not ended
(`LifeOK`); that an object, and a reply, are about a telecommand that has been begun and is
for that queue (`SentOK`); that whoever was taken for another had ended (`MixedOK`); and
what `checkTimeout` has passed is not overdue (`VisitedOK`). The last four are not shown
action by action: each action is shown to be a step in the life of every telecommand
(`TCStep`: submitted, started or ended at the start, reported on, ended), and the
invariant follows from that once. The proof is the longest of the project because the loops
of `performOperation` interleave with what arrives, and a slot freed by one
step may be taken by the telecommand of another.

**DeviceModesProofs.** `DeviceModes` has no constants, so TLC visits all of its states; the
proofs say why the properties hold. `ParentAlwaysKnows` (`ParentKnows`) and
`PowerAlwaysFits` (`PowerFitsMode`) are inductive together with `OwedOK` (nobody but
the present commander waits, and nobody while the handler rests), `SourceOK` (the modes
the child may fall back to) and `OffOK` (what has been commanded off stays off until
the handler is started again): `ModesInv`. `HandlerHasModes` proves from it that every
step is a step of `HasModes` or a stutter.

**DeviceCommandsProofs.** For all maps of commands and replies: `CommandsTypeCorrect`,
`AlwaysAwaited` (`ExecutingIsAwaited`) and `AnsweredOnlyOnce` (`AnsweredOnce`), with and
without a child that builds raw commands. None of
them is inductive. `CommandsInv` adds `CycleOK` (a write is under way only from the
queue to GET_WRITE, not in MODE_OFF, and for a command in execution unless its reply is
periodic), `ReplyOK` (the command of a reply entry is one that enables this reply, and an
awaited reply that is not periodic has a command in execution whose write is over),
`ExecOK` (the reply of a command in execution that is not being written has been
enabled by some command) and `AskOK` (an external command in execution has a commander
waiting, or may have several answers). `ReplyOK` makes commands of different replies
different, so that a timeout of several replies at once ends each command once.

**DeviceFdirProofs.** For all thresholds, queue lengths and numbers of requests:
`FdirTypeCorrect` (no counter exceeds its threshold), `RecoveryAlwaysKnown`
(`RecoveryIsKnown`) and the action property `OthersAlwaysDecide` (`OthersDecide`).
`FdirInv` is the conjunction of the types and `RecoveryIsKnown`, arranged by what the
reactions change together (`ReactionOK`); each reaction of `eventReceived` is one lemma.

**AssemblyProofs.** For any number of devices: `AssemblyTypeCorrect`, `RestAlwaysFinal`
(`RestIsFinal`) and `ModeAlwaysBacked` (`ModeIsBacked`). The assembly decides by what it
has heard, and `ModeIsBacked` is about where the devices are, so `AssemblyInv` adds `NewsOK`:
the last news of a mode that is under way is the mode the device has, and where there is
none the assembly knows it. `SettledOK` says that at rest the mode is backed by what
is known, unless something has been noted and is to be looked at; `OutstandingOK` bounds
the replies awaited by the way the commands were sent. `CommanderOK` says that who waits
is the one commander kept or has been displaced.

**SubsystemProofs.** For all tables, sequences and children: `SubsystemTypeCorrect`,
`RestAlwaysBacked` (`RestIsBacked`) and the action property `ModeOnlyChangesForAReason`
(`ModeChangesForAReason`). `SubsystemInv` has the same parts: `NewsOK`, `CommanderOK`, and `SettledOK`
with the table to be checked, which in a transition is that of the target.

Checked by TLC only:

- liveness, with its fairness, which is out of reach of the prover: that every frame gets
  through, telecommands are reported on to the end, transitions and recoveries end, commands
  are answered and what is due is released.

Every invariant and every action property of the passing runs is a theorem, and so are the
two refinements.

`TypeOK` is a theorem of every module proved about, and no property of a run: what could
go wrong with a type (a full fifo, a count below zero) shows in the properties.

## 6. What is not modelled

Of the modelled components: contents of packets, formats and reports other than their
kind; configuration (`initialize`, `addMapChannel`) before the first operation;
the clock of `CommandingService` (a command is overdue or not, so the wrap of 32-bit
milliseconds is not visible); the contents of an element after a task writes past
its end; `clearStore` while tasks are inside the store; of device handlers wiretapping,
thermal requests, data sets, submodes, commands that expect several replies, and
the parsing of bytes; `EventCorrelation` and the confirming side of FDIR; the changing of
tables and sequences of a subsystem by command; the mutex of the health table, which is
a temporary and protects nothing, with tables that are complete before the tasks
start; lost replies in the mode tree, for which the code has no time limit.
Of the rest of the
framework the components marked `not_modelled` in `PROJECT.json`.

## 7. Plan

Still to model, the most intricate control first:

1. `EventManager` with its matchers; `StorageAccessor` over the store.
2. Containers as operators checked against sequences: ring buffers and the fifos.
3. `LocalDataPool` housekeeping and update notifications; `TmTcBridge`; heaters;
   `PowerSwitcher` between `DeviceModes` and the switch.

Theorems worth proving next: that `Assembly` and `Subsystem` are owners of modes too
(`HasModes`) as long as no command displaces another, which needs a mapping that shows the
modes they pass through.
